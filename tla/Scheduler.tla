------------------------------ MODULE Scheduler ------------------------------
(***************************************************************************)
(* The persisted deferred-job queue of core/scheduler.go: the task table,  *)
(* its mutex schedDBMu, the one-slot channel schedNotify, the loop         *)
(* goroutine with its timer, and the callers of the package's operations.  *)
(*                                                                         *)
(* What is one step.  Every database call is a step of its own wherever    *)
(* another goroutine could run between it and the next one:                *)
(*   - UpdateScheduledTaskPayload and RescheduleTaskAt read and write the  *)
(*     row in two steps under schedDBMu;                                   *)
(*   - ScheduleTask and UnscheduleTask hold schedDBMu only to read the     *)
(*     database pointer, so their write happens at any moment, whoever     *)
(*     holds the mutex; the wake-up follows as a second step;              *)
(*   - the loop takes the key snapshot, then visits one key per step.      *)
(* Reading and removing one due row is a single step: the only unlocked    *)
(* write to an existing row is its removal, which commutes with it.        *)
(*                                                                         *)
(* Time is a natural number; RFC3339 text keeps whole seconds, which is    *)
(* Format below (Resolution units of time to a second).  The duration      *)
(* nextSleepDuration returns is used at once, so a timer is its deadline.  *)
(***************************************************************************)
EXTENDS Integers

CONSTANTS
    Task,         \* task ids; ScheduleTask draws a fresh UUID every time
    HandledTask,  \* those whose kind has a registered handler
    Client,       \* goroutines that call the scheduler's operations
    Payload,      \* opaque payloads
    MaxTime,      \* bound on the clock and on the times callers ask for
    Resolution,   \* units of time in one second
    IdleSleep,    \* the 24h sleep of an empty table
    None          \* no row, no task

Row == [runAt : Nat, payload : Payload]

ASSUME SchedulerAssumption ==
    /\ HandledTask \subseteq Task
    /\ MaxTime \in Nat
    /\ Resolution \in Nat \ {0}
    /\ IdleSleep \in Nat
    /\ {"loop", "free"} \cap Client = {}
    /\ None \notin Row

VARIABLES
    now,       \* the wall clock
    db,        \* schedulerTable, id -> row: survives a crash
    mu,        \* holder of schedDBMu, or "free"
    notify,    \* schedNotify holds its one token
    ctxDone,   \* the loop's context is cancelled
    lpc,       \* where StartGlobalScheduler and then the loop goroutine is
    boot,      \* the loop's first select has not been reached
    scan,      \* keys the loop's current scan has not visited yet
    toFire,    \* rows dequeued by fireDueTasks, handler not yet launched
    earliest,  \* earliest RunAt nextSleepDuration has seen, -1 for none
    timer,     \* deadline of the loop's timer
    cpc,       \* where each caller is in its operation
    ctask,     \* the task its operation is about
    crow,      \* the row its Get returned
    \* Auxiliary history; only `used' occurs in guards (ids are fresh).
    used,      \* ids ScheduleTask has drawn
    started,   \* number of handler goroutines launched, per task
    fired,     \* time and payload the handler was last launched with
    askedAt,   \* time of the last request that succeeded
    askedFor,  \* payload of the last request that succeeded
    gone       \* tasks whose UnscheduleTask has returned

loopVars == <<ctxDone, lpc, boot, scan, toFire, earliest, timer>>
callVars == <<cpc, ctask, crow>>
histVars == <<used, started, fired, askedAt, askedFor, gone>>
vars     == <<now, db, mu, notify, loopVars, callVars, histVars>>

Time   == 0..MaxTime
LoopPc == {"down", "preinit", "fireLock", "fireScan", "launch", "sleepLock",
           "sleepScan", "select", "done"}
CallPc == {"idle", "update", "reschedule", "wakeAdded", "wakeMoved",
           "wakeRemoved"}

TypeOK ==
    /\ now \in Nat
    /\ db \in [Task -> Row \cup {None}]
    /\ mu \in Client \cup {"loop", "free"}
    /\ notify \in BOOLEAN
    /\ ctxDone \in BOOLEAN
    /\ lpc \in LoopPc
    /\ boot \in BOOLEAN
    /\ scan \in SUBSET Task
    /\ toFire \in [Task -> Row \cup {None}]
    /\ earliest \in Nat \cup {-1}
    /\ timer \in Nat
    /\ cpc \in [Client -> CallPc]
    /\ ctask \in [Client -> Task \cup {None}]
    /\ crow \in [Client -> Row \cup {None}]
    /\ used \in SUBSET Task
    /\ started \in [Task -> Nat]
    /\ fired \in [Task -> [at : Nat, payload : Payload] \cup {None}]
    /\ askedAt \in [Task -> Nat]
    /\ askedFor \in [Task -> Payload \cup {None}]
    /\ gone \in SUBSET Task

Init ==
    /\ now = 0
    /\ db = [t \in Task |-> None]
    /\ mu = "free" /\ notify = FALSE /\ ctxDone = FALSE
    /\ lpc = "down" /\ boot = TRUE /\ scan = {}
    /\ toFire = [t \in Task |-> None]
    /\ earliest = -1 /\ timer = 0
    /\ cpc = [c \in Client |-> "idle"]
    /\ ctask = [c \in Client |-> None]
    /\ crow = [c \in Client |-> None]
    /\ used = {} /\ gone = {}
    /\ started = [t \in Task |-> 0]
    /\ fired = [t \in Task |-> None]
    /\ askedAt = [t \in Task |-> 0]
    /\ askedFor = [t \in Task |-> None]

-----------------------------------------------------------------------------
(* Small operators *)

\* runAt.UTC().Format(time.RFC3339): whole seconds, rounded down.
Format(t) == t - (t % Resolution)

\* fireDueTasks does not skip the row: its RunAt is not after the formatted
\* clock.  RFC3339 in UTC has a fixed width, so text order is time order.
Due(row) == row.runAt <= Format(now)

\* db.Keys(schedulerTable)
Keys == {t \in Task : db[t] # None}

\* The process runs and PreInitScheduler has set schedDB.
Up == lpc # "down"

Call(c, pc, t, row) ==
    /\ cpc' = [cpc EXCEPT ![c] = pc]
    /\ ctask' = [ctask EXCEPT ![c] = t]
    /\ crow' = [crow EXCEPT ![c] = row]

Return(c) == Call(c, "idle", None, None)

-----------------------------------------------------------------------------
(* The operations callers use *)

\* ScheduleTask: the row is written without the mutex; wakeScheduler follows.
ScheduleTask(c, t, at, p) ==
    /\ Up /\ cpc[c] = "idle" /\ t \notin used
    /\ db' = [db EXCEPT ![t] = [runAt |-> Format(at), payload |-> p]]
    /\ used' = used \cup {t}
    /\ askedAt' = [askedAt EXCEPT ![t] = at]
    /\ askedFor' = [askedFor EXCEPT ![t] = p]
    /\ Call(c, "wakeAdded", t, None)
    /\ UNCHANGED <<now, mu, notify, loopVars, started, fired, gone>>

\* Variant: the Get runs without waiting for schedDBMu.
UpdateGetUnlocked(c, t) ==
    /\ Up /\ cpc[c] = "idle" /\ db[t] # None
    /\ mu' = c
    /\ Call(c, "update", t, db[t])
    /\ UNCHANGED <<now, db, notify, loopVars, histVars>>

\* UpdateScheduledTaskPayload, up to its Get.  A missing row returns false
\* and changes nothing.
UpdateGet(c, t) ==
    /\ Up /\ cpc[c] = "idle" /\ mu = "free" /\ db[t] # None
    /\ mu' = c
    /\ Call(c, "update", t, db[t])
    /\ UNCHANGED <<now, db, notify, loopVars, histVars>>

\* ... its Set, and return true.
UpdateSet(c, p) ==
    /\ cpc[c] = "update"
    /\ db' = [db EXCEPT ![ctask[c]] = [crow[c] EXCEPT !.payload = p]]
    /\ mu' = "free"
    /\ askedFor' = [askedFor EXCEPT ![ctask[c]] = p]
    /\ Return(c)
    /\ UNCHANGED <<now, notify, loopVars, used, started, fired, askedAt, gone>>

\* Variant: the Get runs without waiting for schedDBMu.
RescheduleGetUnlocked(c, t) ==
    /\ Up /\ cpc[c] = "idle" /\ db[t] # None
    /\ mu' = c
    /\ Call(c, "reschedule", t, db[t])
    /\ UNCHANGED <<now, db, notify, loopVars, histVars>>

\* RescheduleTaskAt, up to its Get.  A missing row returns false.
RescheduleGet(c, t) ==
    /\ Up /\ cpc[c] = "idle" /\ mu = "free" /\ db[t] # None
    /\ mu' = c
    /\ Call(c, "reschedule", t, db[t])
    /\ UNCHANGED <<now, db, notify, loopVars, histVars>>

\* Variant: the task is moved but the loop is not woken.
RescheduleSetNoWake(c, at) ==
    /\ cpc[c] = "reschedule"
    /\ db' = [db EXCEPT ![ctask[c]] = [crow[c] EXCEPT !.runAt = Format(at)]]
    /\ askedAt' = [askedAt EXCEPT ![ctask[c]] = at]
    /\ mu' = "free" /\ Return(c)
    /\ UNCHANGED <<now, notify, loopVars, used, started, fired, askedFor, gone>>

\* ... its Set.  The mutex stays held until wakeScheduler has run.
RescheduleSet(c, at) ==
    /\ cpc[c] = "reschedule"
    /\ db' = [db EXCEPT ![ctask[c]] = [crow[c] EXCEPT !.runAt = Format(at)]]
    /\ askedAt' = [askedAt EXCEPT ![ctask[c]] = at]
    /\ Call(c, "wakeMoved", ctask[c], None)
    /\ UNCHANGED <<now, mu, notify, loopVars, used, started, fired, askedFor, gone>>

\* UnscheduleTask: the row is removed without the mutex; wakeScheduler follows.
\* Callers know the ids ScheduleTask or ListScheduledTasks gave them.
UnscheduleTask(c, t) ==
    /\ Up /\ cpc[c] = "idle" /\ t \in used
    /\ db' = [db EXCEPT ![t] = None]
    /\ Call(c, "wakeRemoved", t, None)
    /\ UNCHANGED <<now, mu, notify, loopVars, histVars>>

\* Variant: the send on schedNotify is dropped even when there is room.
WakeSchedulerNoToken(c) ==
    /\ cpc[c] \in {"wakeAdded", "wakeMoved", "wakeRemoved"}
    /\ mu' = IF cpc[c] = "wakeMoved" THEN "free" ELSE mu
    /\ gone' = IF cpc[c] = "wakeRemoved" THEN gone \cup {ctask[c]} ELSE gone
    /\ Return(c)
    /\ UNCHANGED <<now, db, notify, loopVars, used, started, fired, askedAt, askedFor>>

\* wakeScheduler: a send that does not block when the token is already there;
\* then the operation returns, RescheduleTaskAt releasing the mutex.
WakeScheduler(c) ==
    /\ cpc[c] \in {"wakeAdded", "wakeMoved", "wakeRemoved"}
    /\ notify' = TRUE
    /\ mu' = IF cpc[c] = "wakeMoved" THEN "free" ELSE mu
    /\ gone' = IF cpc[c] = "wakeRemoved" THEN gone \cup {ctask[c]} ELSE gone
    /\ Return(c)
    /\ UNCHANGED <<now, db, loopVars, used, started, fired, askedAt, askedFor>>

-----------------------------------------------------------------------------
(* StartGlobalScheduler and the loop goroutine *)

\* PreInitScheduler: schedDB is set, so apps may already schedule.
PreInitScheduler ==
    /\ lpc = "down" /\ lpc' = "preinit"
    /\ UNCHANGED <<now, db, mu, notify, ctxDone, boot, scan, toFire, earliest,
                   timer, callVars, histVars>>

\* StartGlobalScheduler goes straight to fireDueTasks for what came due while
\* the server was offline.
StartGlobalScheduler ==
    /\ lpc = "preinit" /\ lpc' = "fireLock"
    /\ UNCHANGED <<now, db, mu, notify, ctxDone, boot, scan, toFire, earliest,
                   timer, callVars, histVars>>

\* fireDueTasks takes the mutex and the key snapshot.
FireLock ==
    /\ lpc = "fireLock" /\ mu = "free"
    /\ lpc' = "fireScan" /\ mu' = "loop" /\ scan' = Keys
    /\ UNCHANGED <<now, db, notify, ctxDone, boot, toFire, earliest, timer,
                   callVars, histVars>>

\* Variant: the due row is launched but stays in the table.
FireVisitKeepsRow(t) ==
    /\ lpc = "fireScan" /\ t \in scan
    /\ scan' = scan \ {t}
    /\ toFire' = IF db[t] # None /\ Due(db[t])
                   THEN [toFire EXCEPT ![t] = db[t]] ELSE toFire
    /\ UNCHANGED <<now, db, mu, notify, ctxDone, lpc, boot, earliest, timer,
                   callVars, histVars>>

\* One key of fireDueTasks: a row that is still there and due is removed and
\* kept for launching.
FireVisit(t) ==
    /\ lpc = "fireScan" /\ t \in scan
    /\ scan' = scan \ {t}
    /\ IF db[t] # None /\ Due(db[t])
          THEN /\ db' = [db EXCEPT ![t] = None]
               /\ toFire' = [toFire EXCEPT ![t] = db[t]]
          ELSE UNCHANGED <<db, toFire>>
    /\ UNCHANGED <<now, mu, notify, ctxDone, lpc, boot, earliest, timer,
                   callVars, histVars>>

FireUnlock ==
    /\ lpc = "fireScan" /\ scan = {}
    /\ lpc' = "launch" /\ mu' = "free"
    /\ UNCHANGED <<now, db, notify, ctxDone, boot, scan, toFire, earliest,
                   timer, callVars, histVars>>

\* One dequeued row outside the mutex: its handler goroutine is launched, or
\* the row is dropped when its kind has no handler.  The goroutine recovers a
\* panic, so nothing it does reaches the loop.
Launch(t) ==
    /\ lpc = "launch" /\ toFire[t] # None
    /\ toFire' = [toFire EXCEPT ![t] = None]
    /\ IF t \in HandledTask
          THEN /\ started' = [started EXCEPT ![t] = @ + 1]
               /\ fired' = [fired EXCEPT ![t] =
                              [at |-> now, payload |-> toFire[t].payload]]
          ELSE UNCHANGED <<started, fired>>
    /\ UNCHANGED <<now, db, mu, notify, ctxDone, lpc, boot, scan, earliest,
                   timer, callVars, used, askedAt, askedFor, gone>>

LaunchDone ==
    /\ lpc = "launch" /\ \A t \in Task : toFire[t] = None
    /\ lpc' = "sleepLock"
    /\ UNCHANGED <<now, db, mu, notify, ctxDone, boot, scan, toFire, earliest,
                   timer, callVars, histVars>>

\* nextSleepDuration takes its key snapshot: under the mutex in the loop, but
\* without it for the first timer, in time.NewTimer(nextSleepDuration(db)).
SleepLock ==
    /\ lpc = "sleepLock"
    /\ IF boot THEN mu' = mu ELSE mu = "free" /\ mu' = "loop"
    /\ lpc' = "sleepScan" /\ scan' = Keys /\ earliest' = -1
    /\ UNCHANGED <<now, db, notify, ctxDone, boot, toFire, timer, callVars,
                   histVars>>

SleepVisit(t) ==
    /\ lpc = "sleepScan" /\ t \in scan
    /\ scan' = scan \ {t}
    /\ earliest' = IF /\ db[t] # None
                      /\ earliest = -1 \/ db[t].runAt < earliest
                     THEN db[t].runAt ELSE earliest
    /\ UNCHANGED <<now, db, mu, notify, ctxDone, lpc, boot, toFire, timer,
                   callVars, histVars>>

\* Variant: the empty table and the past are not told apart from a real time.
TimerResetUnclamped ==
    /\ lpc = "sleepScan" /\ scan = {}
    /\ timer' = earliest
    /\ mu' = IF boot THEN mu ELSE "free"
    /\ boot' = FALSE /\ lpc' = "select" /\ earliest' = -1
    /\ UNCHANGED <<now, db, notify, ctxDone, scan, toFire, callVars, histVars>>

\* The timer is set to the duration found (zero when that time has passed).
TimerReset ==
    /\ lpc = "sleepScan" /\ scan = {}
    /\ timer' = IF earliest = -1 THEN now + IdleSleep
                ELSE IF earliest < now THEN now ELSE earliest
    /\ mu' = IF boot THEN mu ELSE "free"
    /\ boot' = FALSE /\ lpc' = "select" /\ earliest' = -1
    /\ UNCHANGED <<now, db, notify, ctxDone, scan, toFire, callVars, histVars>>

\* The three branches of the loop's select.
SelectNotify ==
    /\ lpc = "select" /\ notify
    /\ notify' = FALSE /\ lpc' = "sleepLock"
    /\ UNCHANGED <<now, db, mu, ctxDone, boot, scan, toFire, earliest, timer,
                   callVars, histVars>>

SelectTimer ==
    /\ lpc = "select" /\ timer <= now
    /\ lpc' = "fireLock"
    /\ UNCHANGED <<now, db, mu, notify, ctxDone, boot, scan, toFire, earliest,
                   timer, callVars, histVars>>

SelectDone ==
    /\ lpc = "select" /\ ctxDone
    /\ lpc' = "done"
    /\ UNCHANGED <<now, db, mu, notify, ctxDone, boot, scan, toFire, earliest,
                   timer, callVars, histVars>>

-----------------------------------------------------------------------------
(* Environment *)

Tick ==
    /\ now < MaxTime /\ now' = now + 1
    /\ UNCHANGED <<db, mu, notify, loopVars, callVars, histVars>>

Cancel ==
    /\ Up /\ ~ctxDone /\ ctxDone' = TRUE
    /\ UNCHANGED <<now, db, mu, notify, lpc, boot, scan, toFire, earliest,
                   timer, callVars, histVars>>

\* The process dies: only the table (and the history) is left.
Crash ==
    /\ Up
    /\ mu' = "free" /\ notify' = FALSE /\ ctxDone' = FALSE
    /\ lpc' = "down" /\ boot' = TRUE /\ scan' = {}
    /\ toFire' = [t \in Task |-> None]
    /\ earliest' = -1 /\ timer' = 0
    /\ cpc' = [c \in Client |-> "idle"]
    /\ ctask' = [c \in Client |-> None]
    /\ crow' = [c \in Client |-> None]
    /\ UNCHANGED <<now, db, histVars>>

-----------------------------------------------------------------------------
CallerBegin(c) ==
    \/ \E t \in Task, at \in Time, p \in Payload : ScheduleTask(c, t, at, p)
    \/ \E t \in Task : UpdateGet(c, t) \/ RescheduleGet(c, t) \/ UnscheduleTask(c, t)

CallerFinish(c) ==
    \/ \E p \in Payload : UpdateSet(c, p)
    \/ \E at \in Time : RescheduleSet(c, at)
    \/ WakeScheduler(c)

LoopStep ==
    \/ FireLock \/ (\E t \in Task : FireVisit(t)) \/ FireUnlock
    \/ (\E t \in Task : Launch(t)) \/ LaunchDone
    \/ SleepLock \/ (\E t \in Task : SleepVisit(t)) \/ TimerReset
    \/ SelectNotify \/ SelectTimer \/ SelectDone

Next ==
    \/ \E c \in Client : CallerBegin(c) \/ CallerFinish(c)
    \/ LoopStep
    \/ PreInitScheduler \/ StartGlobalScheduler
    \/ Tick \/ Cancel \/ Crash

Spec == Init /\ [][Next]_vars

(* Fairness.  The loop goroutine is scheduled, a caller that began an       *)
(* operation finishes it, the clock runs.  The mutex is acquired eventually *)
(* by a goroutine that keeps asking (sync.Mutex hands over to a waiter      *)
(* after 1ms), and a select with several ready channels picks at random, so *)
(* those steps are strongly fair.  Nothing makes a process start again.     *)
Fairness ==
    /\ WF_vars(LoopStep)
    /\ WF_vars(Tick)
    /\ \A c \in Client : WF_vars(CallerFinish(c))
    /\ SF_vars(FireLock) /\ SF_vars(SleepLock) /\ SF_vars(SelectTimer)

FairSpec == Spec /\ Fairness

-----------------------------------------------------------------------------
(* Properties *)

\* A goroutine is between its write and its wakeScheduler call.
WakePending == \E c \in Client : cpc[c] \in {"wakeAdded", "wakeMoved", "wakeRemoved"}

\* The loop will take a fresh key snapshot before it sleeps again.
WillRescan == lpc \in {"down", "preinit", "fireLock", "fireScan", "launch",
                       "sleepLock", "done"}

\* No lost wake-up: whenever the loop sleeps in its select, every queued task
\* is due no earlier than the timer's deadline, unless the timer has already
\* expired, a token is waiting in schedNotify, or a caller is about to send
\* one.  The unlocked writes of ScheduleTask and UnscheduleTask, and the
\* unlocked scan before the first select, may not leave a task stranded
\* behind a sleep of up to 24h.
NoLostWakeup ==
    lpc = "select" =>
        \A t \in Keys : \/ timer <= db[t].runAt \/ timer <= now
                        \/ notify \/ WakePending

\* No double fire: "removing each before calling its handler so a slow or
\* panicking handler can't cause a double-fire".  Whatever interleaves and
\* however often the process restarts, one id launches at most one handler,
\* and an id that launched is never again in the table.
AtMostOnce ==
    \A t \in Task : /\ started[t] <= 1
                    /\ started[t] = 1 => db[t] = None /\ toFire[t] = None

\* A handler runs with the payload of the last UpdateScheduledTaskPayload that
\* returned true, and less than a second before the time last asked for at
\* the earliest (the formatted time drops the fraction).
FiredAsAsked ==
    \A t \in Task : fired[t] # None =>
        /\ fired[t].payload = askedFor[t]
        /\ fired[t].at + Resolution > askedAt[t]

\* A queued task is handed to its handler, unless it was unscheduled, has no
\* handler, or the process stops first.
QueuedFires ==
    \A t \in Task :
        t \in Keys /\ t \in HandledTask
            ~> \/ started[t] = 1 \/ t \in gone
               \/ lpc \in {"down", "preinit"} \/ ctxDone

-----------------------------------------------------------------------------
(* What callers are promised *)

\* What became of a task, seen from outside: a dequeued row is still queued
\* until its handler is launched, or the process dies.
JobState(t) ==
    IF started[t] # 0 THEN "ran"
    ELSE IF t \notin used THEN "new"
    ELSE IF db[t] # None \/ toFire[t] # None THEN "queued" ELSE "dropped"

Jobs == INSTANCE DeferredJobs
            WITH Job <- Task, state <- [t \in Task |-> JobState(t)],
                 payload <- askedFor, due <- askedAt, ran <- fired

\* The table, the mutex, the token and the loop implement DeferredJobs: no
\* interleaving of the unlocked writes with the locked ones, and no crash,
\* makes a job run twice, come back after it ran, or run with a payload or at
\* a time that the last granted change replaced.
ImplementsDeferredJobs == Jobs!Spec
=============================================================================
