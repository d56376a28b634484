-------------------------- MODULE StandingSchedule --------------------------
(***************************************************************************)
(* One standing agent's schedule: the record of core/standing_agent.go,    *)
(* the self-rescheduling chain of "standing.run" tasks that keeps it       *)
(* firing, the reconciler that revives a chain that died, the runner's     *)
(* writes after a fire (apps/orchestrate/standing_runner.go), and the      *)
(* owner's requests (operator_standing_tools.go, console_agents.go).       *)
(*                                                                         *)
(* The record is one row of a key-value store.  Nothing locks it: every    *)
(* operation reads the whole row, changes its copy and writes the whole    *)
(* copy back.  Each Get, Set, Unset, ScheduleTask and UnscheduleTask is a  *)
(* step of its own, so that two operations interleave at every one of      *)
(* them.  Exclusive says whether that is allowed to happen: when it is     *)
(* TRUE an operation's read-to-write window never overlaps another's.      *)
(*                                                                         *)
(* Time is relative: a stored time is the number of units still to go, and *)
(* Tick brings all of them nearer.  No bound on the clock is needed, so    *)
(* liveness is checked on infinite behaviours.  Task ids are likewise      *)
(* reused once nothing refers to them.                                     *)
(*                                                                         *)
(* The schedule belongs to no link group (LinkGroup = ""), and its timing  *)
(* is valid: create and edit refuse one that is not.                       *)
(***************************************************************************)
EXTENDS Integers, FiniteSets

CONSTANTS
    Task,       \* task ids of the global scheduler
    Owner,      \* requests of the owner being served
    None,       \* no row, no id, the zero time
    Gap,        \* distances to the next occurrence the timing may draw
    Grace,      \* standingRearmGrace
    MaxRuns,    \* Timing.MaxRuns, 0 for no limit
    HasStopAt,  \* the timing has a StopAt date
    Objective,  \* the schedule has an Until goal
    Fallible,   \* runs may fail, targets may go away
    Backoff,    \* distance noteStandingFailure moves the next attempt to
    RunTime,    \* longest a fire takes, in units of time
    Ops,        \* requests the owner makes
    Exclusive,  \* read-to-write windows do not overlap
    MaxOps,     \* bound on the owner's requests
    MaxCrash,   \* bound on process deaths
    RunCap      \* the counters stop here

Kind == {"create", "pause", "resume", "delete", "edit", "runnow", "break"}

ASSUME StandingAssumption ==
    /\ Gap # {} /\ Gap \subseteq Nat \ {0} /\ \E g \in Gap : \A h \in Gap : h <= g
    /\ {Grace, MaxRuns, MaxOps, MaxCrash, RunCap} \subseteq Nat
    /\ {Backoff, RunTime} \subseteq Nat \ {0}
    /\ {HasStopAt, Objective, Fallible, Exclusive} \subseteq BOOLEAN
    /\ Ops \subseteq Kind \cup {"recreate"}
    /\ Task \cap Owner = {} /\ "rearm" \notin Task \cup Owner /\ None \notin Task
    /\ MaxRuns < RunCap

Thread == Task \cup Owner \cup {"rearm"}   \* a task's handler is named by it

VARIABLES
    rec,      \* the row of standingAgentsTable, or None
    tasks,    \* the scheduler's rows for this schedule, id -> row or None
    pc,       \* where every thread is
    cur,      \* the copy of the record a thread is about to write
    sa,       \* the copy a handler read first and handed to the runner
    trig,     \* the trigger in the payload a handler was started with
    ran,      \* for how long a handler has been executing
    live,     \* the reconciler's list of tasks was not empty
    op,       \* the request an owner thread serves
    ops,      \* requests made so far
    crashes,  \* process deaths so far
    \* Auxiliary history, in no guard.
    word,     \* what the owner's last finished request asked for
    started   \* scheduled runs started in the current allowance

vars == <<rec, tasks, pc, cur, sa, trig, ran, live, op, ops, crashes, word,
          started>>

Rel(far) == {None} \cup (-(Grace + 1))..far
Far      == Backoff + CHOOSE g \in Gap : \A h \in Gap : h <= g
Record   == [sid : Task \cup {None}, next : Rel(Far), ask : Rel(Far),
             paused : BOOLEAN, broken : BOOLEAN,
             stop : {"none", "owner", "met", "ended"}, runs : 0..RunCap]
TaskRow  == [at : 0..Far, trig : {"schedule", "manual"}]

ASSUME NoneAssumption == None \notin Record \cup TaskRow

Fresh == [sid |-> None, next |-> None, ask |-> None, paused |-> FALSE,
          broken |-> FALSE, stop |-> "none", runs |-> 0]

\* A thread in one of these has read the record and not yet written it back.
Window == {"count", "failSave", "judgeSave", "parkUnsched", "parkSave",
           "pauseUnsched", "pauseSave", "resumeSave", "editSave", "deleteUnsched",
           "unset", "createSave", "unsched", "arm", "save"}
Calm   == {"idle", "get", "run", "failGet", "judgeGet", "parkGet", "rearm",
           "serve", "read"}

TypeOK ==
    /\ rec \in Record \cup {None}
    /\ tasks \in [Task -> TaskRow \cup {None}]
    /\ pc \in [Thread -> Window \cup Calm]
    /\ cur \in [Thread -> Record \cup {None}]
    /\ sa \in [Task -> Record \cup {None}]
    /\ trig \in [Task -> {"schedule", "manual"}]
    /\ ran \in [Task -> 0..RunTime]
    /\ live \in BOOLEAN
    /\ op \in [Owner -> Kind \cup {"recreate"}]
    /\ ops \in 0..MaxOps /\ crashes \in 0..MaxCrash
    /\ word \in {"run", "stop", "gone"}
    /\ started \in 0..RunCap

Init ==
    /\ rec = None
    /\ tasks = [t \in Task |-> None]
    /\ pc = [p \in Thread |-> "idle"]
    /\ cur = [p \in Thread |-> None]
    /\ sa = [t \in Task |-> None]
    /\ trig = [t \in Task |-> "schedule"]
    /\ ran = [t \in Task |-> 0]
    /\ live = FALSE
    /\ op = [o \in Owner |-> "create"]
    /\ ops = 0 /\ crashes = 0
    /\ word = "gone" /\ started = 0

-----------------------------------------------------------------------------
(* Reading, writing, arming *)

AtMost(n, m) == IF n < m THEN n ELSE m
Unless(x, y) == IF x = None THEN None ELSE y

\* Everything stored that is a time comes one unit nearer.
Older(x) == Unless(x, IF x > -(Grace + 1) THEN x - 1 ELSE x)
Aged(r)  == Unless(r, [r EXCEPT !.next = Older(@), !.ask = Older(@)])
Sooner(row) == Unless(row, [row EXCEPT !.at = IF @ > 0 THEN @ - 1 ELSE 0])

\* There is a record and it is not paused.
Active == rec # None /\ ~rec.paused

\* Ids nothing refers to; ScheduleTask draws a UUID that was never used.
Unused == {t \in Task :
    /\ tasks[t] = None /\ pc[t] = "idle"
    /\ rec # None => rec.sid # t
    /\ \A p \in Thread : cur[p] # None => cur[p].sid # t
    /\ \A u \in Task : sa[u] # None => sa[u].sid # t}
NewId == CHOOSE t \in Unused : TRUE   \* which one makes no difference

\* A thread may open a window on the record.
MayEnter(p) == Exclusive => \A q \in Thread \ {p} : pc[q] \notin Window

\* Thread p moves to pc q with copy r; it forgets the copies it no longer
\* reads (a handler's first one is last read when its run is judged).
GoTo(p, q, r) ==
    /\ pc' = [pc EXCEPT ![p] = q]
    /\ cur' = [cur EXCEPT ![p] = IF q = "idle" THEN None ELSE r]
    /\ sa' = IF p \in Task /\ q # "judgeGet" THEN [sa EXCEPT ![p] = None] ELSE sa

\* Where a handler goes when its body ends: only a scheduled fire re-arms.
Deferred(t) == IF trig[t] = "schedule" THEN "rearm" ELSE "idle"

\* What the operations make of a record: a run is counted, an attempt asks to
\* be made later or meets the goal, the schedule ends by itself, is parked,
\* paused, forgets its task, and is resumed.
Counted(r)  == [r EXCEPT !.runs = AtMost(@ + 1, RunCap)]
Delayed(r)  == [r EXCEPT !.ask = Backoff]
Met(r)      == [r EXCEPT !.paused = TRUE, !.stop = "met"]
Ended(r)    == [r EXCEPT !.paused = TRUE, !.stop = "ended", !.sid = None, !.next = None]
Parked(r)   == [r EXCEPT !.sid = None, !.broken = TRUE, !.paused = TRUE, !.next = None]
Paused(r)   == [r EXCEPT !.paused = TRUE, !.stop = "owner"]
Released(r) == [r EXCEPT !.sid = None, !.next = None]
Resumed(r, broken) ==
    [r EXCEPT !.paused = FALSE, !.broken = broken, !.stop = "none",
              !.runs = IF r.stop = "ended" THEN 0 ELSE @]

\* UnscheduleTask(sa.SchedulerID), when there is one.
Unscheduled(r) == IF r.sid = None THEN tasks ELSE [tasks EXCEPT ![r.sid] = None]

\* Variant: Cancel-and-replace forgets to cancel.
UnschedForgets(p) ==
    /\ pc[p] = "unsched"
    /\ GoTo(p, "arm", cur[p])
    /\ UNCHANGED <<rec, tasks, trig, ran, live, op, ops, crashes, word, started>>

\* ScheduleStandingAgent: cancel ...
Unsched(p) ==
    /\ pc[p] = "unsched"
    /\ tasks' = Unscheduled(cur[p])
    /\ GoTo(p, "arm", cur[p])
    /\ UNCHANGED <<rec, trig, ran, live, op, ops, crashes, word, started>>

\* ScheduleTask.
Queued(t, n, why) == [tasks EXCEPT ![t] = [at |-> n, trig |-> why]]

\* When the next occurrence is: an attempt's own ask overrides the timing.
NextRun(r, gap) == IF r.ask # None /\ r.ask > 0 THEN r.ask ELSE gap

\* The record that names its task; the ask is consumed.
Armed(r, t, n) == [r EXCEPT !.sid = t, !.next = n, !.ask = None]

\* ... its two stops, or the next occurrence ...
Arm(p) ==
    LET done == MaxRuns > 0 /\ cur[p].runs >= MaxRuns
    IN  /\ pc[p] = "arm"
        /\ \/ /\ done \/ HasStopAt
              /\ GoTo(p, "save", Ended(cur[p]))
              /\ UNCHANGED tasks
           \/ /\ ~done
              /\ Unused # {}
              /\ \E gap \in Gap :
                    LET n == NextRun(cur[p], gap)
                    IN  /\ tasks' = Queued(NewId, n, "schedule")
                        /\ GoTo(p, "save", Armed(cur[p], NewId, n))
        /\ UNCHANGED <<rec, trig, ran, live, op, ops, crashes, word, started>>

\* ... and save.  For an owner's request this is its last step.
Save(p) ==
    /\ pc[p] = "save"
    /\ rec' = cur[p]
    /\ GoTo(p, "idle", None)
    /\ word' = IF p \in Owner /\ op[p] # "edit" THEN "run" ELSE word
    /\ UNCHANGED <<tasks, trig, ran, live, op, ops, crashes, started>>

\* parkStandingAgent: read, cancel, save it broken and paused.
ParkGet(p) ==
    /\ pc[p] = "parkGet" /\ MayEnter(p)
    /\ IF rec = None
       THEN GoTo(p, IF p \in Task THEN Deferred(p) ELSE "idle", None)
       ELSE GoTo(p, "parkUnsched", rec)
    /\ UNCHANGED <<rec, tasks, trig, ran, live, op, ops, crashes, word, started>>

ParkUnsched(p) ==
    /\ pc[p] = "parkUnsched"
    /\ tasks' = Unscheduled(cur[p])
    /\ GoTo(p, "parkSave", Parked(cur[p]))
    /\ UNCHANGED <<rec, trig, ran, live, op, ops, crashes, word, started>>

ParkSave(p) ==
    /\ pc[p] = "parkSave"
    /\ rec' = cur[p]
    /\ GoTo(p, IF p \in Task THEN Deferred(p) ELSE "idle", None)
    /\ UNCHANGED <<tasks, trig, ran, live, op, ops, crashes, word, started>>

-----------------------------------------------------------------------------
(* The "standing.run" handler *)

\* The scheduler dequeues a due row and launches its handler.
Fire(t) ==
    /\ pc[t] = "idle" /\ tasks[t] # None /\ tasks[t].at = 0
    /\ tasks' = [tasks EXCEPT ![t] = None]
    /\ trig' = [trig EXCEPT ![t] = tasks[t].trig]
    /\ ran' = [ran EXCEPT ![t] = 0]
    /\ GoTo(t, "get", None)
    /\ UNCHANGED <<rec, live, op, ops, crashes, word, started>>

\* Its first read: missing or paused ends it, a lost target parks the
\* schedule, a manual fire runs at once, a scheduled one is counted first.
HandlerGet(t) ==
    /\ pc[t] = "get" /\ MayEnter(t)
    /\ \/ ~Active /\ GoTo(t, Deferred(t), None)
       \/ Active /\ Fallible /\ GoTo(t, "parkGet", None)
       \/ /\ Active /\ trig[t] = "manual"
          /\ pc' = [pc EXCEPT ![t] = "run"]
          /\ sa' = [sa EXCEPT ![t] = rec]
          /\ UNCHANGED cur
       \/ /\ Active /\ trig[t] = "schedule"
          /\ pc' = [pc EXCEPT ![t] = "count"]
          /\ sa' = [sa EXCEPT ![t] = Counted(rec)]
          /\ UNCHANGED cur
    /\ UNCHANGED <<rec, tasks, trig, ran, live, op, ops, crashes, word, started>>

\* Variant: The count is taken on the copy and never saved.
HandlerCountUnsaved(t) ==
    /\ pc[t] = "count"
    /\ pc' = [pc EXCEPT ![t] = "run"]
    /\ started' = AtMost(started + 1, RunCap)
    /\ UNCHANGED <<rec, tasks, cur, sa, trig, ran, live, op, ops, crashes, word>>

\* sa.Runs++ is saved; the run starts.
HandlerCount(t) ==
    /\ pc[t] = "count"
    /\ rec' = sa[t]
    /\ pc' = [pc EXCEPT ![t] = "run"]
    /\ started' = AtMost(started + 1, RunCap)
    /\ UNCHANGED <<tasks, cur, sa, trig, ran, live, op, ops, crashes, word>>

\* The run ends: it worked, it panicked and the deferred call recovers, it
\* failed, or there is a goal to judge it by.
RunEnds(t) ==
    /\ pc[t] = "run"
    /\ \/ GoTo(t, Deferred(t), None)
       \/ Fallible /\ GoTo(t, "failGet", None)
       \/ Objective /\ GoTo(t, "judgeGet", None)
    /\ UNCHANGED <<rec, tasks, trig, ran, live, op, ops, crashes, word, started>>

\* A failed run re-reads the record and moves its next attempt, unless an
\* ask (even one already past) is in that field.
FailGet(t) ==
    /\ pc[t] = "failGet" /\ MayEnter(t)
    /\ IF rec = None THEN GoTo(t, Deferred(t), None)
       ELSE GoTo(t, "failSave", IF rec.ask = None THEN Delayed(rec) ELSE rec)
    /\ UNCHANGED <<rec, tasks, trig, ran, live, op, ops, crashes, word, started>>

FailSave(t) ==
    /\ pc[t] = "failSave"
    /\ rec' = cur[t]
    /\ GoTo(t, Deferred(t), None)
    /\ UNCHANGED <<tasks, trig, ran, live, op, ops, crashes, word, started>>

\* A judged run re-reads it too, and falls back to the copy the run started
\* with.  The goal is met, or it is not and the run may ask for a later try.
JudgeGet(t) ==
    /\ pc[t] = "judgeGet" /\ MayEnter(t)
    /\ LET c == IF rec = None THEN sa[t] ELSE rec
       IN  \E r \in {Met(c), c, Delayed(c)} : GoTo(t, "judgeSave", r)
    /\ UNCHANGED <<rec, tasks, trig, ran, live, op, ops, crashes, word, started>>

\* Saved; an attempt that was the last one then parks the schedule.
JudgeSave(t) ==
    /\ pc[t] = "judgeSave"
    /\ rec' = cur[t]
    /\ \/ GoTo(t, Deferred(t), None)
       \/ cur[t].stop # "met" /\ GoTo(t, "parkGet", None)
    /\ UNCHANGED <<tasks, trig, ran, live, op, ops, crashes, word, started>>

\* Variant: The deferred call re-arms without looking at Paused again.
RearmBlindly(t) ==
    /\ pc[t] = "rearm" /\ MayEnter(t)
    /\ IF rec # None
       THEN GoTo(t, "unsched", [rec EXCEPT !.paused = FALSE])
       ELSE GoTo(t, "idle", None)
    /\ UNCHANGED <<rec, tasks, trig, ran, live, op, ops, crashes, word, started>>

\* The deferred re-arm: whatever the fire did, re-read and chain the next.
Rearm(t) ==
    /\ pc[t] = "rearm" /\ MayEnter(t)
    /\ IF Active THEN GoTo(t, "unsched", rec) ELSE GoTo(t, "idle", None)
    /\ UNCHANGED <<rec, tasks, trig, ran, live, op, ops, crashes, word, started>>

-----------------------------------------------------------------------------
(* RearmStrandedStandingAgents, once after start and every 30 minutes *)

\* A manual task counts as live too.
ListTasks ==
    /\ pc["rearm"] = "idle"
    /\ live' = \E t \in Task : tasks[t] # None
    /\ GoTo("rearm", "read", None)
    /\ UNCHANGED <<rec, tasks, trig, ran, op, ops, crashes, word, started>>

\* Variant: The reconciler revives only what was never scheduled.
StrandedNever(r) == ~live /\ r.next = None

Stranded(r) == ~live /\ (r.next = None \/ r.next < -Grace)

Reconcile ==
    /\ pc["rearm"] = "read" /\ MayEnter("rearm")
    /\ IF Active /\ Stranded(rec)
       THEN GoTo("rearm", "unsched", rec) ELSE GoTo("rearm", "idle", None)
    /\ live' = FALSE
    /\ UNCHANGED <<rec, tasks, trig, ran, op, ops, crashes, word, started>>

-----------------------------------------------------------------------------
(* The owner's requests *)

\* A request reads the record (create does not) and acts on what it finds.
Request(o, k) ==
    /\ pc[o] = "idle" /\ k \in Ops /\ ops < MaxOps
    /\ ops' = ops + 1
    /\ op' = [op EXCEPT ![o] = k]
    /\ GoTo(o, "serve", None)
    /\ UNCHANGED <<rec, tasks, trig, ran, live, crashes, word, started>>

\* create_standing_agent writes a new record under its name; "create" is a
\* name that is free, "recreate" one that is taken: the tool does not look.
CreateGet(o) ==
    /\ op[o] \in {"create", "recreate"}
    /\ op[o] = "create" => rec = None
    /\ GoTo(o, "createSave", Fresh)

CreateSave(o) ==
    /\ pc[o] = "createSave"
    /\ rec' = cur[o]
    /\ started' = 0
    /\ GoTo(o, "unsched", cur[o])
    /\ UNCHANGED <<tasks, trig, ran, live, op, ops, crashes, word>>

\* set_standing_paused and setConsoleAgentPaused, pausing.
PauseGet(o) ==
    /\ op[o] = "pause" /\ rec # None
    /\ GoTo(o, "pauseUnsched", Paused(rec))

PauseUnsched(o) ==
    /\ pc[o] = "pauseUnsched"
    /\ tasks' = Unscheduled(cur[o])
    /\ GoTo(o, "pauseSave", IF cur[o].sid = None THEN cur[o] ELSE Released(cur[o]))
    /\ UNCHANGED <<rec, trig, ran, live, op, ops, crashes, word, started>>

PauseSave(o) ==
    /\ pc[o] = "pauseSave"
    /\ rec' = cur[o]
    /\ word' = "stop"
    /\ GoTo(o, "idle", None)
    /\ UNCHANGED <<tasks, trig, ran, live, op, ops, crashes, started>>

\* The same two, resuming: one that ran its count gets a fresh one.  The
\* console clears a park once the target is back, the tool leaves it.
ResumeGet(o) ==
    /\ op[o] = "resume" /\ rec # None
    /\ \E broken \in {FALSE, rec.broken} : GoTo(o, "resumeSave", Resumed(rec, broken))

ResumeSave(o) ==
    /\ pc[o] = "resumeSave"
    /\ started' = IF rec # None /\ rec.stop = "ended" THEN 0 ELSE started
    /\ rec' = cur[o]
    /\ GoTo(o, "unsched", cur[o])
    /\ UNCHANGED <<tasks, trig, ran, live, op, ops, crashes, word>>

\* handleConsoleAgentUpdate: re-armed when its timing changed and it is not
\* paused, else only saved.
EditGet(o) ==
    /\ op[o] = "edit" /\ rec # None
    /\ \/ GoTo(o, "editSave", rec)
       \/ ~rec.paused /\ GoTo(o, "unsched", rec)

EditSave(o) ==
    /\ pc[o] = "editSave"
    /\ rec' = cur[o]
    /\ GoTo(o, "idle", None)
    /\ UNCHANGED <<tasks, trig, ran, live, op, ops, crashes, word, started>>

\* DeleteStandingAgent.
DeleteGet(o) == op[o] = "delete" /\ rec # None /\ GoTo(o, "deleteUnsched", rec)

DeleteUnsched(o) ==
    /\ pc[o] = "deleteUnsched"
    /\ tasks' = Unscheduled(cur[o])
    /\ GoTo(o, "unset", cur[o])
    /\ UNCHANGED <<rec, trig, ran, live, op, ops, crashes, word, started>>

DeleteUnset(o) ==
    /\ pc[o] = "unset"
    /\ rec' = None
    /\ word' = "gone"
    /\ GoTo(o, "idle", None)
    /\ UNCHANGED <<tasks, trig, ran, live, op, ops, crashes, started>>

\* The target agent is deleted: MarkStandingAgentBroken.
BreakGet(o) == op[o] = "break" /\ rec # None /\ GoTo(o, "parkUnsched", rec)

Serve(o) ==
    /\ pc[o] = "serve" /\ MayEnter(o)
    /\ \/ CreateGet(o) \/ PauseGet(o) \/ ResumeGet(o) \/ EditGet(o)
       \/ DeleteGet(o) \/ BreakGet(o)
       \/ /\ IF op[o] = "create" THEN rec # None
             ELSE op[o] \notin {"recreate", "runnow"} /\ rec = None
          /\ GoTo(o, "idle", None)
    /\ UNCHANGED <<rec, tasks, trig, ran, live, op, ops, crashes, word, started>>

\* RunStandingNow: a one-off task, due now, beside the chain.
RunStandingNow(o) ==
    /\ pc[o] = "serve" /\ op[o] = "runnow"
    /\ \/ rec = None /\ UNCHANGED tasks
       \/ /\ rec # None /\ Unused # {}
          /\ tasks' = Queued(NewId, 0, "manual")
    /\ GoTo(o, "idle", None)
    /\ UNCHANGED <<rec, trig, ran, live, op, ops, crashes, word, started>>

-----------------------------------------------------------------------------
(* The world *)

\* Time passes, except across the reconciler's listing (seconds at most) and
\* while a fire has used up the longest it takes.
Tick ==
    /\ pc["rearm"] # "read"
    /\ \A t \in Task : pc[t] # "idle" => ran[t] < RunTime
    /\ rec' = Aged(rec)
    /\ cur' = [p \in Thread |-> Aged(cur[p])]
    /\ sa' = [t \in Task |-> Aged(sa[t])]
    /\ tasks' = [t \in Task |-> Sooner(tasks[t])]
    /\ ran' = [t \in Task |-> IF pc[t] = "idle" THEN 0 ELSE ran[t] + 1]
    /\ UNCHANGED <<pc, trig, live, op, ops, crashes, word, started>>

\* The process dies and starts again; record and tasks are on disk.  A
\* request it was serving is not answered: nothing was promised.
Crash ==
    /\ crashes < MaxCrash
    /\ crashes' = crashes + 1
    /\ pc' = [p \in Thread |-> "idle"]
    /\ cur' = [p \in Thread |-> None]
    /\ sa' = [t \in Task |-> None]
    /\ ran' = [t \in Task |-> 0]
    /\ live' = FALSE
    /\ word' = IF \E o \in Owner : pc[o] # "idle" THEN "run" ELSE word
    /\ UNCHANGED <<rec, tasks, trig, op, ops, started>>

Handler(t) == HandlerGet(t) \/ HandlerCount(t) \/ RunEnds(t) \/ FailGet(t)
              \/ FailSave(t) \/ JudgeGet(t) \/ JudgeSave(t) \/ Rearm(t)
Shared(p)  == Unsched(p) \/ Arm(p) \/ Save(p) \/ ParkGet(p) \/ ParkUnsched(p)
              \/ ParkSave(p)
Served(o)  == Serve(o) \/ RunStandingNow(o) \/ CreateSave(o)
              \/ PauseUnsched(o) \/ PauseSave(o) \/ ResumeSave(o) \/ EditSave(o)
              \/ DeleteUnsched(o) \/ DeleteUnset(o)

Next ==
    \/ \E t \in Task : Fire(t) \/ Handler(t)
    \/ \E p \in Thread : Shared(p)
    \/ ListTasks \/ Reconcile
    \/ \E o \in Owner : Served(o) \/ \E k \in Ops : Request(o, k)
    \/ Tick \/ Crash

Spec == Init /\ [][Next]_vars

\* The scheduler fires what is due, goroutines run, runs end, the ticker's
\* goroutine comes round, and time passes (strongly: the reconciler's listing,
\* which Tick waits for, cannot hold the clock back).  The owner need ask for
\* nothing, and the process need not die.
Fairness ==
    /\ \A t \in Task : WF_vars(Fire(t)) /\ WF_vars(Handler(t))
    /\ \A p \in Thread : WF_vars(Shared(p))
    /\ \A o \in Owner : WF_vars(Served(o))
    /\ WF_vars(ListTasks) /\ WF_vars(Reconcile) /\ SF_vars(Tick)

FairSpec == Spec /\ Fairness

-----------------------------------------------------------------------------
(* Properties *)

Scheduled(t) == tasks[t] # None /\ tasks[t].trig = "schedule"
AtRest       == \A p \in Thread : pc[p] \notin Window

\* A schedule that was paused or deleted stays so until its owner resumes or
\* creates it again, whatever its runs, its handlers and the reconciler write
\* back: all of them re-read the record after a run of any length.
OwnerWordKept ==
    (\A o \in Owner : pc[o] = "idle") =>
        /\ word = "stop" => ~Active
        /\ word = "gone" => rec = None

\* Every arming cancels the task the record names, so a schedule that nobody
\* is re-arming has one next occurrence, not two chains firing side by side:
\* no task is queued but the one the record names, except for one per death of
\* the process between queueing a task and saving its id.
OneChain ==
    AtRest => Cardinality({t \in Task : Scheduled(t) /\ (rec # None => rec.sid # t)})
              <= crashes

\* Two scheduled runs of one schedule are never under way together: the
\* reconciler must not take a schedule that is mid-fire for a stranded one.
NoOverlap ==
    Cardinality({t \in Task : pc[t] = "run" /\ trig[t] = "schedule"}) <= 1

\* A timing with MaxRuns gets that many scheduled runs and no more, over
\* pauses, edits, crashes and revivals: Runs is counted before the run, and
\* every path that arms the next one reads it.
RunsWithinLimit == MaxRuns > 0 => started <= MaxRuns

\* An active schedule runs again, or stops being active: neither a death
\* between two steps nor any overlap of the unlocked read-modify-writes ends
\* the chain for good, because the reconciler rebuilds it from the record.
KeepsFiring ==
    Active ~> (~Active \/ \E t \in Task : pc[t] = "run" /\ trig[t] = "schedule")

=============================================================================
