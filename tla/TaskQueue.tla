------------------------------ MODULE TaskQueue ------------------------------
(***************************************************************************)
(* The shared queue of pipeline runs: the slot counter and FIFO of         *)
(* core/webapp_queue.go, the run lifecycle of core/pipeline.go that        *)
(* acquires and releases a slot, the persistent entries of core/pqueue.go  *)
(* that bring runs back after a restart, and the cancel half of            *)
(* core/live_session.go.                                                   *)
(*                                                                         *)
(* TaskQueue.mu makes each of its critical sections one step.  Release     *)
(* pops the head under the mutex and sends on its ready channel after it;  *)
(* the two are one step here, because until the send the popped waiter can *)
(* only do what it can do after it (its ctx.Done branch).  The channels    *)
(* ready (one per waiter) and notify (one for all) hold one token each.    *)
(* RunPipeline, RunPipelineAsync and RestorePipeline are the same          *)
(* lifecycle, entered at different points.                                 *)
(***************************************************************************)
EXTENDS Integers, FiniteSets, SequencesExt, FiniteSetsExt

CONSTANTS
    Run,                 \* run ids
    Ephemeral,           \* runs without a persistent entry
    Cancellable,         \* runs somebody may stop
    MaxConcurrentTasks,  \* slots
    MaxCrash             \* bound on process deaths

ASSUME TaskQueueAssumption ==
    /\ IsFiniteSet(Run)
    /\ Ephemeral \subseteq Run /\ Cancellable \subseteq Run
    /\ MaxConcurrentTasks \in Nat \ {0}
    /\ MaxCrash \in Nat

VARIABLES
    active,     \* TaskQueue.active
    queue,      \* TaskQueue.queue, head first
    notify,     \* TaskQueue.notify holds its token
    ready,      \* waiters whose ready channel holds its token
    up,         \* the process runs
    pc,         \* where each run's goroutine is
    cancelled,  \* runs whose context is cancelled
    position,   \* the position last reported to onQueue, 0 before any
    order,      \* persistent entry: its Order, 0 when there is none
    next,       \* the Order QueueAdd is about to write
    crashes,    \* process deaths so far
    \* Auxiliary history.
    ahead,      \* the runs that were waiting when a run asked for a slot
    outcome     \* how a run ended: "none" while it has not

vars == <<active, queue, notify, ready, up, pc, cancelled, position, order,
          next, crashes, ahead, outcome>>

Pc == {"idle", "registered", "adding", "acquire", "enqueued", "waiting",
       "leaving", "running", "finishing", "panicking", "removing",
       "dropping", "restoring", "ended"}
Outcome == {"none", "done", "panicked", "stopped", "gone"}

TypeOK ==
    /\ active \in Nat
    /\ queue \in Seq(Run)
    /\ notify \in BOOLEAN
    /\ ready \in SUBSET Run
    /\ up \in BOOLEAN
    /\ pc \in [Run -> Pc]
    /\ cancelled \in SUBSET Run
    /\ position \in [Run -> Nat]
    /\ order \in [Run -> Nat]
    /\ next \in [Run -> Nat]
    /\ crashes \in Nat
    /\ ahead \in [Run -> SUBSET Run]
    /\ outcome \in [Run -> Outcome]

Init ==
    /\ active = 0 /\ queue = <<>> /\ notify = FALSE /\ ready = {}
    /\ up = TRUE /\ cancelled = {} /\ crashes = 0
    /\ pc = [r \in Run |-> "idle"]
    /\ position = [r \in Run |-> 0]
    /\ order = [r \in Run |-> 0]
    /\ next = [r \in Run |-> 0]
    /\ ahead = [r \in Run |-> {}]
    /\ outcome = [r \in Run |-> "none"]

-----------------------------------------------------------------------------
\* The runs waiting in the queue.
Queued == ToSet(queue)

\* r's place in the queue, the first if there are several.
Index(r) == SelectInSeq(queue, LAMBDA w : w = r)

\* append(q.queue[:i], q.queue[i+1:]...), or the queue itself without r.
Without(r) == IF r \in Queued THEN RemoveAt(queue, Index(r)) ELSE queue

Goto(r, to) == pc' = [pc EXCEPT ![r] = to]

\* The largest Order in the persistent queue.
MaxOrder == Max({order[r] : r \in Run})

-----------------------------------------------------------------------------
(* The run lifecycle *)

\* RunPipelineAsync up to OnRegister: the session is live and cancellable.
RunPipelineAsync(r) ==
    /\ up /\ pc[r] = "idle"
    /\ Goto(r, IF r \in Ephemeral THEN "acquire" ELSE "registered")
    /\ UNCHANGED <<active, queue, notify, ready, up, cancelled, position,
                   order, next, crashes, ahead, outcome>>

\* QueueAdd reads every entry to find the next Order ...
QueueAddScan(r) ==
    /\ pc[r] = "registered"
    /\ next' = [next EXCEPT ![r] = MaxOrder + 1]
    /\ Goto(r, "adding")
    /\ UNCHANGED <<active, queue, notify, ready, up, cancelled, position,
                   order, crashes, ahead, outcome>>

\* ... and writes its own, with nothing held in between.
QueueAddSet(r) ==
    /\ pc[r] = "adding"
    /\ order' = [order EXCEPT ![r] = next[r]]
    /\ Goto(r, "acquire")
    /\ UNCHANGED <<active, queue, notify, ready, up, cancelled, position,
                   next, crashes, ahead, outcome>>

\* Variant: one slot too many.
AcquireOffByOne(r) ==
    /\ pc[r] = "acquire"
    /\ ahead' = [ahead EXCEPT ![r] = Queued]
    /\ IF active <= MaxConcurrentTasks
          THEN /\ active' = active + 1 /\ Goto(r, "running")
               /\ UNCHANGED <<queue, position>>
          ELSE /\ queue' = Append(queue, r) /\ Goto(r, "enqueued")
               /\ position' = [position EXCEPT ![r] = Len(queue) + 1]
               /\ UNCHANGED active
    /\ UNCHANGED <<notify, ready, up, cancelled, order, next, crashes, outcome>>

\* Acquire's first critical section: take a free slot, or join the queue.
Acquire(r) ==
    /\ pc[r] = "acquire"
    /\ ahead' = [ahead EXCEPT ![r] = Queued]
    /\ IF active < MaxConcurrentTasks
          THEN /\ active' = active + 1 /\ Goto(r, "running")
               /\ UNCHANGED <<queue, position>>
          ELSE /\ queue' = Append(queue, r) /\ Goto(r, "enqueued")
               /\ position' = [position EXCEPT ![r] = Len(queue) + 1]
               /\ UNCHANGED active
    /\ UNCHANGED <<notify, ready, up, cancelled, order, next, crashes, outcome>>

\* onQueue(pos), reported after the mutex is released.
OnQueue(r) ==
    /\ pc[r] = "enqueued" /\ Goto(r, "waiting")
    /\ UNCHANGED <<active, queue, notify, ready, up, cancelled, position,
                   order, next, crashes, ahead, outcome>>

\* The three branches of Acquire's select.  Promoted: the run has the slot.
SelectReady(r) ==
    /\ pc[r] = "waiting" /\ r \in ready
    /\ ready' = ready \ {r} /\ Goto(r, "running")
    /\ UNCHANGED <<active, queue, notify, up, cancelled, position, order,
                   next, crashes, ahead, outcome>>

\* Cancelled: the waiter gives up, whatever ready holds or will hold ...
SelectDone(r) ==
    /\ pc[r] = "waiting" /\ r \in cancelled
    /\ Goto(r, "leaving")
    /\ UNCHANGED <<active, queue, notify, ready, up, cancelled, position, order,
                   next, crashes, ahead, outcome>>

\* ... and takes the mutex to leave the queue if it is still in it.  Acquire
\* returns false.
LeaveQueue(r) ==
    /\ pc[r] = "leaving"
    /\ queue' = Without(r) /\ ready' = ready \ {r} /\ Goto(r, "dropping")
    /\ outcome' = [outcome EXCEPT ![r] = "stopped"]
    /\ UNCHANGED <<active, notify, up, cancelled, position, order, next,
                   crashes, ahead>>

\* Notified: the one waiter that takes the token reports where it is now.
SelectNotify(r) ==
    /\ pc[r] = "waiting" /\ notify
    /\ notify' = FALSE
    /\ position' = IF r \in Queued THEN [position EXCEPT ![r] = Index(r)]
                                    ELSE position
    /\ UNCHANGED <<active, queue, ready, up, pc, cancelled, order, next,
                   crashes, ahead, outcome>>

\* The work function returns, with or without an error, or panics.
WorkReturns(r) ==
    /\ pc[r] = "running" /\ Goto(r, "finishing")
    /\ outcome' = [outcome EXCEPT ![r] = "done"]
    /\ UNCHANGED <<active, queue, notify, ready, up, cancelled, position,
                   order, next, crashes, ahead>>

WorkPanics(r) ==
    /\ pc[r] = "running" /\ Goto(r, "panicking")
    /\ outcome' = [outcome EXCEPT ![r] = "panicked"]
    /\ UNCHANGED <<active, queue, notify, ready, up, cancelled, position,
                   order, next, crashes, ahead>>

\* The part of a release the variants below leave alone.
ReleaseRest(r) ==
    /\ pc[r] \in {"finishing", "panicking"}
    /\ cancelled' = cancelled \cup {r}
    /\ UNCHANGED <<up, position, order, next, crashes, ahead, outcome>>

\* Variant: the slot is given back although the head is promoted too.
ReleaseTwice(r) ==
    /\ ReleaseRest(r)
    /\ active' = active - 1
    /\ IF queue # <<>>
          THEN queue' = Tail(queue) /\ ready' = ready \cup {Head(queue)} /\ notify' = TRUE
          ELSE UNCHANGED <<queue, ready, notify>>
    /\ Goto(r, IF pc[r] = "panicking" THEN "ended" ELSE "removing")

\* Variant: the slot is given back and nobody is promoted.
ReleaseNoPromotion(r) ==
    /\ ReleaseRest(r)
    /\ active' = active - 1 /\ UNCHANGED <<queue, ready, notify>>
    /\ Goto(r, IF pc[r] = "panicking" THEN "ended" ELSE "removing")

\* Variant: the newest waiter is promoted.
ReleaseNewest(r) ==
    /\ ReleaseRest(r)
    /\ IF queue # <<>>
          THEN /\ queue' = Front(queue) /\ ready' = ready \cup {Last(queue)}
               /\ notify' = TRUE /\ UNCHANGED active
          ELSE active' = active - 1 /\ UNCHANGED <<queue, ready, notify>>
    /\ Goto(r, IF pc[r] = "panicking" THEN "ended" ELSE "removing")

\* Variant: the head is popped but not told.
ReleaseUntold(r) ==
    /\ ReleaseRest(r)
    /\ IF queue # <<>>
          THEN queue' = Tail(queue) /\ notify' = TRUE /\ UNCHANGED <<ready, active>>
          ELSE active' = active - 1 /\ UNCHANGED <<queue, ready, notify>>
    /\ Goto(r, IF pc[r] = "panicking" THEN "ended" ELSE "removing")

\* Variant: a panicked run's entry is removed like any other.
ReleaseForgetsPanic(r) ==
    /\ ReleaseRest(r)
    /\ IF queue # <<>>
          THEN /\ queue' = Tail(queue) /\ ready' = ready \cup {Head(queue)}
               /\ notify' = TRUE /\ UNCHANGED active
          ELSE active' = active - 1 /\ UNCHANGED <<queue, ready, notify>>
    /\ Goto(r, "removing")

\* The deferred function: cancel(), then Release hands the slot to the head
\* of the queue, or gives it back.  After a panic the entry stays.
Release(r) ==
    /\ pc[r] \in {"finishing", "panicking"}
    /\ IF queue # <<>>
          THEN /\ queue' = Tail(queue) /\ ready' = ready \cup {Head(queue)}
               /\ notify' = TRUE /\ UNCHANGED active
          ELSE active' = active - 1 /\ UNCHANGED <<queue, ready, notify>>
    /\ cancelled' = cancelled \cup {r}
    /\ Goto(r, IF pc[r] = "panicking" THEN "ended" ELSE "removing")
    /\ UNCHANGED <<up, position, order, next, crashes, ahead, outcome>>

\* pipelineQueueRemove, after a finished run or one that was never promoted.
QueueRemove(r) ==
    /\ pc[r] \in {"removing", "dropping"}
    /\ order' = [order EXCEPT ![r] = 0]
    /\ Goto(r, "ended")
    /\ UNCHANGED <<active, queue, notify, ready, up, cancelled, position,
                   next, crashes, ahead, outcome>>

-----------------------------------------------------------------------------
(* Stopping a run *)

\* CancelSession, and the first half of HandleCancel: the live session's
\* context is cancelled.
CancelSession(r) ==
    /\ up /\ r \in Cancellable \ cancelled /\ pc[r] \notin {"idle", "ended"}
    /\ cancelled' = cancelled \cup {r}
    /\ UNCHANGED <<active, queue, notify, ready, up, pc, position, order, next,
                   crashes, ahead, outcome>>

\* CancelQueued, the second half of HandleCancel.
CancelQueued(r) ==
    /\ r \in cancelled /\ r \in Queued
    /\ queue' = Without(r)
    /\ UNCHANGED <<active, notify, ready, up, pc, cancelled, position, order,
                   next, crashes, ahead, outcome>>

-----------------------------------------------------------------------------
(* Death and restart *)

\* Only the persistent entries (and the history of ended runs) are left.
Crash ==
    /\ up /\ crashes < MaxCrash /\ crashes' = crashes + 1
    /\ up' = FALSE
    /\ active' = 0 /\ queue' = <<>> /\ notify' = FALSE /\ ready' = {}
    /\ cancelled' = {}
    /\ pc' = [r \in Run |-> IF pc[r] = "idle" THEN "idle" ELSE "ended"]
    /\ position' = [r \in Run |-> 0]
    /\ next' = [r \in Run |-> 0]
    /\ ahead' = [r \in Run |-> {}]
    /\ UNCHANGED <<order, outcome>>

\* QueueRestore, before the listener is up: every entry's handler gets a
\* goroutine, started in Order.
QueueRestore ==
    /\ ~up /\ up' = TRUE
    /\ pc' = [r \in Run |-> IF order[r] # 0 THEN "restoring" ELSE pc[r]]
    /\ outcome' = [r \in Run |-> IF order[r] # 0 THEN "none" ELSE outcome[r]]
    /\ UNCHANGED <<active, queue, notify, ready, cancelled, position, order,
                   next, crashes, ahead>>

\* RestorePipeline after its two-second sleep.
RestorePipeline(r) ==
    /\ pc[r] = "restoring" /\ Goto(r, "acquire")
    /\ UNCHANGED <<active, queue, notify, ready, up, cancelled, position, order,
                   next, crashes, ahead, outcome>>

\* The handler finds its surface or its run record gone.
RestoreGone(r) ==
    /\ pc[r] = "restoring" /\ Goto(r, "removing")
    /\ outcome' = [outcome EXCEPT ![r] = "gone"]
    /\ UNCHANGED <<active, queue, notify, ready, up, cancelled, position, order,
                   next, crashes, ahead>>

-----------------------------------------------------------------------------
RunStep(r) ==
    \/ QueueAddScan(r) \/ QueueAddSet(r)
    \/ Acquire(r) \/ OnQueue(r)
    \/ SelectReady(r) \/ SelectDone(r) \/ LeaveQueue(r) \/ SelectNotify(r)
    \/ WorkReturns(r) \/ WorkPanics(r)
    \/ Release(r) \/ QueueRemove(r)
    \/ RestorePipeline(r) \/ RestoreGone(r)

Next ==
    \/ \E r \in Run : \/ RunPipelineAsync(r) \/ RunStep(r)
                      \/ CancelSession(r) \/ CancelQueued(r)
    \/ Crash \/ QueueRestore

Spec == Init /\ [][Next]_vars

(* Fairness.  Every run's goroutine is scheduled; the work function returns *)
(* (an assumption: nothing here bounds it); a process that died is started  *)
(* again.                                                                   *)
Fairness ==
    /\ \A r \in Run : WF_vars(RunStep(r)) /\ SF_vars(SelectReady(r))
    /\ WF_vars(QueueRestore)

FairSpec == Spec /\ Fairness

-----------------------------------------------------------------------------
(* Properties *)

\* The runs that hold a slot: promoted and not yet told, or working.
Holding == ready \cup {r \in Run : pc[r] \in {"running", "finishing", "panicking"}}

\* Never more runs than slots: a run works only while the counter accounts
\* for it, whatever cancellations, promotions and restarts interleave.
SlotBound == Cardinality(Holding) <= active /\ active <= MaxConcurrentTasks

\* A run waits only while every slot is counted as taken, so Acquire's free
\* slot is never taken past a waiter.
NoIdleSlot == queue # <<>> => active = MaxConcurrentTasks

\* "Other tasks wait in FIFO order": a run that got a slot overtook nobody who
\* was already waiting when it asked.
NoOvertaking == \A r \in Holding : ahead[r] \cap Queued = {}

\* A run that was accepted keeps its persistent entry until it has ended for
\* good: between its Acquire and its end, and, if it panicked, until it is
\* restored ("leave the queue entry in place so a restart rehydrates and
\* retries the pipeline").
EntryKept ==
    \A r \in Run \ Ephemeral :
        pc[r] \in {"acquire", "enqueued", "waiting", "running", "finishing", "restoring"}
            \/ outcome[r] = "panicked"
        => order[r] # 0

\* "Tasks acquire a slot before starting and release it when done": a slot
\* that is taken is held by somebody.
SlotsAreHeld == active = Cardinality(Holding)

\* A run that was accepted finishes: it runs to its end, or its handler found
\* it gone, even when the process dies under it or another run is cancelled at
\* work.  Promised only as long as no waiter was stopped, since a stopped waiter
\* may take its slot with it.
AcceptedFinish ==
    \A r \in Run \ Ephemeral :
        pc[r] = "acquire" ~> \/ outcome[r] \in {"done", "panicked", "gone"}
                            \/ \E q \in Run : outcome[q] = "stopped"
=============================================================================
