---------------------------- MODULE DeferredJobs ----------------------------
(***************************************************************************)
(* What core/scheduler.go promises the code that schedules work, with no   *)
(* table, lock, timer or loop: a job asked for runs at most once, with the *)
(* payload of the last change that was granted, less than a second before  *)
(* the time of that change at the earliest, or it is dropped.  A change    *)
(* may bring a dropped job back (an update that overlaps the job's removal *)
(* is granted), and nothing brings back a job that ran.                    *)
(* Scheduler implements this specification.                                *)
(***************************************************************************)
EXTENDS Naturals

CONSTANTS Job, Payload, Time, Resolution, None

VARIABLES
    now,      \* the clock
    state,    \* what became of each job
    payload,  \* what it was last asked to run with
    due,      \* when it was last asked to run
    ran       \* when, and with what, it ran

vars == <<now, state, payload, due, ran>>

Init ==
    /\ now = 0
    /\ state = [j \in Job |-> "new"]
    /\ payload = [j \in Job |-> None]
    /\ due = [j \in Job |-> 0]
    /\ ran = [j \in Job |-> None]

\* ScheduleTask.
Schedule(j, p, at) ==
    /\ state[j] = "new"
    /\ state' = [state EXCEPT ![j] = "queued"]
    /\ payload' = [payload EXCEPT ![j] = p]
    /\ due' = [due EXCEPT ![j] = at]
    /\ UNCHANGED <<now, ran>>

\* UpdateScheduledTaskPayload and RescheduleTaskAt, when they return true.
Change(j, p, at) ==
    /\ state[j] \in {"queued", "dropped"}
    /\ state' = [state EXCEPT ![j] = "queued"]
    /\ payload' = [payload EXCEPT ![j] = p]
    /\ due' = [due EXCEPT ![j] = at]
    /\ UNCHANGED <<now, ran>>

\* The handler is launched.
Run(j) ==
    /\ state[j] = "queued"
    /\ now + Resolution > due[j]
    /\ state' = [state EXCEPT ![j] = "ran"]
    /\ ran' = [ran EXCEPT ![j] = [at |-> now, payload |-> payload[j]]]
    /\ UNCHANGED <<now, payload, due>>

\* UnscheduleTask, a kind nobody handles, or a crash after the dequeue.
Drop(S) ==
    /\ \A j \in S : state[j] = "queued"
    /\ state' = [j \in Job |-> IF j \in S THEN "dropped" ELSE state[j]]
    /\ UNCHANGED <<now, payload, due, ran>>

Pass ==
    /\ now' = now + 1
    /\ UNCHANGED <<state, payload, due, ran>>

Next ==
    \/ \E j \in Job, p \in Payload, at \in Time :
          Schedule(j, p, at) \/ Change(j, p, at)
    \/ \E j \in Job : Run(j)
    \/ \E S \in SUBSET Job : Drop(S)
    \/ Pass

Spec == Init /\ [][Next]_vars
=============================================================================
