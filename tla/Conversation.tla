----------------------------- MODULE Conversation -----------------------------
(***************************************************************************)
(* One conversation: the background jobs that report back to it            *)
(* (apps/orchestrate/task_runner.go, core/task_cancel.go), the note queue  *)
(* of its running turn (core/injection/injection.go), its chat turns       *)
(* (apps/orchestrate/runner_http.go), the wake turns that carry results    *)
(* (scheduled_updates.go) and the stored thread they all write             *)
(* (sessions.go).                                                          *)
(*                                                                         *)
(* Goroutines.  Each job; each goroutine that holds notes and is about to  *)
(* hand them over (a `hand': a finished job, a window's timer, a person's  *)
(* inject request); each wake turn; each chat turn.  A lookup in the queue *)
(* registry and the push that follows, the load of a thread and the save   *)
(* that follows, and the removal from the job list and the cancel that     *)
(* follows are separate steps.                                             *)
(*                                                                         *)
(* Left out: the words of a note (its prompt and history halves travel     *)
(* together), held pictures, saved files, series of jobs, more than one    *)
(* owner, and deadlines: a sleep or a bounded wait may end at any moment.  *)
(* The queue's reader does not wait, so a leftover result's five-second    *)
(* wait for the release is no step of its own.                             *)
(***************************************************************************)
EXTENDS Naturals, Sequences, FiniteSets

CONSTANTS
    Job,     \* background jobs of this conversation
    Filed,   \* those whose product has files to attach
    Stoppable, \* those somebody may stop: every job, or fewer to bound a run
    Note,    \* notes a person types while a turn runs
    Turn,    \* chat turns
    Depth,   \* MaxInjectionQueueDepth
    None     \* no turn, no job

Item == Job \cup Note

ASSUME ConversationAssumption ==
    /\ Filed \subseteq Job /\ Stoppable \subseteq Job
    /\ Job \cap Note = {}
    /\ Depth \in Nat \ {0}
    /\ None \notin Job \cup Turn

VARIABLES
    jpc,         \* where each job's goroutine is
    panicked,    \* jobs whose fn panicked: nothing attached, no context check
    listed,      \* bgJobs: the conversation's job list
    delivering,  \* listed jobs that FinishBackgroundJob marked
    cancelled,   \* jobs whose context is cancelled
    hands,       \* notes held by a goroutine that is delivering them
    windowOpen,  \* pendingWakes has an entry for the session
    buffered,    \* results that entry holds
    staged,      \* stagedMedia: jobs whose files wait for a turn
    wakes,       \* wake turns under way
    registered,  \* the turn whose queue is in the registry
    queue,       \* each turn's injection queue
    tpc,         \* where each chat turn is
    copy,        \* its copy of the thread
    thread,      \* the stored thread: the results and notes in it
    \* Auxiliary history, never in a guard of the code's actions.
    posted,      \* notes whose inject request was made
    fate,        \* what became of each result and note
    inTime,      \* jobs cancelled while their fn was still at work
    clobbered    \* messages a chat turn's save removed from the thread

jobVars  == <<jpc, panicked, listed, delivering, cancelled, inTime>>
wakeVars == <<hands, windowOpen, buffered, staged, wakes>>
turnVars == <<registered, queue, tpc, copy, posted>>
vars     == <<jobVars, wakeVars, turnVars, thread, fate, clobbered>>

JobPc  == {"idle", "work", "returned", "finish", "stage", "hand", "complete",
           "done"}
TurnPc == {"idle", "open", "recorded", "running", "leftover", "keep",
           "release", "done"}
Fate   == {"none", "read", "reported", "dropped"}
Hand   == [notes : SUBSET Item, at : {"look", "push", "claim"},
           q : Turn \cup {None}, from : Job \cup {None}]
Wake   == [notes : SUBSET Job, at : {"load", "run", "save"},
           base : SUBSET Item, files : SUBSET Filed,
           from : Job \cup {None}]
Entry  == [notes : SUBSET Item, locked : BOOLEAN]

TypeOK ==
    /\ jpc \in [Job -> JobPc]
    /\ panicked \subseteq Job /\ listed \subseteq Job
    /\ delivering \subseteq Job
    /\ cancelled \subseteq Job /\ inTime \subseteq Job
    /\ hands \subseteq Hand
    /\ windowOpen \in BOOLEAN /\ buffered \subseteq Job
    /\ staged \subseteq Filed
    /\ wakes \subseteq Wake
    /\ registered \in Turn \cup {None}
    /\ queue \in [Turn -> Seq(Entry)]
    /\ \A t \in Turn : Len(queue[t]) <= Depth
    /\ tpc \in [Turn -> TurnPc]
    /\ copy \in [Turn -> SUBSET Item]
    /\ thread \subseteq Item
    /\ posted \subseteq Note
    /\ fate \in [Item -> Fate]
    /\ clobbered \subseteq Item

Init ==
    /\ jpc = [j \in Job |-> "idle"]
    /\ panicked = {} /\ listed = {} /\ delivering = {}
    /\ cancelled = {} /\ inTime = {}
    /\ hands = {} /\ windowOpen = FALSE /\ buffered = {} /\ staged = {}
    /\ wakes = {}
    /\ registered = None
    /\ queue = [t \in Turn |-> <<>>]
    /\ tpc = [t \in Turn |-> "idle"]
    /\ copy = [t \in Turn |-> {}]
    /\ thread = {} /\ posted = {} /\ clobbered = {}
    /\ fate = [x \in Item |-> "none"]

-----------------------------------------------------------------------------
(* Small operators *)

Goto(j, pc) == jpc' = [jpc EXCEPT ![j] = pc]

\* A delivery returned to the job that made it, if a job did.
Returned(from) == jpc' = [j \in Job |-> IF j = from THEN "complete" ELSE jpc[j]]

Settle(xs, f) == fate' = [x \in Item |-> IF x \in xs THEN f ELSE fate[x]]

\* buildWakeNote found something to attach.
HasFiles(j) == j \in Filed /\ j \notin panicked

NotesIn(q) == UNION {q[i].notes : i \in DOMAIN q}

\* The entries of q that are in S, in order.  A function, for the proofs: what
\* SelectSeq returns is out of the provers' reach.
Only(q, S) ==
    LET kept[i \in 0..Len(q)] ==
            IF i = 0 THEN <<>>
            ELSE IF q[i] \in S THEN Append(kept[i-1], q[i]) ELSE kept[i-1]
    IN kept[Len(q)]

\* Drain: the unlocked notes are taken, the locked ones stay.
Unlocked(q) == NotesIn(Only(q, {e \in Entry : ~e.locked}))
LockedOf(q) == Only(q, {e \in Entry : e.locked})

\* saveChatSession of a chat turn's own copy: whatever the store has that the
\* copy lacks is gone.
SaveCopy(c) ==
    /\ thread' = c
    /\ clobbered' = clobbered \cup (thread \ c)

-----------------------------------------------------------------------------
(* The job: startTask and its goroutine *)

\* The run is created and RegisterBackgroundJob lists it.
StartTask(j) ==
    /\ jpc[j] = "idle"
    /\ Goto(j, "work") /\ listed' = listed \cup {j}
    /\ UNCHANGED <<panicked, delivering, cancelled, inTime, wakeVars,
                   turnVars, thread, fate, clobbered>>

FnReturns(j) ==
    /\ jpc[j] = "work" /\ Goto(j, "returned")
    /\ UNCHANGED <<panicked, listed, delivering, cancelled, inTime,
                   wakeVars, turnVars, thread, fate, clobbered>>

\* The recovering defer goes straight to FinishBackgroundJob and delivery.
FnPanics(j) ==
    /\ jpc[j] = "work" /\ Goto(j, "finish")
    /\ panicked' = panicked \cup {j}
    /\ UNCHANGED <<listed, delivering, cancelled, inTime, wakeVars,
                   turnVars, thread, fate, clobbered>>

\* Variant: the cancelled context is not looked at.
CheckContextNever(j) ==
    /\ jpc[j] = "returned"
    /\ Goto(j, "finish")
    /\ UNCHANGED <<panicked, listed, delivering, cancelled, inTime,
                   wakeVars, turnVars, thread, fate, clobbered>>

\* ctx.Err() after fn: a cancelled job ends without a word.
CheckContext(j) ==
    /\ jpc[j] = "returned"
    /\ Goto(j, IF j \in cancelled THEN "complete" ELSE "finish")
    /\ UNCHANGED <<panicked, listed, delivering, cancelled, inTime,
                   wakeVars, turnVars, thread, fate, clobbered>>

FinishBackgroundJob(j) ==
    /\ jpc[j] = "finish" /\ Goto(j, "stage")
    /\ delivering' = delivering \cup ({j} \cap listed)
    /\ UNCHANGED <<panicked, listed, cancelled, inTime, wakeVars,
                   turnVars, thread, fate, clobbered>>

\* buildWakeNote stages the files; then the grace sleep.
BuildWakeNote(j) ==
    /\ jpc[j] = "stage" /\ Goto(j, "hand")
    /\ staged' = IF HasFiles(j) THEN staged \cup {j} ELSE staged
    /\ hands' = hands \cup
           {[notes |-> {j}, at |-> "look", q |-> None, from |-> j]}
    /\ UNCHANGED <<panicked, listed, delivering, cancelled, inTime,
                   windowOpen, buffered, wakes, turnVars, thread, fate,
                   clobbered>>

CompleteBackgroundJob(j) ==
    /\ jpc[j] = "complete" /\ Goto(j, "done")
    /\ listed' = listed \ {j} /\ delivering' = delivering \ {j}
    /\ UNCHANGED <<panicked, cancelled, inTime, wakeVars, turnVars,
                   thread, fate, clobbered>>

\* CancelBackgroundJobs of one job or of all: those not being delivered leave
\* the list and are told stopped; their contexts are cancelled afterwards.
CancelBackgroundJobs(js) ==
    /\ js # {} /\ js \subseteq Stoppable \cap (listed \ delivering)
    /\ Cardinality(js) = 1 \/ js = Stoppable \cap (listed \ delivering)
    /\ listed' = listed \ js
    /\ UNCHANGED <<jpc, panicked, delivering, cancelled, inTime, wakeVars,
                   turnVars, thread, fate, clobbered>>

\* run.Cancel: for a stopped job outside the lock, or from the live row's
\* Stop.  Once the context was checked and the run completed it does nothing.
CancelRun(j) ==
    /\ jpc[j] \in {"work", "returned"} /\ j \in Stoppable \ cancelled
    /\ cancelled' = cancelled \cup {j}
    /\ inTime' = IF jpc[j] = "work" THEN inTime \cup {j} ELSE inTime
    /\ UNCHANGED <<jpc, panicked, listed, delivering, wakeVars,
                   turnVars, thread, fate, clobbered>>

-----------------------------------------------------------------------------
(* Delivery: wakeSessionWithNote and the wake window *)

StartWake(notes, from) ==
    wakes' = wakes \cup {[notes |-> notes, at |-> "load", base |-> {},
                          files |-> {}, from |-> from]}

\* The registry is looked at: a queue and nothing staged means the note joins
\* the running turn.  Otherwise a finished job asks for the window, and the
\* window's own goroutine starts a turn.
LookupQueue(h) ==
    /\ h \in hands /\ h.at = "look"
    /\ IF registered # None /\ staged = {}
          THEN /\ hands' = (hands \ {h}) \cup
                     {[h EXCEPT !.at = "push", !.q = registered]}
               /\ UNCHANGED wakes
          ELSE IF h.from # None
          THEN /\ hands' = (hands \ {h}) \cup {[h EXCEPT !.at = "claim"]}
               /\ UNCHANGED wakes
          ELSE /\ hands' = hands \ {h}
               /\ StartWake(h.notes, None)
    /\ UNCHANGED <<jobVars, windowOpen, buffered, staged, turnVars, thread,
                   fate, clobbered>>

\* Variant: the queue has no cap.
PushUncapped(h) ==
    /\ h \in hands /\ h.at = "push"
    /\ hands' = hands \ {h}
    /\ queue' = [queue EXCEPT ![h.q] =
                    Append(@, [notes |-> h.notes, locked |-> FALSE])]
    /\ Returned(h.from)
    /\ UNCHANGED <<panicked, listed, delivering, cancelled, inTime,
                   windowOpen, buffered, staged, wakes, registered, tpc, copy,
                   posted, thread, fate, clobbered>>

\* Push and PushFramework on the queue found, which may have been released
\* since.  A full queue drops its oldest entry.
Push(h) ==
    /\ h \in hands /\ h.at = "push"
    /\ hands' = hands \ {h}
    /\ LET q == queue[h.q]
           new == [notes |-> h.notes, locked |-> FALSE]
       IN IF Len(q) >= Depth
             THEN /\ queue' = [queue EXCEPT ![h.q] = Append(Tail(q), new)]
                  /\ Settle(Head(q).notes, "dropped")
             ELSE /\ queue' = [queue EXCEPT ![h.q] = Append(q, new)]
                  /\ UNCHANGED fate
    /\ Returned(h.from)
    /\ UNCHANGED <<panicked, listed, delivering, cancelled, inTime,
                   windowOpen, buffered, staged, wakes, registered, tpc, copy,
                   posted, thread, clobbered>>

\* Variant: the first result is buffered as well as sent.
ClaimWakeWindowBuffersOwner(h) ==
    /\ h \in hands /\ h.at = "claim"
    /\ hands' = hands \ {h}
    /\ buffered' = buffered \cup h.notes
    /\ IF windowOpen
          THEN Returned(h.from) /\ UNCHANGED <<windowOpen, wakes>>
          ELSE /\ windowOpen' = TRUE /\ StartWake(h.notes, h.from)
               /\ UNCHANGED jpc
    /\ UNCHANGED <<panicked, listed, delivering, cancelled, inTime,
                   staged, turnVars, thread, fate, clobbered>>

\* claimWakeWindow: the first result opens the window and is sent at once by
\* its own job; one that comes while the window is open is buffered.
ClaimWakeWindow(h) ==
    /\ h \in hands /\ h.at = "claim"
    /\ hands' = hands \ {h}
    /\ IF windowOpen
          THEN /\ buffered' = buffered \cup h.notes /\ Returned(h.from)
               /\ UNCHANGED <<windowOpen, wakes>>
          ELSE /\ windowOpen' = TRUE /\ StartWake(h.notes, h.from)
               /\ UNCHANGED <<buffered, jpc>>
    /\ UNCHANGED <<panicked, listed, delivering, cancelled, inTime,
                   staged, turnVars, thread, fate, clobbered>>

\* The window ends: what it buffered goes on as one joined note.
TakeBufferedWakes ==
    /\ windowOpen /\ windowOpen' = FALSE /\ buffered' = {}
    /\ hands' = IF buffered = {} THEN hands
                ELSE hands \cup {[notes |-> buffered, at |-> "look",
                                  q |-> None, from |-> None]}
    /\ UNCHANGED <<jobVars, staged, wakes, turnVars, thread, fate, clobbered>>

-----------------------------------------------------------------------------
(* The wake turn: fireOrchestrateUpdate with a task wake's prompt *)

\* buildSession claims every staged file of the session.  The thread loaded
\* for the prompt is not what is saved, so it is left out.
WakeLoad(w) ==
    /\ w \in wakes /\ w.at = "load"
    /\ wakes' = (wakes \ {w}) \cup
           {[w EXCEPT !.at = "run", !.files = staged]}
    /\ staged' = {}
    /\ UNCHANGED <<jobVars, hands, windowOpen, buffered, turnVars, thread,
                   fate, clobbered>>

\* Variant: the append lock is not taken.
AppendLoadUnlocked(w) ==
    /\ w \in wakes /\ w.at = "run"
    /\ wakes' = (wakes \ {w}) \cup
           {[w EXCEPT !.at = "save", !.base = thread, !.files = {}]}
    /\ UNCHANGED <<jobVars, hands, windowOpen, buffered, staged, turnVars,
                   thread, fate, clobbered>>

\* postReport: appendStoredBounded takes the append lock and reads the thread
\* again.  Chat turns do not take that lock.
AppendLoad(w) ==
    /\ w \in wakes /\ w.at = "run" /\ \A v \in wakes : v.at # "save"
    /\ wakes' = (wakes \ {w}) \cup
           {[w EXCEPT !.at = "save", !.base = thread, !.files = {}]}
    /\ UNCHANGED <<jobVars, hands, windowOpen, buffered, staged, turnVars,
                   thread, fate, clobbered>>

AppendSave(w) ==
    /\ w \in wakes /\ w.at = "save"
    /\ wakes' = wakes \ {w}
    /\ thread' = w.base \cup w.notes
    /\ Settle(w.notes, "reported") /\ Returned(w.from)
    /\ UNCHANGED <<panicked, listed, delivering, cancelled, inTime,
                   hands, windowOpen, buffered, staged, turnVars, clobbered>>

\* reportable says no: the loop failed, or had nothing to say.
WakeUnsaid(w) ==
    /\ w \in wakes /\ w.at = "run"
    /\ wakes' = wakes \ {w}
    /\ Settle(w.notes, "dropped") /\ Returned(w.from)
    /\ UNCHANGED <<panicked, listed, delivering, cancelled, inTime,
                   hands, windowOpen, buffered, staged, turnVars, thread,
                   clobbered>>

-----------------------------------------------------------------------------
(* The chat turn: handleSend *)

\* openSession reads the thread.
OpenSession(t) ==
    /\ tpc[t] = "idle"
    /\ tpc' = [tpc EXCEPT ![t] = "open"]
    /\ copy' = [copy EXCEPT ![t] = thread]
    /\ UNCHANGED <<jobVars, wakeVars, registered, queue, posted, thread, fate,
                   clobbered>>

RecordUserMessage(t) ==
    /\ tpc[t] = "open"
    /\ tpc' = [tpc EXCEPT ![t] = "recorded"]
    /\ SaveCopy(copy[t])
    /\ UNCHANGED <<jobVars, wakeVars, registered, queue, copy, posted, fate>>

\* registerInjectionQueue takes the session's place in the registry from
\* whoever had it: startRun has cancelled that turn, which may still be ending.
RegisterQueue(t) ==
    /\ tpc[t] = "recorded"
    /\ tpc' = [tpc EXCEPT ![t] = "running"]
    /\ registered' = t
    /\ UNCHANGED <<jobVars, wakeVars, queue, copy, posted, thread, fate,
                   clobbered>>

\* drainNotes, between rounds and steps: the model reads what was queued, and
\* the turn saves its copy of the thread with it.
DrainNotes(t) ==
    /\ tpc[t] = "running" /\ Unlocked(queue[t]) # {}
    /\ queue' = [queue EXCEPT ![t] = LockedOf(@)]
    /\ copy' = [copy EXCEPT ![t] = @ \cup Unlocked(queue[t])]
    /\ SaveCopy(copy[t] \cup Unlocked(queue[t]))
    /\ Settle(Unlocked(queue[t]), "read")
    /\ UNCHANGED <<jobVars, wakeVars, registered, tpc, posted>>

\* saveReply; also the trace a cancelled turn saves.
SaveReply(t) ==
    /\ tpc[t] = "running"
    /\ tpc' = [tpc EXCEPT ![t] = "leftover"]
    /\ SaveCopy(copy[t])
    /\ UNCHANGED <<jobVars, wakeVars, registered, queue, copy, posted, fate>>

\* The turn ends early with nothing to save.
EndEarly(t) ==
    /\ tpc[t] = "running"
    /\ tpc' = [tpc EXCEPT ![t] = "leftover"]
    /\ UNCHANGED <<jobVars, wakeVars, registered, queue, copy, posted, thread,
                   fate, clobbered>>

\* Variant: results no round read are dropped with the queue.
KeepLeftoverNotesOwn(t) ==
    /\ tpc[t] = "leftover"
    /\ LET mine == Unlocked(queue[t]) \cap Note
       IN /\ copy' = [copy EXCEPT ![t] = thread \cup mine]
          /\ tpc' = [tpc EXCEPT ![t] = IF mine = {} THEN "release" ELSE "keep"]
          /\ UNCHANGED wakes
    /\ queue' = [queue EXCEPT ![t] = LockedOf(@)]
    /\ UNCHANGED <<jobVars, hands, windowOpen, buffered, staged, registered,
                   posted, thread, fate, clobbered>>

\* keepLeftoverNotes: the last Drain.  Each entry with results gets a wake
\* turn; the person's own notes are added to the thread as it now stands, the
\* save being a step of its own and outside the append lock.
KeepLeftoverNotes(t) ==
    /\ tpc[t] = "leftover"
    /\ LET taken == {e.notes : e \in {queue[t][i] : i \in {k \in DOMAIN queue[t] :
                                                 ~queue[t][k].locked}}}
           mine  == UNION {s \in taken : s \subseteq Note}
       IN /\ wakes' = wakes \cup
                 {[notes |-> s, at |-> "load", base |-> {}, files |-> {},
                   from |-> None] : s \in {r \in taken : r \subseteq Job}}
          /\ copy' = [copy EXCEPT ![t] = thread \cup mine]
          /\ tpc' = [tpc EXCEPT ![t] = IF mine = {} THEN "release" ELSE "keep"]
    /\ queue' = [queue EXCEPT ![t] = LockedOf(@)]
    /\ UNCHANGED <<jobVars, hands, windowOpen, buffered, staged, registered,
                   posted, thread, fate, clobbered>>

\* The own notes that no round read and the copy now holds.
KeptNotes(t) == {n \in Note : n \in copy[t] /\ fate[n] = "none"}

KeepSave(t) ==
    /\ tpc[t] = "keep"
    /\ tpc' = [tpc EXCEPT ![t] = "release"]
    /\ SaveCopy(copy[t])
    /\ Settle(KeptNotes(t), "read")
    /\ UNCHANGED <<jobVars, wakeVars, registered, queue, copy, posted>>

\* ReleaseInjectionQueue deletes whatever the session's key holds.
ReleaseQueue(t) ==
    /\ tpc[t] = "release"
    /\ tpc' = [tpc EXCEPT ![t] = "done"]
    /\ registered' = None
    /\ copy' = [copy EXCEPT ![t] = {}]
    /\ UNCHANGED <<jobVars, wakeVars, queue, posted, thread, fate, clobbered>>

-----------------------------------------------------------------------------
(* The person: the inject endpoint *)

\* post: runningQueue found a queue, and the note is about to be pushed.
PostNote(n) ==
    /\ n \notin posted /\ registered # None
    /\ posted' = posted \cup {n}
    /\ hands' = hands \cup {[notes |-> {n}, at |-> "push", q |-> registered,
                             from |-> None]}
    /\ UNCHANGED <<jobVars, windowOpen, buffered, staged, wakes, registered,
                   queue, tpc, copy, thread, fate, clobbered>>

\* The entries of the registered queue that hold n: none for a result, whose
\* note the person can neither edit nor remove.
EditNote(n, locked) ==
    /\ registered # None
    /\ \E i \in DOMAIN queue[registered] :
          /\ queue[registered][i].notes = {n}
          /\ queue[registered][i].locked # locked
          /\ queue' = [queue EXCEPT ![registered][i].locked = locked]
    /\ UNCHANGED <<jobVars, wakeVars, registered, tpc, copy, posted, thread,
                   fate, clobbered>>

LockNote(n)   == EditNote(n, TRUE)
UnlockNote(n) == EditNote(n, FALSE)     \* Unlock, and Update with the new text

DeleteNote(n) ==
    /\ registered # None /\ n \in NotesIn(queue[registered])
    /\ queue' = [queue EXCEPT ![registered] =
                    Only(@, {e \in Entry : n \notin e.notes})]
    /\ Settle({n}, "dropped")
    /\ UNCHANGED <<jobVars, wakeVars, registered, tpc, copy, posted, thread,
                   clobbered>>

-----------------------------------------------------------------------------
\* What the program does on its own once a job's work has returned and a turn
\* has begun.
JobStep(j) ==
    \/ CheckContext(j) \/ FinishBackgroundJob(j) \/ BuildWakeNote(j)
    \/ CompleteBackgroundJob(j)

HandStep == \E h \in hands : LookupQueue(h) \/ Push(h) \/ ClaimWakeWindow(h)

WakeStep ==
    \E w \in wakes : WakeLoad(w) \/ AppendLoad(w) \/ AppendSave(w) \/ WakeUnsaid(w)

TurnStep(t) ==
    \/ RecordUserMessage(t) \/ RegisterQueue(t)
    \/ SaveReply(t) \/ EndEarly(t)
    \/ KeepLeftoverNotes(t) \/ KeepSave(t) \/ ReleaseQueue(t)

Progress ==
    \/ \E j \in Job : JobStep(j)
    \/ HandStep \/ TakeBufferedWakes \/ WakeStep
    \/ \E t \in Turn : TurnStep(t)

Next ==
    \/ Progress
    \/ \E j \in Job : StartTask(j) \/ FnReturns(j) \/ FnPanics(j) \/ CancelRun(j)
    \/ \E js \in SUBSET Job : CancelBackgroundJobs(js)
    \/ \E t \in Turn : OpenSession(t) \/ DrainNotes(t)
    \/ \E n \in Note : PostNote(n) \/ LockNote(n) \/ UnlockNote(n) \/ DeleteNote(n)

Spec == Init /\ [][Next]_vars

(* Fairness.  Some goroutine of the program that can run does: Go schedules *)
(* them, the sleeps of the grace and of the window end, and a turn's rounds *)
(* and a wake's loop are bounded by MaxRounds and the model's timeouts.     *)
(* Each runs a bounded number of steps, so no fairness between them is      *)
(* needed.  Nothing makes a job's own work end, a round drain, or a person  *)
(* act.                                                                     *)
Fairness == WF_vars(Progress)

FairSpec == Spec /\ Fairness

-----------------------------------------------------------------------------
(* Properties *)

\* Where a result or a note is at this moment.
Places(x) ==
    {<<"hand", h>> : h \in {g \in hands : x \in g.notes}}
    \cup {<<"window">> : y \in {x} \cap buffered}
    \cup {<<"wake", w>> : w \in {v \in wakes : x \in v.notes}}
    \cup {<<"queue", t>> : t \in {u \in Turn : x \in NotesIn(queue[u])}}
    \cup {<<"settled">> : y \in {z \in {x} : fate[z] # "none"}}

\* A result is told once: a finished job's result is in one place at a time
\* (its goroutine, the window, a wake turn, one turn's queue) and in none once
\* a turn has told it, so no interleaving of the window, the running turn's
\* queue and the leftover drain announces one result twice.
ToldOnce == \A x \in Item : Cardinality(Places(x)) <= 1

\* "Cancelled. The user already knows they stopped it": a job whose context
\* was cancelled while its work was still running never reaches the
\* conversation, unless it panicked.
StopHeeded ==
    \A j \in inTime \ panicked :
        jpc[j] \in {"work", "returned", "complete", "done"} /\ Places(j) = {}

\* Reports do not overwrite each other: a card a wake turn posted is still in
\* the thread, whatever other wake turns post, unless a chat turn's save of
\* its own copy removed it.
CardsKept ==
    \A j \in Job : fate[j] = "reported" => j \in thread \cup clobbered

\* A queue whose turn will not drain it again: nobody reads what is in it.
Stranded(x) ==
    \E t \in Turn : x \in NotesIn(queue[t]) /\ tpc[t] \in {"keep", "release", "done"}

\* What a job delivers, and what a person types, arrives: a turn reads it, a
\* wake turn reports it or the thread keeps it, unless it fell out of a full
\* queue, was deleted, its wake turn had no reply, or it was pushed into (or
\* locked in) a queue after that queue's last drain.
ResultArrives ==
    \A x \in Item : Places(x) # {} ~> fate[x] # "none" \/ Stranded(x)
=============================================================================
