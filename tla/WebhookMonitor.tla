---------------------------- MODULE WebhookMonitor ----------------------------
(***************************************************************************)
(* One webhook monitor (core/event_monitor.go): the posts that reach it    *)
(* (apps/orchestrate/operator_wake.go, core/webhooks/receive.go), the fire *)
(* that is running and the posts held behind it, the allowance of fires,   *)
(* and its owner's pause, resume and delete.                               *)
(*                                                                         *)
(* Every post that is accepted gets a goroutine in FireEventMonitor.  The  *)
(* firing set and what it holds are guarded by eventFireMu; the monitor's  *)
(* record is not guarded at all: each change of it is a Get of the whole   *)
(* record and a later Set of the whole record.                             *)
(*                                                                         *)
(* Left out: the rate limit and the duplicate check in front of the post   *)
(* (a refused post does nothing here), the run ledger, edits of the        *)
(* record, and the waker, which some app registers before posts come.      *)
(***************************************************************************)
EXTENDS Integers, Sequences, FiniteSets, SequencesExt

CONSTANTS
    Post,      \* posts
    MaxFires,  \* the allowance; 0 is no bound
    QueueMax,  \* eventFireQueueMax
    MaxOps,    \* bound on what the owner does
    MaxCrash,  \* bound on process deaths
    None       \* no record, no fire running

ASSUME WebhookMonitorAssumption ==
    /\ MaxFires \in Nat /\ QueueMax \in Nat
    /\ MaxOps \in Nat /\ MaxCrash \in Nat
    /\ IsFiniteSet(Post)

VARIABLES
    rec,      \* the stored record, or None
    firing,   \* eventFiring[key]: the posts held, or None with no fire running
    g,        \* where each post's goroutine is
    carry,    \* the posts that goroutine's next fire delivers
    copy,     \* the record it has read
    owner,    \* what the owner is doing, and the record that was read for it
    ops,      \* what the owner has done so far
    crashes,  \* process deaths so far
    \* Auxiliary history, never in a guard of the code's actions.
    fate,     \* what became of each post
    arrived,  \* posts in the order they reached the firing set
    woken,    \* posts in the order they were delivered
    fires,    \* fires since the allowance was last restarted
    uncounted \* those of them the record does not count

fireVars  == <<firing, g, carry, copy>>
ownerVars == <<owner, ops>>
histVars  == <<fate, arrived, woken, fires, uncounted>>
vars      == <<rec, fireVars, ownerVars, crashes, histVars>>

Record == [paused : BOOLEAN, count : Nat, base : Nat]

ASSUME NoneAssumption == None \notin Record /\ None \notin Seq(Post)

Fate   == {"none", "woken", "refused", "full", "lost", "crashed"}
Pc     == {"new", "enter", "check", "touch", "wake", "settle", "count", "stop",
           "stopSave", "take", "leave", "done"}
Op     == {"none", "pause", "resume"}

TypeOK ==
    /\ rec \in Record \cup {None}
    /\ firing \in Seq(Post) \cup {None}
    /\ firing # None => Len(firing) <= QueueMax
    /\ g \in [Post -> Pc]
    /\ carry \in [Post -> Seq(Post)]
    /\ copy \in [Post -> Record \cup {None}]
    /\ owner \in [op : Op, read : Record \cup {None}]
    /\ ops \in Nat /\ crashes \in Nat
    /\ fate \in [Post -> Fate]
    /\ arrived \in Seq(Post) /\ woken \in Seq(Post)
    /\ fires \in Nat /\ uncounted \in Nat

Init ==
    /\ rec = [paused |-> FALSE, count |-> 0, base |-> 0]
    /\ firing = None
    /\ g = [p \in Post |-> "new"]
    /\ carry = [p \in Post |-> <<>>]
    /\ copy = [p \in Post |-> None]
    /\ owner = [op |-> "none", read |-> None] /\ ops = 0 /\ crashes = 0
    /\ fate = [p \in Post |-> "none"]
    /\ arrived = <<>> /\ woken = <<>> /\ fires = 0 /\ uncounted = 0

-----------------------------------------------------------------------------
Goto(p, to) == g' = [g EXCEPT ![p] = to]

Settle(ps, f) == fate' = [p \in Post |-> IF p \in ps THEN f ELSE fate[p]]

\* FiresUsed and firedOut.  FiresBase is never above FireCount.
FiredOut(r) == MaxFires > 0 /\ r.count - r.base >= MaxFires

\* RearmMonitorFires.
Rearmed(r) == IF FiredOut(r) THEN [r EXCEPT !.base = r.count] ELSE r

\* SaveEventMonitor, and the counts that writing r over the record forgets.
Save(r) == rec' = r
Forgotten(r) == IF rec # None /\ rec.count > r.count THEN rec.count - r.count ELSE 0

-----------------------------------------------------------------------------
(* A post: the handler, then FireEventMonitor on a goroutine of its own *)

\* The handler finds the monitor and that it is not paused, answers, and
\* starts the goroutine.
Deliver(p) ==
    /\ g[p] = "new" /\ rec # None /\ ~rec.paused
    /\ Goto(p, "enter")
    /\ UNCHANGED <<rec, firing, carry, copy, ownerVars, crashes, histVars>>

\* Variant: a fire starts although one is running.
EnterAlways(p) ==
    /\ g[p] = "enter"
    /\ arrived' = Append(arrived, p)
    /\ firing' = <<>>
    /\ carry' = [carry EXCEPT ![p] = <<p>>]
    /\ Goto(p, "check")
    /\ UNCHANGED <<rec, copy, ownerVars, crashes, fate, woken, fires, uncounted>>

\* Variant: what a running fire may hold is one more.
EnterOffByOne(p) ==
    /\ g[p] = "enter"
    /\ arrived' = Append(arrived, p)
    /\ IF firing = None
          THEN /\ firing' = <<>>
               /\ carry' = [carry EXCEPT ![p] = <<p>>]
               /\ Goto(p, "check") /\ UNCHANGED fate
          ELSE /\ Goto(p, "done") /\ UNCHANGED carry
               /\ IF Len(firing) <= QueueMax
                     THEN firing' = Append(firing, p) /\ UNCHANGED fate
                     ELSE Settle({p}, "full") /\ UNCHANGED firing
    /\ UNCHANGED <<rec, copy, ownerVars, crashes, woken, fires, uncounted>>

\* The first critical section: start a fire, or be held behind the one that
\* is running.
Enter(p) ==
    /\ g[p] = "enter"
    /\ arrived' = Append(arrived, p)
    /\ IF firing = None
          THEN /\ firing' = <<>>
               /\ carry' = [carry EXCEPT ![p] = <<p>>]
               /\ Goto(p, "check") /\ UNCHANGED fate
          ELSE /\ Goto(p, "done") /\ UNCHANGED carry
               /\ IF Len(firing) < QueueMax
                     THEN firing' = Append(firing, p) /\ UNCHANGED fate
                     ELSE Settle({p}, "full") /\ UNCHANGED firing
    /\ UNCHANGED <<rec, copy, ownerVars, crashes, woken, fires, uncounted>>

\* Variant: the allowance is not looked at before the turn.
CheckPausedOnly(p) ==
    /\ g[p] = "check"
    /\ copy' = [copy EXCEPT ![p] = rec]
    /\ IF rec # None /\ rec.paused
          THEN Goto(p, "leave") /\ Settle(Range(carry[p]), "refused")
          ELSE Goto(p, IF rec = None THEN "wake" ELSE "touch") /\ UNCHANGED fate
    /\ UNCHANGED <<rec, firing, carry, ownerVars, crashes, arrived, woken, fires,
                   uncounted>>

\* The top of the loop: a monitor that is stopped or has used its fires fires
\* no more, and what this goroutine holds is dropped.  A record that is gone
\* stops nothing.
Check(p) ==
    /\ g[p] = "check"
    /\ copy' = [copy EXCEPT ![p] = rec]
    /\ IF rec # None /\ (FiredOut(rec) \/ rec.paused)
          THEN Goto(p, "leave") /\ Settle(Range(carry[p]), "refused")
          ELSE Goto(p, IF rec = None THEN "wake" ELSE "touch") /\ UNCHANGED fate
    /\ UNCHANGED <<rec, firing, carry, ownerVars, crashes, arrived, woken, fires,
                   uncounted>>

\* LastFired is saved, with the rest of the record as it was read.
Touch(p) ==
    /\ g[p] = "touch" /\ Goto(p, "wake")
    /\ Save(copy[p]) /\ uncounted' = uncounted + Forgotten(copy[p])
    /\ UNCHANGED <<firing, carry, copy, ownerVars, crashes, fate, arrived, woken,
                   fires>>

\* fireWake: the waker runs the agent's turn, and delivers or fails to.
Wake(p) ==
    /\ g[p] = "wake" /\ Goto(p, "settle")
    /\ Settle(Range(carry[p]), "woken")
    /\ woken' = woken \o carry[p]
    /\ fires' = fires + 1
    /\ uncounted' = IF copy[p] = None THEN uncounted + 1 ELSE uncounted
    /\ UNCHANGED <<rec, firing, carry, copy, ownerVars, crashes, arrived>>

\* The record is read again after the turn; one that is gone counts nothing.
SettleGet(p) ==
    /\ g[p] = "settle"
    /\ copy' = [copy EXCEPT ![p] = rec]
    /\ Goto(p, IF rec = None THEN "take" ELSE "count")
    /\ uncounted' = IF rec = None /\ copy[p] # None THEN uncounted + 1 ELSE uncounted
    /\ UNCHANGED <<rec, firing, carry, ownerVars, crashes, fate, arrived, woken,
                   fires>>

\* FireCount is incremented and saved.
Count(p) ==
    /\ g[p] = "count"
    /\ LET new == [copy[p] EXCEPT !.count = @ + 1]
       IN /\ Save(new)
          /\ uncounted' = uncounted + (IF rec = None THEN 0
                                       ELSE rec.count - copy[p].count)
          /\ Goto(p, IF FiredOut(new) THEN "stop" ELSE "take")
    /\ UNCHANGED <<firing, carry, copy, ownerVars, crashes, fate, arrived, woken,
                   fires>>

\* StopEventMonitor of a monitor that has used its fires.
StopGet(p) ==
    /\ g[p] = "stop"
    /\ copy' = [copy EXCEPT ![p] = rec]
    /\ Goto(p, IF rec = None \/ rec.paused THEN "take" ELSE "stopSave")
    /\ UNCHANGED <<rec, firing, carry, ownerVars, crashes, histVars>>

StopSave(p) ==
    /\ g[p] = "stopSave" /\ Goto(p, "take")
    /\ Save([copy[p] EXCEPT !.paused = TRUE])
    /\ uncounted' = uncounted + Forgotten(copy[p])
    /\ UNCHANGED <<firing, carry, copy, ownerVars, crashes, fate, arrived, woken,
                   fires>>

\* Variant: the posts held are delivered newest first.
TakeNewestFirst(p) ==
    /\ g[p] = "take"
    /\ carry' = [carry EXCEPT ![p] = Reverse(firing)]
    /\ firing' = <<>>
    /\ Goto(p, IF firing = <<>> THEN "leave" ELSE "check")
    /\ UNCHANGED <<rec, copy, ownerVars, crashes, histVars>>

\* Variant: a fire that ends takes nothing on.
TakeNothing(p) ==
    /\ g[p] = "take"
    /\ carry' = [carry EXCEPT ![p] = <<>>]
    /\ firing' = <<>>
    /\ Goto(p, "leave")
    /\ UNCHANGED <<rec, copy, ownerVars, crashes, histVars>>

\* The posts held meanwhile are taken for the next fire.
Take(p) ==
    /\ g[p] = "take"
    /\ carry' = [carry EXCEPT ![p] = firing]
    /\ firing' = <<>>
    /\ Goto(p, IF firing = <<>> THEN "leave" ELSE "check")
    /\ UNCHANGED <<rec, copy, ownerVars, crashes, histVars>>

\* The key is deleted, with whatever was held since the loop looked last.
Leave(p) ==
    /\ g[p] = "leave" /\ Goto(p, "done")
    /\ firing' = None
    /\ Settle(Range(firing), "lost")
    /\ carry' = [carry EXCEPT ![p] = <<>>]
    /\ copy' = [copy EXCEPT ![p] = None]
    /\ UNCHANGED <<rec, ownerVars, crashes, arrived, woken, fires, uncounted>>

-----------------------------------------------------------------------------
(* The owner *)

\* Pause and resume from the console: the record is read ...
Request(op) ==
    /\ owner.op = "none" /\ rec # None /\ ops < MaxOps /\ ops' = ops + 1
    /\ owner' = [op |-> op, read |-> rec]
    /\ UNCHANGED <<rec, fireVars, crashes, histVars>>

\* ... and saved.
PauseSave ==
    /\ owner.op = "pause"
    /\ Save([owner.read EXCEPT !.paused = TRUE])
    /\ uncounted' = uncounted + Forgotten(owner.read)
    /\ owner' = [op |-> "none", read |-> None]
    /\ UNCHANGED <<fireVars, ops, crashes, fate, arrived, woken, fires>>

\* A resume restarts an allowance that was used up.
ResumeSave ==
    /\ owner.op = "resume"
    /\ LET used == FiredOut(owner.read)
       IN /\ Save([Rearmed(owner.read) EXCEPT !.paused = FALSE])
          /\ fires' = IF used THEN 0 ELSE fires
          /\ uncounted' = IF used THEN 0 ELSE uncounted + Forgotten(owner.read)
    /\ owner' = [op |-> "none", read |-> None]
    /\ UNCHANGED <<fireVars, ops, crashes, fate, arrived, woken>>

DeleteEventMonitor ==
    /\ owner.op = "none" /\ rec # None /\ ops < MaxOps /\ ops' = ops + 1
    /\ rec' = None
    /\ UNCHANGED <<fireVars, owner, crashes, histVars>>

-----------------------------------------------------------------------------
\* The process dies and comes back: only the record is kept.
Crash ==
    /\ crashes < MaxCrash /\ crashes' = crashes + 1
    /\ \E p \in Post : g[p] \notin {"new", "done"}
    /\ LET held  == IF firing = None THEN {} ELSE Range(firing)
           going == {p \in Post : g[p] = "enter"}
                    \cup UNION {Range(carry[p]) : p \in {q \in Post : g[q] \in {"check", "touch", "wake"}}}
       IN Settle(held \cup going, "crashed")
    /\ uncounted' = uncounted
                    + Cardinality({p \in Post : g[p] \in {"settle", "count"}})
    /\ firing' = None
    /\ g' = [p \in Post |-> IF g[p] = "new" THEN "new" ELSE "done"]
    /\ carry' = [p \in Post |-> <<>>] /\ copy' = [p \in Post |-> None]
    /\ owner' = [op |-> "none", read |-> None]
    /\ UNCHANGED <<rec, ops, arrived, woken, fires>>

-----------------------------------------------------------------------------
Fire(p) ==
    \/ Enter(p) \/ Check(p) \/ Touch(p) \/ Wake(p) \/ SettleGet(p) \/ Count(p)
    \/ StopGet(p) \/ StopSave(p) \/ Take(p) \/ Leave(p)

FireStep == \E p \in Post : Fire(p)

Next ==
    \/ FireStep
    \/ \E p \in Post : Deliver(p)
    \/ \E op \in {"pause", "resume"} : Request(op)
    \/ PauseSave \/ ResumeSave \/ DeleteEventMonitor
    \/ Crash

Spec == Init /\ [][Next]_vars

\* Some goroutine that can run does, and the turn a waker runs ends: its
\* rounds and the model's calls are bounded.  Each post's goroutine takes a
\* bounded number of steps, so no fairness between them is needed.
Fairness == WF_vars(FireStep)

FairSpec == Spec /\ Fairness

-----------------------------------------------------------------------------
(* Properties *)

Firing == {p \in Post : g[p] \in Pc \ {"new", "enter", "done"}}

\* "One fire per monitor at a time": one goroutine is past the first critical
\* section, and the firing set has the key exactly while there is one.
OneFireAtATime ==
    /\ \A p, q \in Firing : p = q
    /\ firing = None <=> Firing = {}

\* "Posts that arrive while one runs are held and delivered together as the
\* next fire": posts are delivered in the order they arrived, none of them
\* twice.
DeliveredInOrder ==
    /\ IsInjective(woken)
    /\ \A i, j \in 1..Len(woken) : i < j =>
          \E k, l \in 1..Len(arrived) :
              k < l /\ arrived[k] = woken[i] /\ arrived[l] = woken[j]

\* "A monitor that has used its fires fires no more", however posts, the owner
\* and the fires' own saves interleave: the allowance is exceeded only by the
\* fires whose count a crash or an overlapping save of the record made it
\* forget.
FiresWithinLimit == MaxFires > 0 => fires <= MaxFires + uncounted

\* A post that got its goroutine is delivered, refused by a stopped monitor,
\* or lost in one of the named ways; it does not stay held.
PostsSettle == \A p \in Post : g[p] = "enter" ~> fate[p] # "none"

\* "Posts that arrive while one runs are held and delivered together as the
\* next fire, so a burst costs one more turn, not one each, and none of them
\* is lost."
NoneLost == \A p \in Post : fate[p] # "lost"
=============================================================================
