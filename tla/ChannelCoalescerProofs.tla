----------------------- MODULE ChannelCoalescerProofs -----------------------
(***************************************************************************)
(* The coalescer's safety properties for any number of messages and        *)
(* speakers.  The inductive invariant says who drives the batch in the     *)
(* slot: exactly one caller leads it or runs it under its generation, all  *)
(* other runs carry a lower generation and were cancelled, and the batch   *)
(* holds every message that nobody has answered yet and whose caller has   *)
(* given up control of it.  None of that survives a slip (a run that       *)
(* outlives its successor, a wait that runs out), so it is claimed before  *)
(* the first one only.                                                     *)
(***************************************************************************)
EXTENDS ChannelCoalescer, TLAPS

\* What is in the slot was said by the person whose handle it carries.
PendingOneSpeaker ==
    slot # None =>
        \A m \in slot.pending.text : From[m] = slot.pending.handle

\* An empty slot means that nobody leads and nothing runs.
EmptyIsFree ==
    slot = None => \A m \in Message : pc[m] \notin {"leading", "running"}

HasLeader == slot # None => \E l \in Message : Leads(l)

\* One caller at most waits out a window, and only while the batch collects.
OneCollector ==
    /\ \A m \in Message : pc[m] = "leading" => Collecting
    /\ \A k, l \in Message : pc[k] = "leading" /\ pc[l] = "leading" => k = l

\* A run has the batch's generation and is the one its cancel stops, or a
\* lower one and was cancelled.
RunsAreKnown ==
    \A m \in Message : pc[m] = "running" /\ slot # None =>
        \/ /\ Current(m) /\ slot.phase = "running"
           /\ slot.cancel = m /\ turn[m].text = slot.pending.text
        \/ myGen[m] < slot.gen /\ cancelled[m]

\* The batch holds the messages of those who lead or run, none of those who
\* have yet to hand theirs over, and none that was answered.
BatchHolds ==
    slot # None => \A m \in Message :
        /\ pc[m] \in {"leading", "running"} => m \in slot.pending.text
        /\ pc[m] \in {"idle", "waiting"} => m \notin slot.pending.text
        /\ m \in slot.pending.text => \A k \in Message : m \notin reply[k]

\* Replies come from those who are done, and to messages that were handed over.
RepliesAreDone ==
    /\ \A m \in Message : pc[m] # "done" => reply[m] = {}
    /\ \A m, k \in Message : pc[m] \in {"idle", "waiting"} => m \notin reply[k]

Handed == \A m \in Message : pc[m] = "done" =>
    \/ \E k \in Message : m \in reply[k]
    \/ slot # None /\ m \in slot.pending.text

Disjoint == \A k, l \in Message : k # l => reply[k] \cap reply[l] = {}

Orderly ==
    /\ EmptyIsFree
    /\ HasLeader
    /\ OneCollector
    /\ RunsAreKnown
    /\ BatchHolds
    /\ RepliesAreDone
    /\ Handed
    /\ Disjoint

IInv ==
    /\ TypeOK
    /\ OneSpeaker
    /\ PendingOneSpeaker
    /\ ~slipped => Orderly

-----------------------------------------------------------------------------

\* A fresh batch is a batch.
LEMMA FreshIsState ==
  ASSUME NEW m \in Message
  PROVE  Fresh(m) \in State
<1>1. Single(m) \in Inbound
  BY CoalescerAssumption DEF Single, Inbound
<1> QED
  BY <1>1 DEF Fresh, State

\* Merging adds a message to a batch and leaves it well formed.
LEMMA MergedIsInbound ==
  ASSUME slot \in State, NEW m \in Message
  PROVE  MergeInbound(slot.pending, m) \in Inbound
  BY DEF MergeInbound, State, Inbound

\* A fresh batch in a free slot keeps the invariant.
LEMMA OpenKeeps ==
  ASSUME IInv, NEW m \in Message, Open(m)
  PROVE  IInv'
<1> USE CoalescerAssumption
<1>1. TypeOK'
  BY DEF IInv, TypeOK, State, Inbound, Open, Goes, Fresh, Single
<1>2. OneSpeaker' /\ PendingOneSpeaker'
  BY DEF IInv, OneSpeaker, PendingOneSpeaker, TypeOK, State, Inbound, Open,
     Goes, Fresh, Single
<1>3. ASSUME ~slipped' PROVE Orderly'
  <2>1. ~slipped /\ Orderly /\ TypeOK
    BY <1>3 DEF IInv, Open
  <2>2. slot' \in State /\ slot' # None /\ slot'.phase = "collecting"
    BY FreshIsState, CoalescerAssumption DEF Open, Fresh
  <2>3. EmptyIsFree'
    BY <2>2 DEF EmptyIsFree
  <2>4. HasLeader'
    BY <2>1 DEF Orderly, HasLeader, Leads, Current, EmptyIsFree,
       OneCollector, TypeOK, State, Inbound, Open, Goes, Fresh, Single
  <2>5. OneCollector'
    BY <2>2, <2>1 DEF Orderly, EmptyIsFree, OneCollector, Collecting,
       TypeOK, Open, Goes
  <2>6. RunsAreKnown'
    BY <2>1 DEF Orderly, RunsAreKnown, Current, EmptyIsFree, OneCollector,
       Collecting, TypeOK, State, Inbound, Open, Goes, Fresh, Single
  <2>7. BatchHolds'
    BY <2>1 DEF Orderly, BatchHolds, RepliesAreDone, EmptyIsFree, TypeOK,
       State, Inbound, Open, Goes, Fresh, Single
  <2>8. RepliesAreDone'
    BY <2>1 DEF Orderly, RepliesAreDone, BatchHolds, RunsAreKnown, Current,
       TypeOK, State, Inbound, Open, Goes, Fresh, Single
  <2>9. Handed'
    BY <2>1 DEF Orderly, Handed, BatchHolds, RepliesAreDone, RunsAreKnown,
       Current, EmptyIsFree, TypeOK, State, Inbound, Open, Goes, Fresh,
       Single
  <2>10. Disjoint'
    BY <2>1 DEF Orderly, Disjoint, BatchHolds, RunsAreKnown, Current, TypeOK,
       State, Inbound, Open, Goes, Fresh, Single
  <2> QED
    BY <2>3, <2>4, <2>5, <2>6, <2>7, <2>8, <2>9, <2>10 DEF Orderly
<1> QED
  BY <1>1, <1>2, <1>3 DEF IInv

\* A message folded into a batch that collects keeps the invariant.
LEMMA MergeKeeps ==
  ASSUME IInv, NEW m \in Message, Merge(m)
  PROVE  IInv'
<1> USE CoalescerAssumption
<1>1. TypeOK'
  BY DEF IInv, TypeOK, State, Inbound, Merge, Goes, Own, SameSpeaker,
     Collecting, MergeInbound
<1>2. OneSpeaker' /\ PendingOneSpeaker'
  BY DEF IInv, OneSpeaker, PendingOneSpeaker, TypeOK, State, Inbound, Merge,
     Goes, Own, SameSpeaker, Collecting, MergeInbound
<1>3. ASSUME ~slipped' PROVE Orderly'
  <2>1. ~slipped /\ Orderly /\ TypeOK
    BY <1>3 DEF IInv, Merge
  <2>2. /\ slot' \in State /\ slot' # None /\ slot'.phase = "collecting"
        /\ slot'.pending.text = slot.pending.text \cup {m}
    <3>1. slot \in State
      BY <2>1 DEF TypeOK, State, Merge, Collecting
    <3>2. MergeInbound(slot.pending, m) \in Inbound
      BY <3>1, MergedIsInbound
    <3>3. slot' \in State
      BY <3>1, <3>2 DEF Merge, State
    <3>4. slot'.phase = "collecting" /\ slot'.pending.text = slot.pending.text \cup {m}
      BY <3>1 DEF Merge, State, Inbound, MergeInbound, Collecting
    <3> QED
      BY <3>3, <3>4, CoalescerAssumption
  <2>3. EmptyIsFree'
    BY <2>2 DEF EmptyIsFree
  <2>4. HasLeader'
    BY <2>1 DEF Orderly, HasLeader, Leads, Current, EmptyIsFree,
       OneCollector, TypeOK, State, Inbound, Merge, Goes, Own, SameSpeaker,
       Collecting, MergeInbound
  <2>5. OneCollector'
    <3>1. \A k \in Message : pc'[k] = "leading" => pc[k] = "leading"
      BY <2>1 DEF TypeOK, Merge, Goes
    <3> QED
      BY <2>2, <2>1, <3>1 DEF Orderly, OneCollector, Collecting
  <2>6. RunsAreKnown'
    BY <2>1 DEF Orderly, RunsAreKnown, Current, EmptyIsFree, OneCollector,
       Collecting, TypeOK, State, Inbound, Merge, Goes, Own, SameSpeaker,
       MergeInbound
  <2>7. BatchHolds'
    BY <2>1 DEF Orderly, BatchHolds, RepliesAreDone, EmptyIsFree, TypeOK,
       State, Inbound, Merge, Goes, Own, SameSpeaker, Collecting,
       MergeInbound
  <2>8. RepliesAreDone'
    BY <2>1 DEF Orderly, RepliesAreDone, BatchHolds, RunsAreKnown, Current,
       TypeOK, State, Inbound, Merge, Goes, Own, SameSpeaker, Collecting,
       MergeInbound
  <2>9. Handed'
    <3>1. \A k \in Message : pc'[k] = "done" => k = m \/ pc[k] = "done"
      BY <2>1 DEF TypeOK, Merge, Goes
    <3>2. UNCHANGED reply /\ slot # None
      BY DEF Merge, Collecting
    <3> QED
      BY <2>1, <2>2, <3>1, <3>2 DEF Orderly, Handed
  <2>10. Disjoint'
    BY <2>1 DEF Orderly, Disjoint, BatchHolds, RunsAreKnown, Current, TypeOK,
       State, Inbound, Merge, Goes, Own, SameSpeaker, Collecting,
       MergeInbound
  <2> QED
    BY <2>3, <2>4, <2>5, <2>6, <2>7, <2>8, <2>9, <2>10 DEF Orderly
<1> QED
  BY <1>1, <1>2, <1>3 DEF IInv

\* A message of somebody else, which waits, keeps the invariant.
LEMMA DeferKeeps ==
  ASSUME IInv, NEW m \in Message, Defer(m)
  PROVE  IInv'
<1> USE CoalescerAssumption
<1>1. TypeOK'
  BY DEF IInv, TypeOK, State, Inbound, Defer, Goes, Own, SameSpeaker,
     Collecting
<1>2. OneSpeaker' /\ PendingOneSpeaker'
  BY DEF IInv, OneSpeaker, PendingOneSpeaker, TypeOK, State, Inbound, Defer,
     Goes, Own, SameSpeaker, Collecting
<1>3. ASSUME ~slipped' PROVE Orderly'
  <2>1. ~slipped /\ Orderly /\ TypeOK
    BY <1>3 DEF IInv, Defer
  <2>2. EmptyIsFree'
    BY <2>1 DEF Orderly, EmptyIsFree, TypeOK, State, Inbound, Defer, Goes,
       Own, SameSpeaker, Collecting
  <2>3. HasLeader'
    BY <2>1 DEF Orderly, HasLeader, Leads, Current, EmptyIsFree,
       OneCollector, TypeOK, State, Inbound, Defer, Goes, Own, SameSpeaker,
       Collecting
  <2>4. OneCollector'
    BY <2>1 DEF Orderly, OneCollector, Collecting, EmptyIsFree, HasLeader,
       Leads, TypeOK, State, Inbound, Defer, Goes, Own, SameSpeaker
  <2>5. RunsAreKnown'
    BY <2>1 DEF Orderly, RunsAreKnown, Current, EmptyIsFree, OneCollector,
       Collecting, TypeOK, State, Inbound, Defer, Goes, Own, SameSpeaker
  <2>6. BatchHolds'
    BY <2>1 DEF Orderly, BatchHolds, RepliesAreDone, EmptyIsFree, TypeOK,
       State, Inbound, Defer, Goes, Own, SameSpeaker, Collecting
  <2>7. RepliesAreDone'
    BY <2>1 DEF Orderly, RepliesAreDone, BatchHolds, RunsAreKnown, Current,
       TypeOK, State, Inbound, Defer, Goes, Own, SameSpeaker, Collecting
  <2>8. Handed'
    BY <2>1 DEF Orderly, Handed, BatchHolds, RepliesAreDone, RunsAreKnown,
       Current, EmptyIsFree, TypeOK, State, Inbound, Defer, Goes, Own,
       SameSpeaker, Collecting
  <2>9. Disjoint'
    BY <2>1 DEF Orderly, Disjoint, BatchHolds, RunsAreKnown, Current, TypeOK,
       State, Inbound, Defer, Goes, Own, SameSpeaker, Collecting
  <2> QED
    BY <2>2, <2>3, <2>4, <2>5, <2>6, <2>7, <2>8, <2>9 DEF Orderly
<1> QED
  BY <1>1, <1>2, <1>3 DEF IInv

\* A message that takes its own running turn over keeps the invariant.
LEMMA SupersedeKeeps ==
  ASSUME IInv, NEW m \in Message, Supersede(m)
  PROVE  IInv'
<1> USE CoalescerAssumption
<1>1. TypeOK'
  <2>1. slot \in State /\ slot.gen + 1 \in Nat
    BY DEF IInv, TypeOK, State, Supersede, Running
  <2>2. MergeInbound(slot.pending, m) \in Inbound
    BY <2>1, MergedIsInbound
  <2>3. slot' \in State /\ slot'.phase = "collecting"
    BY <2>1, <2>2 DEF State, Supersede
  <2>4. /\ pc' \in [Message -> {"idle", "waiting", "leading", "running", "done"}]
        /\ cancelled' \in [Message -> BOOLEAN]
    BY DEF IInv, TypeOK, Supersede, Goes, CancelRun
  <2> QED
    BY <2>3, <2>4 DEF IInv, TypeOK, Supersede
<1>2. OneSpeaker' /\ PendingOneSpeaker'
  BY DEF IInv, OneSpeaker, PendingOneSpeaker, TypeOK, State, Inbound,
     Supersede, Goes, Own, SameSpeaker, Running, MergeInbound, CancelRun
<1>3. ASSUME ~slipped' PROVE Orderly'
  <2>1. ~slipped /\ Orderly /\ TypeOK
    BY <1>3 DEF IInv, Supersede
  <2>2. /\ slot' \in State /\ slot' # None /\ slot'.phase = "collecting"
        /\ slot'.pending.text = slot.pending.text \cup {m}
    <3>1. slot \in State /\ slot.gen + 1 \in Nat
      BY <2>1 DEF TypeOK, State, Supersede, Running
    <3>2. MergeInbound(slot.pending, m) \in Inbound
      BY <3>1, MergedIsInbound
    <3>3. slot' \in State
      BY <3>1, <3>2 DEF Supersede, State
    <3>4. slot'.phase = "collecting" /\ slot'.pending.text = slot.pending.text \cup {m}
      BY <3>1 DEF Supersede, State, Inbound, MergeInbound, Running
    <3> QED
      BY <3>3, <3>4, CoalescerAssumption
  <2>3. EmptyIsFree'
    BY <2>2 DEF EmptyIsFree
  <2>4. HasLeader'
    BY <2>1 DEF Orderly, HasLeader, Leads, Current, EmptyIsFree,
       OneCollector, TypeOK, State, Inbound, Supersede, Goes, Own,
       SameSpeaker, Running, MergeInbound, CancelRun
  <2>5. OneCollector'
    <3>1. \A k \in Message : pc'[k] = "leading" => k = m
      BY <2>1 DEF Orderly, OneCollector, Collecting, Running, TypeOK,
         Supersede, Goes
    <3> QED
      BY <2>2, <3>1 DEF OneCollector, Collecting
  <2>6. RunsAreKnown'
    BY <2>1 DEF Orderly, RunsAreKnown, Current, EmptyIsFree, OneCollector,
       Collecting, TypeOK, State, Inbound, Supersede, Goes, Own, SameSpeaker,
       Running, MergeInbound, CancelRun
  <2>7. BatchHolds'
    BY <2>1 DEF Orderly, BatchHolds, RepliesAreDone, EmptyIsFree, TypeOK,
       State, Inbound, Supersede, Goes, Own, SameSpeaker, Running,
       MergeInbound, CancelRun
  <2>8. RepliesAreDone'
    BY <2>1 DEF Orderly, RepliesAreDone, BatchHolds, RunsAreKnown, Current,
       TypeOK, State, Inbound, Supersede, Goes, Own, SameSpeaker, Running,
       MergeInbound, CancelRun
  <2>9. Handed'
    <3>1. \A k \in Message : pc'[k] = "done" => pc[k] = "done"
      BY <2>1 DEF TypeOK, Supersede, Goes
    <3>2. UNCHANGED reply /\ slot # None
      BY DEF Supersede, Running
    <3> QED
      BY <2>1, <2>2, <3>1, <3>2 DEF Orderly, Handed
  <2>10. Disjoint'
    BY <2>1 DEF Orderly, Disjoint, BatchHolds, RunsAreKnown, Current, TypeOK,
       State, Inbound, Supersede, Goes, Own, SameSpeaker, Running,
       MergeInbound, CancelRun
  <2> QED
    BY <2>3, <2>4, <2>5, <2>6, <2>7, <2>8, <2>9, <2>10 DEF Orderly
<1> QED
  BY <1>1, <1>2, <1>3 DEF IInv

\* A wait that runs out keeps the invariant.
LEMMA TakeSlotKeeps ==
  ASSUME IInv, NEW m \in Message, TakeSlot(m)
  PROVE  IInv'
<1> USE CoalescerAssumption
<1>1. TypeOK'
  BY DEF IInv, TypeOK, State, Inbound, TakeSlot, Goes, Fresh, Single,
     CancelRun
<1>2. OneSpeaker' /\ PendingOneSpeaker'
  BY DEF IInv, OneSpeaker, PendingOneSpeaker, TypeOK, State, Inbound,
     TakeSlot, Goes, Fresh, Single, CancelRun
<1>3. ASSUME ~slipped' PROVE Orderly'
  BY <1>3 DEF TakeSlot
<1> QED
  BY <1>1, <1>2, <1>3 DEF IInv

\* A batch that is dispatched keeps the invariant.
LEMMA PromoteKeeps ==
  ASSUME IInv, NEW m \in Message, Promote(m)
  PROVE  IInv'
<1> USE CoalescerAssumption
<1>1. TypeOK'
  BY DEF IInv, TypeOK, State, Inbound, Promote, Goes
<1>2. OneSpeaker' /\ PendingOneSpeaker'
  BY DEF IInv, OneSpeaker, PendingOneSpeaker, TypeOK, State, Inbound,
     Promote, Goes
<1>3. ASSUME ~slipped' PROVE Orderly'
  <2>1. ~slipped /\ Orderly /\ TypeOK
    BY <1>3 DEF IInv, Promote
  <2>2. EmptyIsFree'
    BY <2>1 DEF Orderly, EmptyIsFree, TypeOK, State, Inbound, Promote, Goes
  <2>3. HasLeader'
    BY <2>1 DEF Orderly, HasLeader, Leads, Current, EmptyIsFree,
       OneCollector, TypeOK, State, Inbound, Promote, Goes
  <2>4. OneCollector'
    BY <2>1 DEF Orderly, OneCollector, Collecting, EmptyIsFree, HasLeader,
       Leads, TypeOK, State, Inbound, Promote, Goes
  <2>5. RunsAreKnown'
    BY <2>1 DEF Orderly, RunsAreKnown, Current, EmptyIsFree, OneCollector,
       Collecting, TypeOK, State, Inbound, Promote, Goes
  <2>6. BatchHolds'
    BY <2>1 DEF Orderly, BatchHolds, RepliesAreDone, EmptyIsFree, TypeOK,
       State, Inbound, Promote, Goes
  <2>7. RepliesAreDone'
    BY <2>1 DEF Orderly, RepliesAreDone, BatchHolds, RunsAreKnown, Current,
       TypeOK, State, Inbound, Promote, Goes
  <2>8. Handed'
    BY <2>1 DEF Orderly, Handed, BatchHolds, RepliesAreDone, RunsAreKnown,
       Current, EmptyIsFree, TypeOK, State, Inbound, Promote, Goes
  <2>9. Disjoint'
    BY <2>1 DEF Orderly, Disjoint, BatchHolds, RunsAreKnown, Current, TypeOK,
       State, Inbound, Promote, Goes
  <2> QED
    BY <2>2, <2>3, <2>4, <2>5, <2>6, <2>7, <2>8, <2>9 DEF Orderly
<1> QED
  BY <1>1, <1>2, <1>3 DEF IInv

\* A leader whose batch is gone keeps the invariant.
LEMMA LeadGoneKeeps ==
  ASSUME IInv, NEW m \in Message, LeadGone(m)
  PROVE  IInv'
<1> USE CoalescerAssumption
<1>1. TypeOK'
  BY DEF IInv, TypeOK, State, Inbound, LeadGone, Goes
<1>2. OneSpeaker' /\ PendingOneSpeaker'
  BY DEF IInv, OneSpeaker, PendingOneSpeaker, TypeOK, State, Inbound,
     LeadGone, Goes
<1>3. ASSUME ~slipped' PROVE Orderly'
  <2>1. ~slipped /\ Orderly /\ TypeOK
    BY <1>3 DEF IInv, LeadGone
  <2>2. EmptyIsFree'
    BY <2>1 DEF Orderly, EmptyIsFree, TypeOK, State, Inbound, LeadGone, Goes
  <2>3. HasLeader'
    BY <2>1 DEF Orderly, HasLeader, Leads, Current, EmptyIsFree,
       OneCollector, TypeOK, State, Inbound, LeadGone, Goes
  <2>4. OneCollector'
    BY <2>1 DEF Orderly, OneCollector, Collecting, EmptyIsFree, HasLeader,
       Leads, TypeOK, State, Inbound, LeadGone, Goes
  <2>5. RunsAreKnown'
    BY <2>1 DEF Orderly, RunsAreKnown, Current, EmptyIsFree, OneCollector,
       Collecting, TypeOK, State, Inbound, LeadGone, Goes
  <2>6. BatchHolds'
    BY <2>1 DEF Orderly, BatchHolds, RepliesAreDone, EmptyIsFree, TypeOK,
       State, Inbound, LeadGone, Goes
  <2>7. RepliesAreDone'
    BY <2>1 DEF Orderly, RepliesAreDone, BatchHolds, RunsAreKnown, Current,
       TypeOK, State, Inbound, LeadGone, Goes
  <2>8. Handed'
    BY <2>1 DEF Orderly, Handed, BatchHolds, RepliesAreDone, RunsAreKnown,
       Current, EmptyIsFree, TypeOK, State, Inbound, LeadGone, Goes
  <2>9. Disjoint'
    BY <2>1 DEF Orderly, Disjoint, BatchHolds, RunsAreKnown, Current, TypeOK,
       State, Inbound, LeadGone, Goes
  <2> QED
    BY <2>2, <2>3, <2>4, <2>5, <2>6, <2>7, <2>8, <2>9 DEF Orderly
<1> QED
  BY <1>1, <1>2, <1>3 DEF IInv

\* A run that returns the reply of its batch keeps the invariant.
LEMMA ReturnKeeps ==
  ASSUME IInv, NEW m \in Message, Return(m)
  PROVE  IInv'
<1> USE CoalescerAssumption
<1>1. TypeOK'
  BY DEF IInv, TypeOK, State, Inbound, Return, Goes, Current
<1>2. OneSpeaker' /\ PendingOneSpeaker'
  BY DEF IInv, OneSpeaker, PendingOneSpeaker, TypeOK, State, Inbound,
     Return, Goes, Current
<1>3. ASSUME ~slipped' PROVE Orderly'
  <2>1. ~slipped /\ Orderly /\ TypeOK
    BY <1>3 DEF IInv, Return
  <2>2. EmptyIsFree'
    <3>1. slot.phase = "running"
      BY <2>1 DEF Orderly, RunsAreKnown, Return, Current, TypeOK, State, Inbound
    <3>2. \A k \in Message : pc[k] # "leading"
      BY <2>1, <3>1 DEF Orderly, OneCollector, Collecting
    <3>3. \A k \in Message \ {m} : pc[k] # "running"
      BY <1>3 DEF Return
    <3> QED
      BY <2>1, <3>2, <3>3 DEF EmptyIsFree, TypeOK, Return, Goes
  <2>3. HasLeader'
    BY <2>1, <1>3 DEF Orderly, HasLeader, Leads, Current, EmptyIsFree,
       OneCollector, TypeOK, State, Inbound, Return, Goes
  <2>4. OneCollector'
    BY <2>1, <2>2 DEF EmptyIsFree, OneCollector, Return
  <2>5. RunsAreKnown'
    BY <2>1, <1>3 DEF Orderly, RunsAreKnown, Current, EmptyIsFree,
       OneCollector, Collecting, TypeOK, State, Inbound, Return, Goes
  <2>6. BatchHolds'
    BY <2>1, <1>3 DEF Orderly, BatchHolds, RepliesAreDone, EmptyIsFree,
       TypeOK, State, Inbound, Return, Goes, Current
  <2>7. RepliesAreDone'
    BY <2>1, <1>3 DEF Orderly, RepliesAreDone, BatchHolds, RunsAreKnown,
       Current, TypeOK, State, Inbound, Return, Goes
  <2>8. Handed'
    BY <2>1, <1>3 DEF Orderly, Handed, BatchHolds, RepliesAreDone,
       RunsAreKnown, Current, EmptyIsFree, TypeOK, State, Inbound, Return,
       Goes
  <2>9. Disjoint'
    BY <2>1, <1>3 DEF Orderly, Disjoint, BatchHolds, RunsAreKnown, Current,
       TypeOK, State, Inbound, Return, Goes
  <2> QED
    BY <2>2, <2>3, <2>4, <2>5, <2>6, <2>7, <2>8, <2>9 DEF Orderly
<1> QED
  BY <1>1, <1>2, <1>3 DEF IInv

\* A run that was superseded keeps the invariant.
LEMMA DiscardKeeps ==
  ASSUME IInv, NEW m \in Message, Discard(m)
  PROVE  IInv'
<1> USE CoalescerAssumption
<1>1. TypeOK'
  BY DEF IInv, TypeOK, State, Inbound, Discard, Goes, Current
<1>2. OneSpeaker' /\ PendingOneSpeaker'
  BY DEF IInv, OneSpeaker, PendingOneSpeaker, TypeOK, State, Inbound,
     Discard, Goes, Current
<1>3. ASSUME ~slipped' PROVE Orderly'
  <2>1. ~slipped /\ Orderly /\ TypeOK
    BY <1>3 DEF IInv, Discard
  <2>2. EmptyIsFree'
    BY <2>1 DEF Orderly, EmptyIsFree, TypeOK, State, Inbound, Discard, Goes,
       Current
  <2>3. HasLeader'
    BY <2>1 DEF Orderly, HasLeader, Leads, Current, EmptyIsFree,
       OneCollector, TypeOK, State, Inbound, Discard, Goes
  <2>4. OneCollector'
    BY <2>1 DEF Orderly, OneCollector, Collecting, EmptyIsFree, HasLeader,
       Leads, TypeOK, State, Inbound, Discard, Goes, Current
  <2>5. RunsAreKnown'
    BY <2>1 DEF Orderly, RunsAreKnown, Current, EmptyIsFree, OneCollector,
       Collecting, TypeOK, State, Inbound, Discard, Goes
  <2>6. BatchHolds'
    BY <2>1 DEF Orderly, BatchHolds, RepliesAreDone, EmptyIsFree, TypeOK,
       State, Inbound, Discard, Goes, Current
  <2>7. RepliesAreDone'
    BY <2>1 DEF Orderly, RepliesAreDone, BatchHolds, RunsAreKnown, Current,
       TypeOK, State, Inbound, Discard, Goes
  <2>8. Handed'
    BY <2>1 DEF Orderly, Handed, BatchHolds, RepliesAreDone, RunsAreKnown,
       Current, EmptyIsFree, TypeOK, State, Inbound, Discard, Goes
  <2>9. Disjoint'
    BY <2>1 DEF Orderly, Disjoint, BatchHolds, RunsAreKnown, Current, TypeOK,
       State, Inbound, Discard, Goes
  <2> QED
    BY <2>2, <2>3, <2>4, <2>5, <2>6, <2>7, <2>8, <2>9 DEF Orderly
<1> QED
  BY <1>1, <1>2, <1>3 DEF IInv

\* A window that closes keeps the invariant.
LEMMA WindowElapsesKeeps ==
  ASSUME IInv, WindowElapses
  PROVE  IInv'
<1> USE CoalescerAssumption
<1>1. TypeOK'
  BY DEF IInv, TypeOK, State, Inbound, WindowElapses
<1>2. OneSpeaker' /\ PendingOneSpeaker'
  BY DEF IInv, OneSpeaker, PendingOneSpeaker, TypeOK, State, Inbound,
     WindowElapses
<1>3. ASSUME ~slipped' PROVE Orderly'
  <2>1. ~slipped /\ Orderly /\ TypeOK
    BY <1>3 DEF IInv, WindowElapses
  <2>2. EmptyIsFree'
    BY <2>1 DEF Orderly, EmptyIsFree, TypeOK, State, Inbound, WindowElapses
  <2>3. HasLeader'
    BY <2>1 DEF Orderly, HasLeader, Leads, Current, EmptyIsFree,
       OneCollector, TypeOK, State, Inbound, WindowElapses
  <2>4. OneCollector'
    BY <2>1 DEF Orderly, OneCollector, Collecting, EmptyIsFree, HasLeader,
       Leads, TypeOK, State, Inbound, WindowElapses
  <2>5. RunsAreKnown'
    BY <2>1 DEF Orderly, RunsAreKnown, Current, EmptyIsFree, OneCollector,
       Collecting, TypeOK, State, Inbound, WindowElapses
  <2>6. BatchHolds'
    BY <2>1 DEF Orderly, BatchHolds, RepliesAreDone, EmptyIsFree, TypeOK,
       State, Inbound, WindowElapses
  <2>7. RepliesAreDone'
    BY <2>1 DEF Orderly, RepliesAreDone, BatchHolds, RunsAreKnown, Current,
       TypeOK, State, Inbound, WindowElapses
  <2>8. Handed'
    BY <2>1 DEF Orderly, Handed, BatchHolds, RepliesAreDone, RunsAreKnown,
       Current, EmptyIsFree, TypeOK, State, Inbound, WindowElapses
  <2>9. Disjoint'
    BY <2>1 DEF Orderly, Disjoint, BatchHolds, RunsAreKnown, Current, TypeOK,
       State, Inbound, WindowElapses
  <2> QED
    BY <2>2, <2>3, <2>4, <2>5, <2>6, <2>7, <2>8, <2>9 DEF Orderly
<1> QED
  BY <1>1, <1>2, <1>3 DEF IInv

\* Nothing has come in yet.
LEMMA InitKeeps == Init => IInv
<1> SUFFICES ASSUME Init PROVE IInv
  OBVIOUS
<1> USE CoalescerAssumption
<1>1. TypeOK
  <2>1. \A m \in Message : Single(m) \in Inbound
    BY DEF Single, Inbound
  <2> QED
    BY <2>1 DEF Init, TypeOK
<1>2. OneSpeaker /\ PendingOneSpeaker
  BY DEF Init, OneSpeaker, PendingOneSpeaker, Single
<1>3. EmptyIsFree /\ HasLeader /\ OneCollector /\ RunsAreKnown /\ BatchHolds
  BY DEF Init, EmptyIsFree, HasLeader, OneCollector, RunsAreKnown, BatchHolds
<1>4. RepliesAreDone /\ Handed /\ Disjoint
  BY DEF Init, RepliesAreDone, Handed, Disjoint
<1> QED
  BY <1>1, <1>2, <1>3, <1>4 DEF IInv, Orderly

\* The invariant is inductive: one lemma for every way a goroutine moves.
THEOREM Invariance == Spec => []IInv
<1>1. IInv /\ [Next]_vars => IInv'
  <2> SUFFICES ASSUME IInv, [Next]_vars PROVE IInv'
    OBVIOUS
  <2>1. ASSUME NEW m \in Message,
               Open(m) \/ Merge(m) \/ Defer(m) \/ Supersede(m) \/ TakeSlot(m)
        PROVE  IInv'
    BY <2>1, OpenKeeps, MergeKeeps, DeferKeeps, SupersedeKeeps, TakeSlotKeeps
  <2>2. ASSUME NEW m \in Message, Lead(m) \/ Ran(m)
        PROVE  IInv'
    BY <2>2, PromoteKeeps, LeadGoneKeeps, ReturnKeeps, DiscardKeeps
       DEF Lead, Ran
  <2>3. CASE WindowElapses
    BY <2>3, WindowElapsesKeeps
  <2>4. CASE UNCHANGED vars
    BY <2>4 DEF vars, IInv, TypeOK, OneSpeaker, PendingOneSpeaker, Orderly,
       EmptyIsFree, HasLeader, Leads, Current, OneCollector, Collecting,
       RunsAreKnown, BatchHolds, RepliesAreDone, Handed, Disjoint
  <2> QED
    BY <2>1, <2>2, <2>3, <2>4 DEF Next
<1> QED
  BY <1>1, InitKeeps, PTL DEF Spec

\* The state of a batch stays well formed; a batch that runs has a cancel.
THEOREM TypeCorrect == Spec => []TypeOK
  BY Invariance, PTL DEF IInv

\* No turn of the agent carries one person's words under another's handle
\* (sameSpeaker, which guards every merge), whatever timed out before it.
THEOREM TurnHasOneSpeaker == Spec => []OneSpeaker
  BY Invariance, PTL DEF IInv

\* A message whose Dispatch has returned was answered, or somebody is driving
\* the batch it is in (lead, leadOwn).
THEOREM NobodyIsDropped == Spec => []NobodyDropped
<1>1. IInv => NobodyDropped
  BY DEF IInv, Orderly, NobodyDropped, Carried, Answered, Handed, HasLeader
<1> QED
  BY <1>1, Invariance, PTL

\* However often a turn is superseded, one reply answers each message of it.
THEOREM AnsweredAtMostOnce == Spec => []AnsweredOnce
<1>1. IInv => AnsweredOnce
  BY DEF IInv, Orderly, AnsweredOnce, Disjoint
<1> QED
  BY <1>1, Invariance, PTL

\* Of two turns of a session that run at once one has been cancelled.
THEOREM TurnsAreSerial == Spec => []TurnsTakeTurns
<1>1. IInv => TurnsTakeTurns
  BY DEF IInv, Orderly, TurnsTakeTurns, EmptyIsFree, RunsAreKnown, Current
<1> QED
  BY <1>1, Invariance, PTL
=============================================================================
