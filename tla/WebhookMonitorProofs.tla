------------------------- MODULE WebhookMonitorProofs -------------------------
(***************************************************************************)
(* Proofs about WebhookMonitor for every set of posts, every allowance and *)
(* every length of the held queue: types, one fire at a time, the order in *)
(* which posts reach the agent, and the allowance of fires under           *)
(* overlapping saves of an unguarded record.                               *)
(***************************************************************************)
EXTENDS WebhookMonitor, FiniteSetTheorems, SequenceTheorems, TLAPS

-----------------------------------------------------------------------------
Busy == Pc \ {"new", "enter", "done"}

\* Fires of the allowance that a record has used.
Used(r) == r.count - r.base

\* Whether the turn of a running fire is over and not yet counted.
OwedIn(at, read) ==
    IF \E p \in Post : at[p] = "count" \/ (at[p] = "settle" /\ read[p] # None)
       THEN 1 ELSE 0
Owed == OwedIn(g, copy)

\* A record the running fire has read and will save: the stored one is not
\* ahead of it, its base is not behind, and it accounts for the fires.
Known(p) ==
    /\ copy[p].base <= copy[p].count
    /\ rec # None => rec.count <= copy[p].count /\ copy[p].base <= rec.base
    /\ fires <= Used(copy[p]) + uncounted + Owed
    /\ g[p] \in {"touch", "wake", "settle", "count"} => ~FiredOut(copy[p])
    /\ g[p] = "count" /\ rec # None => copy[p].count - rec.count <= uncounted

CopyInv ==
    \A p \in Post :
        /\ g[p] \in {"touch", "count", "stopSave"} => copy[p] # None
        /\ g[p] \in {"wake", "settle"} /\ copy[p] = None => rec = None
        /\ g[p] \in {"touch", "wake", "settle", "count", "stopSave"} /\ copy[p] # None
              => Known(p)

\* The stored record accounts for the fires, but for the one owed and those
\* that are known to be forgotten.
RecInv ==
    rec # None => rec.base <= rec.count /\ fires <= Used(rec) + uncounted + Owed

\* The record the owner's request read: the stored one is not behind it.
OwnerInv ==
    owner.op # "none" =>
        /\ rec # None /\ owner.read # None
        /\ owner.read.base <= owner.read.count
        /\ owner.read.count <= rec.count /\ rec.base <= owner.read.base
        /\ fires <= rec.count - owner.read.base + uncounted + Owed

IInv ==
    /\ TypeOK /\ OneFireAtATime
    /\ CopyInv /\ RecInv /\ OwnerInv /\ FiresWithinLimit

-----------------------------------------------------------------------------
(* Types, and one fire at a time *)

\* A record read back, changed in one field, is a record.
LEMMA Changed ==
    ASSUME NEW r \in Record
    PROVE  /\ r.count \in Nat /\ r.base \in Nat /\ r # None
           /\ [r EXCEPT !.count = @ + 1] \in Record
           /\ [r EXCEPT !.paused = TRUE] \in Record
           /\ [r EXCEPT !.count = @ + 1].count = r.count + 1
           /\ [r EXCEPT !.count = @ + 1].base = r.base
           /\ [r EXCEPT !.paused = TRUE].count = r.count
           /\ [r EXCEPT !.paused = TRUE].base = r.base
  <1>1. r.count \in Nat /\ r.base \in Nat /\ r # None
    BY NoneAssumption DEF Record
  <1>2. /\ [r EXCEPT !.count = @ + 1] \in Record
        /\ [r EXCEPT !.count = @ + 1].count = r.count + 1
        /\ [r EXCEPT !.count = @ + 1].base = r.base
    BY <1>1 DEF Record
  <1>3. /\ [r EXCEPT !.paused = TRUE] \in Record
        /\ [r EXCEPT !.paused = TRUE].count = r.count
        /\ [r EXCEPT !.paused = TRUE].base = r.base
    BY <1>1 DEF Record
  <1>4. QED
    BY <1>1, <1>2, <1>3

LEMMA RearmedRecord ==
    ASSUME NEW r \in Record
    PROVE  /\ [Rearmed(r) EXCEPT !.paused = FALSE] \in Record
           /\ [Rearmed(r) EXCEPT !.paused = FALSE].count = r.count
           /\ [Rearmed(r) EXCEPT !.paused = FALSE].base = IF FiredOut(r) THEN r.count ELSE r.base
  BY DEF Record, Rearmed

\* What a save forgets.
LEMMA ForgottenNat ==
    ASSUME TypeOK, NEW r \in Record
    PROVE  /\ Forgotten(r) \in Nat
           /\ rec # None /\ rec.count > r.count => Forgotten(r) = rec.count - r.count
           /\ rec # None /\ rec.count <= r.count => Forgotten(r) = 0
           /\ rec = None => Forgotten(r) = 0
  BY Changed DEF Forgotten, TypeOK, Record

LEMMA InitInv == Init => IInv
  <1> SUFFICES ASSUME Init PROVE IInv
    OBVIOUS
  <1> USE WebhookMonitorAssumption, NoneAssumption
  <1>1. TypeOK
    BY DEF Init, TypeOK, Record, Pc, Op, Fate
  <1>2. Owed = 0 /\ \A p \in Post : g[p] = "new"
    BY DEF Init, Owed, OwedIn
  <1>3. OneFireAtATime
    BY DEF Init, OneFireAtATime, Firing
  <1>4. CopyInv /\ OwnerInv
    BY <1>2 DEF Init, CopyInv, OwnerInv
  <1>5. RecInv /\ FiresWithinLimit
    BY <1>2 DEF Init, RecInv, Used, FiresWithinLimit
  <1>6. QED
    BY <1>1, <1>3, <1>4, <1>5 DEF IInv

LEMMA FireTypes ==
    ASSUME IInv, NEW p \in Post, Fire(p)
    PROVE  TypeOK'
  <1> USE DEF TypeOK, Goto, ownerVars, histVars
  <1>1. g[p] \in Busy => firing # None
    BY DEF IInv, OneFireAtATime, Firing, Busy
  <1>2. firing # None => firing \in Seq(Post) /\ Len(firing) \in Nat
    BY DEF IInv
  <1>3. <<>> \in Seq(Post) /\ <<p>> \in Seq(Post) /\ Len(<<>>) <= QueueMax
    BY WebhookMonitorAssumption
  <1>4. \A s \in Seq(Post) : Append(s, p) \in Seq(Post) /\ Len(Append(s, p)) = Len(s) + 1
    OBVIOUS
  <1>5. \A ps, f : f \in Fate /\ Settle(ps, f) => fate' \in [Post -> Fate]
    BY DEF IInv, Settle
  <1>6. \A r \in Record : Forgotten(r) \in Nat
    BY ForgottenNat DEF IInv
  <1>7. CASE Enter(p)
    <2>1. /\ arrived' \in Seq(Post) /\ g' \in [Post -> Pc]
          /\ UNCHANGED <<rec, copy, owner, ops, crashes, woken, fires, uncounted>>
      <3>1. arrived' = Append(arrived, p) /\ arrived \in Seq(Post)
        BY <1>7 DEF Enter, IInv
      <3>2. arrived' \in Seq(Post)
        BY <1>4, <3>1
      <3>3. QED
        BY <1>7, <3>2 DEF Enter, IInv, Pc
    <2>2. /\ firing' \in Seq(Post) \cup {None} /\ (firing' # None => Len(firing') <= QueueMax)
          /\ carry' \in [Post -> Seq(Post)] /\ fate' \in [Post -> Fate]
      <3>1. CASE firing = None
        <4>1. firing' = <<>> /\ carry' = [carry EXCEPT ![p] = <<p>>] /\ fate' = fate
          BY <1>7, <3>1 DEF Enter
        <4>2. QED
          BY <1>3, <4>1 DEF IInv
      <3>2. CASE firing # None /\ Len(firing) < QueueMax
        <4>1. firing' = Append(firing, p) /\ fate' = fate /\ carry' = carry
          BY <1>7, <3>2 DEF Enter
        <4>2. firing' \in Seq(Post) /\ Len(firing') <= QueueMax
          BY <1>2, <1>4, <3>2, <4>1, WebhookMonitorAssumption
        <4>3. QED
          BY <4>1, <4>2 DEF IInv
      <3>3. CASE firing # None /\ ~(Len(firing) < QueueMax)
        <4>1. fate' \in [Post -> Fate] /\ firing' = firing /\ carry' = carry
          BY <1>5, <1>7, <3>3 DEF Enter, Fate
        <4>2. QED
          BY <4>1 DEF IInv
      <3>4. QED
        BY <3>1, <3>2, <3>3
    <2>3. QED
      BY <2>1, <2>2 DEF IInv
  <1>8. CASE Check(p)
    <2>1. fate' \in [Post -> Fate]
      BY <1>5, <1>8 DEF Check, IInv, Fate
    <2>2. g' \in [Post -> Pc]
      BY <1>8 DEF Check, IInv, Pc
    <2>3. QED
      BY <1>8, <2>1, <2>2 DEF Check, IInv
  <1>9. CASE Touch(p)
    <2>1. copy[p] \in Record
      BY <1>9 DEF Touch, IInv, CopyInv
    <2>2. rec' \in Record /\ uncounted' \in Nat
      BY <1>6, <1>9, <2>1 DEF Touch, Save, IInv
    <2>3. QED
      BY <1>9, <2>2 DEF Touch, IInv, Pc
  <1>10. CASE Wake(p)
    <2>1. fate' \in [Post -> Fate]
      BY <1>5, <1>10 DEF Wake, Fate
    <2>2. woken' \in Seq(Post)
      <3>1. woken \in Seq(Post) /\ carry[p] \in Seq(Post)
        BY DEF IInv
      <3>2. QED
        BY <1>10, <3>1, ConcatProperties DEF Wake
    <2>3. QED
      <3>1. fires' \in Nat /\ uncounted' \in Nat /\ g' \in [Post -> Pc]
        BY <1>10 DEF Wake, IInv, Pc
      <3>2. QED
        BY <1>10, <2>1, <2>2, <3>1 DEF Wake, IInv
  <1>11. CASE SettleGet(p)
    BY <1>11 DEF SettleGet, IInv, Pc
  <1>12. CASE Count(p)
    <2>1. copy[p] \in Record
      BY <1>12 DEF Count, IInv, CopyInv
    <2>2. rec' \in Record
      BY <1>12, <2>1, Changed DEF Count, Save
    <2>3. uncounted' \in Nat
      <3>1. CASE rec = None
        BY <1>12, <3>1 DEF Count, IInv
      <3>2. CASE rec # None
        <4>1. rec.count \in Nat /\ copy[p].count \in Nat
          BY <2>1, <3>2, Changed DEF IInv
        <4>2. copy[p].count - rec.count <= uncounted /\ copy[p] # None
          BY <1>12, <3>2 DEF Count, IInv, CopyInv, Known
        <4>3. uncounted \in Nat /\ uncounted' = uncounted + (rec.count - copy[p].count)
          BY <1>12, <3>2 DEF Count, IInv
        <4>4. QED
          BY <4>1, <4>2, <4>3
      <3>3. QED
        BY <3>1, <3>2
    <2>4. g' \in [Post -> Pc]
      BY <1>12 DEF Count, IInv, Pc
    <2>5. QED
      BY <1>12, <2>2, <2>3, <2>4 DEF Count, IInv
  <1>13. CASE StopGet(p)
    BY <1>13 DEF StopGet, IInv, Pc
  <1>14. CASE StopSave(p)
    <2>1. copy[p] \in Record
      BY <1>14 DEF StopSave, IInv, CopyInv
    <2>2. rec' \in Record /\ uncounted' \in Nat
      <3>1. [copy[p] EXCEPT !.paused = TRUE] \in Record /\ Forgotten(copy[p]) \in Nat
        BY <1>6, <2>1, Changed
      <3>2. QED
        BY <1>14, <3>1 DEF StopSave, Save, IInv
    <2>3. QED
      BY <1>14, <2>2 DEF StopSave, IInv, Pc
  <1>15. CASE Take(p)
    <2>1. firing \in Seq(Post)
      BY <1>1, <1>2, <1>15 DEF Take, Busy, Pc
    <2>2. g' \in [Post -> Pc] /\ carry' \in [Post -> Seq(Post)]
      BY <1>15, <2>1 DEF Take, IInv, Pc
    <2>3. QED
      BY <1>3, <1>15, <2>2 DEF Take, IInv
  <1>16. CASE Leave(p)
    <2>1. fate' \in [Post -> Fate]
      BY <1>5, <1>16 DEF Leave, Fate
    <2>2. QED
      BY <1>3, <1>16, <2>1 DEF Leave, IInv, Pc
  <1>17. QED
    BY <1>7, <1>8, <1>9, <1>10, <1>11, <1>12, <1>13, <1>14, <1>15, <1>16 DEF Fire

LEMMA CrashTypes ==
    ASSUME IInv, Crash
    PROVE  TypeOK'
  <1> DEFINE n == Cardinality({p \in Post : g[p] \in {"settle", "count"}})
  <1>1. n \in Nat
    BY WebhookMonitorAssumption, FS_Subset, FS_CardinalityType
  <1>2. uncounted' \in Nat
    BY <1>1 DEF Crash, IInv, TypeOK
  <1>3. fate' \in [Post -> Fate]
    BY DEF Crash, Settle, IInv, TypeOK, Fate
  <1>4. /\ firing' = None /\ g' \in [Post -> Pc] /\ carry' \in [Post -> Seq(Post)]
        /\ copy' \in [Post -> Record \cup {None}]
        /\ owner' \in [op : Op, read : Record \cup {None}]
    BY DEF Crash, IInv, TypeOK, Pc, Op
  <1>5. crashes' \in Nat /\ UNCHANGED <<rec, ops, arrived, woken, fires>>
    BY DEF Crash, IInv, TypeOK
  <1>6. QED
    BY <1>2, <1>3, <1>4, <1>5 DEF IInv, TypeOK

LEMMA OwnerTypes ==
    ASSUME IInv,
           \/ \E op \in {"pause", "resume"} : Request(op)
           \/ PauseSave \/ ResumeSave \/ DeleteEventMonitor
    PROVE  TypeOK'
  <1> USE DEF TypeOK, fireVars, histVars, Op
  <1>1. \A r \in Record : Forgotten(r) \in Nat
    BY ForgottenNat DEF IInv
  <1>2. \A op \in {"pause", "resume"} : Request(op) => TypeOK'
    BY DEF Request, IInv
  <1>3. CASE PauseSave
    <2>1. owner.read \in Record
      BY <1>3 DEF PauseSave, IInv, OwnerInv
    <2>2. rec' \in Record /\ uncounted' \in Nat
      <3>1. [owner.read EXCEPT !.paused = TRUE] \in Record /\ Forgotten(owner.read) \in Nat
        BY <1>1, <2>1, Changed
      <3>2. QED
        BY <1>3, <3>1 DEF PauseSave, Save, IInv
    <2>3. QED
      BY <1>3, <2>2 DEF PauseSave, IInv
  <1>4. CASE ResumeSave
    <2>1. owner.read \in Record
      BY <1>4 DEF ResumeSave, IInv, OwnerInv
    <2>2. rec' \in Record
      BY <1>4, <2>1, RearmedRecord DEF ResumeSave, Save
    <2>3. uncounted' \in Nat /\ fires' \in Nat
      BY <1>1, <1>4, <2>1 DEF ResumeSave, IInv
    <2>4. QED
      BY <1>4, <2>2, <2>3 DEF ResumeSave, IInv
  <1>5. CASE DeleteEventMonitor
    BY <1>5 DEF DeleteEventMonitor, IInv
  <1>6. QED
    BY <1>2, <1>3, <1>4, <1>5

\* No queue of posts is None.
LEMMA QueueNotNone ==
    /\ <<>> # None
    /\ \A s \in Seq(Post), p \in Post : Append(s, p) \in Seq(Post) /\ Append(s, p) # None
  <1>1. <<>> \in Seq(Post)
    OBVIOUS
  <1>2. \A s \in Seq(Post), p \in Post : Append(s, p) \in Seq(Post)
    OBVIOUS
  <1>3. QED
    BY <1>1, <1>2, NoneAssumption

\* The firing set has the key while one goroutine is past Enter.
LEMMA SerialStep ==
    ASSUME IInv, [Next]_vars
    PROVE  OneFireAtATime'
  <1> USE DEF Firing, OneFireAtATime
  <1>1. ASSUME UNCHANGED <<g, firing>> PROVE OneFireAtATime'
    BY <1>1 DEF IInv
  <1>2. ASSUME NEW p \in Post, Deliver(p) PROVE OneFireAtATime'
    BY <1>2 DEF IInv, TypeOK, Deliver, Goto, Pc
  <1>3. ASSUME NEW p \in Post, Enter(p) PROVE OneFireAtATime'
    <2>1. CASE firing = None
      <3>1. \A q \in Post : g'[q] \in Busy => q = p
        BY <1>3, <2>1 DEF IInv, TypeOK, Enter, Goto, Pc, Busy
      <3>2. g'[p] \in Busy /\ firing' = <<>> /\ firing' # None
        BY <1>3, <2>1, QueueNotNone DEF IInv, TypeOK, Enter, Goto, Pc, Busy
      <3>3. QED
        BY <3>1, <3>2 DEF Busy
    <2>2. CASE firing # None
      <3>1. firing \in Seq(Post) /\ firing' \in {firing, Append(firing, p)}
        BY <1>3, <2>2 DEF IInv, TypeOK, Enter
      <3>2. \A q \in Post : g'[q] \in Busy <=> g[q] \in Busy
        BY <1>3, <2>2 DEF IInv, TypeOK, Enter, Goto, Pc, Busy
      <3>3. QED
        BY <2>2, <3>1, <3>2, QueueNotNone DEF IInv, Busy
    <2>3. QED
      BY <2>1, <2>2
  <1>4. ASSUME NEW p \in Post,
               \/ Check(p) \/ Touch(p) \/ Wake(p) \/ SettleGet(p) \/ Count(p)
               \/ StopGet(p) \/ StopSave(p)
        PROVE  OneFireAtATime'
    <2>1. \A q \in Post : g'[q] \in Busy <=> g[q] \in Busy
      BY <1>4 DEF IInv, TypeOK, Check, Touch, Wake, SettleGet, Count, StopGet, StopSave, Goto,
                  Pc, Busy
    <2>2. firing' = firing
      BY <1>4 DEF Check, Touch, Wake, SettleGet, Count, StopGet, StopSave
    <2>3. QED
      BY <2>1, <2>2 DEF IInv, Busy
  <1>5. ASSUME NEW p \in Post, Take(p) PROVE OneFireAtATime'
    <2>1. \A q \in Post : g'[q] \in Busy <=> g[q] \in Busy
      BY <1>5 DEF IInv, TypeOK, Take, Goto, Pc, Busy
    <2>2. p \in Firing /\ firing' # None
      BY <1>5, QueueNotNone DEF IInv, TypeOK, Take, Pc
    <2>3. QED
      BY <2>1, <2>2 DEF IInv, Busy
  <1>6. ASSUME NEW p \in Post, Leave(p) PROVE OneFireAtATime'
    <2>1. p \in Firing
      BY <1>6 DEF Leave, Pc
    <2>2. \A q \in Post : g'[q] \notin Busy
      BY <1>6, <2>1 DEF IInv, TypeOK, Leave, Goto, Pc, Busy
    <2>3. QED
      BY <1>6, <2>2 DEF Leave, Busy
  <1>7. CASE Crash
    BY <1>7 DEF Crash
  <1>8. CASE \E op \in {"pause", "resume"} : Request(op)
    BY <1>8, <1>1 DEF Request, fireVars
  <1>9. CASE PauseSave \/ ResumeSave \/ DeleteEventMonitor \/ UNCHANGED vars
    BY <1>9, <1>1 DEF PauseSave, ResumeSave, DeleteEventMonitor, vars, fireVars
  <1>10. QED
    BY <1>2, <1>3, <1>4, <1>5, <1>6, <1>7, <1>8, <1>9 DEF Next, FireStep, Fire

-----------------------------------------------------------------------------
(* The allowance *)

Reading == {"touch", "wake", "settle", "count", "stopSave"}

LEMMA OwedAlone ==
    ASSUME NEW at, NEW read, NEW p \in Post, \A q \in Post : at[q] \in Busy => q = p
    PROVE  OwedIn(at, read) =
               IF at[p] = "count" \/ (at[p] = "settle" /\ read[p] # None) THEN 1 ELSE 0
  BY DEF OwedIn, Busy, Pc

\* A step of the running fire: only it has a record in hand.
LEMMA BusyStep ==
    ASSUME IInv, NEW p \in Post, g[p] \in Busy, NEW b \in Pc, g' = [g EXCEPT ![p] = b],
           NEW c, copy' = [copy EXCEPT ![p] = c]
    PROVE  /\ Owed = IF g[p] = "count" \/ (g[p] = "settle" /\ copy[p] # None) THEN 1 ELSE 0
           /\ Owed' = IF b = "count" \/ (b = "settle" /\ c # None) THEN 1 ELSE 0
           /\ g'[p] = b /\ copy'[p] = c
           /\ \A q \in Post : q # p => g'[q] \notin Reading
  <1>1. \A q \in Post : g[q] \in Busy => q = p
    BY DEF IInv, OneFireAtATime, Firing, Busy
  <1>2. /\ g'[p] = b /\ copy'[p] = c
        /\ \A q \in Post : q # p => g'[q] = g[q]
    BY DEF IInv, TypeOK
  <1>3. \A q \in Post : g'[q] \in Busy => q = p
    BY <1>1, <1>2
  <1>4. Owed = IF g[p] = "count" \/ (g[p] = "settle" /\ copy[p] # None) THEN 1 ELSE 0
    BY <1>1, OwedAlone DEF Owed
  <1>5. Owed' = IF b = "count" \/ (b = "settle" /\ c # None) THEN 1 ELSE 0
    <2>1. OwedIn(g', copy') =
            IF g'[p] = "count" \/ (g'[p] = "settle" /\ copy'[p] # None) THEN 1 ELSE 0
      BY <1>3 DEF OwedIn, Busy, Pc
    <2>2. QED
      BY <1>2, <2>1 DEF Owed
  <1>6. \A q \in Post : q # p => g'[q] \notin Reading
    BY <1>3 DEF Busy, Pc, Reading
  <1>7. QED
    BY <1>2, <1>4, <1>5, <1>6

\* A step that neither reads nor saves the record, nor fires.
LEMMA QuietStep ==
    ASSUME IInv, NEW p \in Post, UNCHANGED <<rec, owner, fires, uncounted>>,
           g[p] \notin {"settle", "count"}, NEW b \in Pc \ Reading, g' = [g EXCEPT ![p] = b],
           \A q \in Post : q # p => copy'[q] = copy[q]
    PROVE  CopyInv' /\ RecInv' /\ OwnerInv' /\ FiresWithinLimit'
  <1>1. g'[p] = b /\ \A q \in Post : q # p => g'[q] = g[q]
    BY DEF IInv, TypeOK
  <1>2. Owed' = Owed
    BY <1>1 DEF Owed, OwedIn, Reading
  <1>3. CopyInv'
    <2>1. ASSUME NEW q \in Post, q # p, g'[q] \in Reading, copy'[q] # None PROVE Known(q)'
      BY <1>1, <1>2, <2>1 DEF IInv, CopyInv, Known, FiredOut, Reading
    <2>2. QED
      BY <1>1, <2>1 DEF IInv, CopyInv, Reading
  <1>4. RecInv' /\ OwnerInv' /\ FiresWithinLimit'
    BY <1>2 DEF IInv, RecInv, OwnerInv, FiresWithinLimit, Used
  <1>5. QED
    BY <1>3, <1>4

LEMMA ReadSteps ==
    ASSUME IInv, NEW p \in Post, Check(p) \/ SettleGet(p) \/ StopGet(p)
    PROVE  CopyInv' /\ RecInv' /\ OwnerInv' /\ FiresWithinLimit'
  <1>1. /\ g[p] \in Busy /\ copy' = [copy EXCEPT ![p] = rec]
        /\ UNCHANGED <<rec, owner, fires>>
    BY DEF Check, SettleGet, StopGet, Busy, Pc, ownerVars, histVars
  <1>2. \A q \in Post : q # p => copy'[q] = copy[q]
    BY <1>1 DEF IInv, TypeOK
  <1>3. rec # None => rec \in Record /\ rec.count \in Nat /\ rec.base \in Nat
    BY Changed DEF IInv, TypeOK
  <1>4. fires \in Nat /\ uncounted \in Nat
    BY DEF IInv, TypeOK
  <1>5. owner.op # "none" => rec # None /\ owner.read \in Record /\ owner.read.base \in Nat
    BY Changed DEF IInv, OwnerInv, TypeOK
  <1>6. CASE \E b \in Pc \ Reading : g' = [g EXCEPT ![p] = b] /\ ~SettleGet(p)
    BY <1>1, <1>2, <1>6, QuietStep DEF Check, StopGet, histVars
  <1>7. CASE Check(p) /\ g' = [g EXCEPT ![p] = "touch"] /\ rec # None /\ ~FiredOut(rec)
    <2>1. /\ Owed = 0 /\ Owed' = 0 /\ g'[p] = "touch" /\ copy'[p] = rec
          /\ \A q \in Post : q # p => g'[q] \notin Reading
      BY <1>1, <1>7, BusyStep DEF Check, Pc
    <2>2. uncounted' = uncounted
      BY <1>7 DEF Check
    <2>3. RecInv' /\ OwnerInv' /\ FiresWithinLimit'
      BY <1>1, <2>1, <2>2 DEF IInv, RecInv, OwnerInv, FiresWithinLimit, Used
    <2>4. Known(p)'
      BY <1>1, <1>3, <1>7, <2>1, <2>2 DEF IInv, RecInv, Known, Used, FiredOut
    <2>5. QED
      BY <1>7, <2>1, <2>3, <2>4 DEF CopyInv, Reading
  <1>8. CASE Check(p) /\ g' = [g EXCEPT ![p] = "wake"] /\ rec = None
    <2>1. /\ Owed = 0 /\ Owed' = 0 /\ g'[p] = "wake" /\ copy'[p] = None
          /\ \A q \in Post : q # p => g'[q] \notin Reading
      BY <1>1, <1>8, BusyStep DEF Check, Pc
    <2>2. uncounted' = uncounted
      BY <1>8 DEF Check
    <2>3. RecInv' /\ OwnerInv' /\ FiresWithinLimit'
      BY <1>1, <2>1, <2>2 DEF IInv, RecInv, OwnerInv, FiresWithinLimit, Used
    <2>4. QED
      BY <1>1, <1>8, <2>1, <2>3 DEF CopyInv, Reading
  <1>9. CASE StopGet(p) /\ g' = [g EXCEPT ![p] = "stopSave"] /\ rec # None
    <2>1. /\ Owed = 0 /\ Owed' = 0 /\ g'[p] = "stopSave" /\ copy'[p] = rec
          /\ \A q \in Post : q # p => g'[q] \notin Reading
      BY <1>1, <1>9, BusyStep DEF StopGet, Pc
    <2>2. uncounted' = uncounted
      BY <1>9 DEF StopGet, histVars
    <2>3. RecInv' /\ OwnerInv' /\ FiresWithinLimit'
      BY <1>1, <2>1, <2>2 DEF IInv, RecInv, OwnerInv, FiresWithinLimit, Used
    <2>4. Known(p)'
      BY <1>1, <1>3, <1>9, <2>1, <2>2 DEF IInv, RecInv, Known, Used, FiredOut
    <2>5. QED
      BY <1>9, <2>1, <2>3, <2>4 DEF CopyInv, Reading
  <1>10. CASE SettleGet(p) /\ rec = None
    <2>1. /\ g[p] = "settle" /\ g' = [g EXCEPT ![p] = "take"]
          /\ uncounted' = IF copy[p] # None THEN uncounted + 1 ELSE uncounted
      BY <1>10 DEF SettleGet, Goto
    <2>2. /\ Owed' = 0 /\ g'[p] = "take"
          /\ \A q \in Post : q # p => g'[q] \notin Reading
      BY <1>1, <2>1, BusyStep DEF Pc
    <2>3. CopyInv'
      BY <2>2 DEF CopyInv, Reading
    <2>4. RecInv' /\ OwnerInv'
      BY <1>1, <1>5, <1>10 DEF RecInv, OwnerInv
    <2>5. FiresWithinLimit'
      BY <1>1, <1>4, <2>1, WebhookMonitorAssumption DEF IInv, FiresWithinLimit
    <2>6. QED
      BY <2>3, <2>4, <2>5
  <1>11. CASE SettleGet(p) /\ rec # None
    <2>1. /\ g[p] = "settle" /\ g' = [g EXCEPT ![p] = "count"] /\ uncounted' = uncounted
          /\ copy[p] # None
      BY <1>11 DEF SettleGet, Goto, IInv, CopyInv
    <2>2. /\ Owed = 1 /\ Owed' = 1 /\ g'[p] = "count" /\ copy'[p] = rec
          /\ \A q \in Post : q # p => g'[q] \notin Reading
      BY <1>1, <2>1, BusyStep DEF Pc
    <2>3. RecInv' /\ OwnerInv' /\ FiresWithinLimit'
      BY <1>1, <2>1, <2>2 DEF IInv, RecInv, OwnerInv, FiresWithinLimit, Used
    <2>4. ~FiredOut(rec)
      <3>1. /\ ~FiredOut(copy[p])
            /\ rec.count <= copy[p].count /\ copy[p].base <= rec.base
        BY <1>11, <2>1 DEF IInv, CopyInv, Known
      <3>2. copy[p].count \in Nat /\ copy[p].base \in Nat
        BY <2>1, Changed DEF IInv, TypeOK
      <3>3. QED
        BY <1>3, <1>11, <3>1, <3>2, WebhookMonitorAssumption DEF FiredOut
    <2>5. Known(p)'
      BY <1>1, <1>3, <1>4, <1>11, <2>1, <2>2, <2>4 DEF IInv, RecInv, Known, Used, FiredOut
    <2>6. QED
      BY <1>11, <2>2, <2>3, <2>5 DEF CopyInv, Reading
  <1>12. QED
    BY <1>6, <1>7, <1>8, <1>9, <1>10, <1>11
       DEF Check, SettleGet, StopGet, Goto, Pc, Reading

\* LastFired, or the pause of a monitor out of fires, is saved.
LEMMA SaveSteps ==
    ASSUME IInv, NEW p \in Post, Touch(p) \/ StopSave(p)
    PROVE  CopyInv' /\ RecInv' /\ OwnerInv' /\ FiresWithinLimit'
  <1> DEFINE c == copy[p]
  <1>1. /\ g[p] \in Busy /\ g[p] \in {"touch", "stopSave"} /\ UNCHANGED <<copy, owner, fires>>
        /\ uncounted' = uncounted + Forgotten(c)
    BY DEF Touch, StopSave, Busy, Pc, ownerVars, histVars
  <1>2. c \in Record /\ c.count \in Nat /\ c.base \in Nat /\ Known(p)
    BY <1>1, Changed DEF IInv, CopyInv, TypeOK
  <1>3. rec' \in Record /\ rec' # None /\ rec'.count = c.count /\ rec'.base = c.base
    BY <1>2, Changed DEF Touch, StopSave, Save
  <1>4. Forgotten(c) = 0
    <2>1. CASE rec = None
      BY <1>2, <2>1, ForgottenNat DEF IInv
    <2>2. CASE rec # None
      BY <1>2, <2>2, ForgottenNat DEF IInv, Known
    <2>3. QED
      BY <2>1, <2>2
  <1>5. /\ fires \in Nat /\ uncounted \in Nat /\ uncounted' = uncounted
        /\ (rec # None => rec.count \in Nat /\ rec.base \in Nat)
        /\ (owner.op # "none" => rec # None /\ owner.read.count \in Nat /\ owner.read.base \in Nat)
    <2>1. fires \in Nat /\ uncounted \in Nat /\ uncounted' = uncounted
      BY <1>1, <1>4 DEF IInv, TypeOK
    <2>2. rec # None => rec.count \in Nat /\ rec.base \in Nat
      BY Changed DEF IInv, TypeOK
    <2>3. owner.op # "none" => rec # None /\ owner.read.count \in Nat /\ owner.read.base \in Nat
      BY Changed DEF IInv, TypeOK, OwnerInv
    <2>4. QED
      BY <2>1, <2>2, <2>3
  <1>6. copy' = [copy EXCEPT ![p] = c]
    BY <1>1 DEF IInv, TypeOK
  <1>7. PICK b \in {"wake", "take"} : /\ g' = [g EXCEPT ![p] = b]
                                      /\ (b = "wake" => g[p] = "touch")
    BY DEF Touch, StopSave, Goto
  <1>8. /\ Owed = 0 /\ Owed' = 0 /\ g'[p] = b /\ copy'[p] = c
        /\ \A q \in Post : q # p => g'[q] \notin Reading
    BY <1>1, <1>6, <1>7, BusyStep DEF Pc
  <1>9. RecInv'
    BY <1>1, <1>2, <1>3, <1>5, <1>8 DEF Known, RecInv, Used
  <1>10. OwnerInv'
    <2>1. ASSUME owner.op # "none"
          PROVE  /\ owner.read.count <= c.count /\ c.base <= owner.read.base
                 /\ fires <= c.count - owner.read.base + uncounted
      BY <1>2, <1>5, <1>8, <2>1 DEF Known, IInv, OwnerInv
    <2>2. QED
      <3>1. owner.op # "none" => owner.read # None /\ owner.read.base <= owner.read.count
        BY DEF IInv, OwnerInv
      <3>2. CASE owner.op = "none"
        BY <1>1, <3>2 DEF OwnerInv
      <3>3. CASE owner.op # "none"
        <4>1. owner' = owner /\ fires' = fires /\ Owed' = 0
          BY <1>1, <1>8
        <4>2. /\ rec' # None /\ owner.read # None
              /\ owner.read.base <= owner.read.count
          BY <1>3, <3>1, <3>3
        <4>3. /\ owner.read.count <= c.count /\ c.base <= owner.read.base
              /\ fires <= c.count - owner.read.base + uncounted
          BY <2>1, <3>3
        <4>4. owner.read.count <= rec'.count /\ rec'.base <= owner.read.base
          BY <1>3, <4>3
        <4>5. fires <= rec'.count - owner.read.base + uncounted' + Owed'
          BY <1>2, <1>3, <1>5, <3>3, <4>1, <4>3
        <4>6. QED
          BY <4>1, <4>2, <4>4, <4>5 DEF OwnerInv
      <3>4. QED
        BY <3>2, <3>3
  <1>11. FiresWithinLimit'
    BY <1>1, <1>5 DEF IInv, FiresWithinLimit
  <1>12. CopyInv'
    <2>1. b = "wake" => Known(p)'
      BY <1>1, <1>2, <1>3, <1>5, <1>7, <1>8 DEF Known, Used, FiredOut
    <2>2. QED
      BY <1>2, <1>3, <1>7, <1>8, <2>1, NoneAssumption DEF CopyInv, Reading
  <1>13. QED
    BY <1>9, <1>10, <1>11, <1>12

\* The fire itself.
LEMMA WakeCounts ==
    ASSUME IInv, NEW p \in Post, Wake(p)
    PROVE  CopyInv' /\ RecInv' /\ OwnerInv' /\ FiresWithinLimit'
  <1> DEFINE c == copy[p]
  <1>1. /\ g[p] = "wake" /\ g[p] \in Busy /\ g' = [g EXCEPT ![p] = "settle"]
        /\ UNCHANGED <<rec, copy, owner>> /\ fires' = fires + 1
        /\ uncounted' = IF c = None THEN uncounted + 1 ELSE uncounted
    BY DEF Wake, Goto, Busy, Pc, ownerVars
  <1>2. copy' = [copy EXCEPT ![p] = c]
    BY <1>1 DEF IInv, TypeOK
  <1>3. /\ Owed = 0 /\ Owed' = (IF c # None THEN 1 ELSE 0) /\ g'[p] = "settle" /\ copy'[p] = c
        /\ \A q \in Post : q # p => g'[q] \notin Reading
    BY <1>1, <1>2, BusyStep DEF Pc
  <1>4. /\ fires \in Nat /\ uncounted \in Nat
        /\ (rec # None => rec.count \in Nat /\ rec.base \in Nat)
        /\ (owner.op # "none" => rec # None /\ owner.read.count \in Nat /\ owner.read.base \in Nat)
    BY Changed DEF IInv, TypeOK, OwnerInv
  <1>5. CASE c = None
    <2>1. rec = None
      BY <1>1, <1>5 DEF IInv, CopyInv
    <2>2. FiresWithinLimit'
      BY <1>1, <1>4, <1>5, WebhookMonitorAssumption DEF IInv, FiresWithinLimit
    <2>3. QED
      BY <1>1, <1>3, <1>4, <1>5, <2>1, <2>2 DEF CopyInv, RecInv, OwnerInv, Reading
  <1>6. CASE c # None
    <2>1. c \in Record /\ c.count \in Nat /\ c.base \in Nat /\ Known(p)
      BY <1>1, <1>6, Changed DEF IInv, CopyInv, TypeOK
    <2>2. uncounted' = uncounted
      BY <1>1, <1>6
    <2>3. FiresWithinLimit'
      BY <1>1, <1>3, <1>4, <2>1, <2>2, WebhookMonitorAssumption
         DEF Known, FiresWithinLimit, Used, FiredOut
    <2>4. RecInv' /\ OwnerInv'
      BY <1>1, <1>3, <1>4, <1>6, <2>2 DEF IInv, RecInv, OwnerInv, Used
    <2>5. Known(p)'
      BY <1>1, <1>3, <1>4, <1>6, <2>1, <2>2 DEF Known, Used, FiredOut
    <2>6. QED
      BY <1>3, <1>6, <2>3, <2>4, <2>5 DEF CopyInv, Reading
  <1>7. QED
    BY <1>5, <1>6

\* The count is saved, over whatever the owner saved meanwhile.
LEMMA CountCounts ==
    ASSUME IInv, NEW p \in Post, Count(p)
    PROVE  CopyInv' /\ RecInv' /\ OwnerInv' /\ FiresWithinLimit'
  <1> DEFINE c == copy[p]
  <1>1. /\ g[p] = "count" /\ g[p] \in Busy /\ UNCHANGED <<copy, owner, fires>>
        /\ uncounted' = uncounted + (IF rec = None THEN 0 ELSE rec.count - c.count)
    BY DEF Count, Busy, Pc, ownerVars
  <1>2. c \in Record /\ c.count \in Nat /\ c.base \in Nat /\ Known(p)
    BY <1>1, Changed DEF IInv, CopyInv, TypeOK
  <1>3. rec' # None /\ rec'.count = c.count + 1 /\ rec'.base = c.base
    BY <1>2, Changed DEF Count, Save
  <1>4. PICK b \in {"stop", "take"} : g' = [g EXCEPT ![p] = b]
    BY DEF Count, Goto
  <1>5. copy' = [copy EXCEPT ![p] = c]
    BY <1>1 DEF IInv, TypeOK
  <1>6. /\ Owed = 1 /\ Owed' = 0 /\ g'[p] = b
        /\ \A q \in Post : q # p => g'[q] \notin Reading
    BY <1>1, <1>4, <1>5, BusyStep DEF Pc
  <1>7. /\ fires \in Nat /\ uncounted \in Nat
        /\ (rec # None => rec.count \in Nat /\ rec.base \in Nat)
        /\ (owner.op # "none" => rec # None /\ owner.read.count \in Nat /\ owner.read.base \in Nat)
    BY Changed DEF IInv, TypeOK, OwnerInv
  <1>8. fires <= c.count + 1 - c.base + uncounted'
    <2>1. CASE rec = None
      BY <1>1, <1>2, <1>6, <1>7, <2>1 DEF Known, Used
    <2>2. CASE rec # None
      <3>1. fires <= rec.count - rec.base + uncounted + 1 /\ c.base <= rec.base
        BY <1>2, <1>6, <2>2 DEF IInv, RecInv, Used, Known
      <3>2. uncounted' = uncounted + (rec.count - c.count)
        BY <1>1, <2>2
      <3>3. QED
        BY <1>2, <1>7, <2>2, <3>1, <3>2
    <2>3. QED
      BY <2>1, <2>2
  <1>9. RecInv'
    BY <1>1, <1>2, <1>3, <1>6, <1>7, <1>8 DEF RecInv, Used, Known
  <1>10. OwnerInv'
    <2>1. ASSUME owner.op # "none"
          PROVE  /\ owner.read.count <= c.count + 1 /\ c.base <= owner.read.base
                 /\ fires <= c.count + 1 - owner.read.base + uncounted'
      BY <1>1, <1>2, <1>6, <1>7, <2>1 DEF Known, IInv, OwnerInv
    <2>2. QED
      <3>1. owner.op # "none" => owner.read # None /\ owner.read.base <= owner.read.count
        BY DEF IInv, OwnerInv
      <3>2. uncounted' \in Int
        BY <1>1, <1>2, <1>7
      <3>3. CASE owner.op = "none"
        BY <1>1, <3>3 DEF OwnerInv
      <3>4. CASE owner.op # "none"
        <4>1. owner' = owner /\ fires' = fires /\ Owed' = 0
          BY <1>1, <1>6
        <4>2. /\ rec' # None /\ owner.read # None
              /\ owner.read.base <= owner.read.count
          BY <1>3, <3>1, <3>4
        <4>3. /\ owner.read.count <= c.count + 1 /\ c.base <= owner.read.base
              /\ fires <= c.count + 1 - owner.read.base + uncounted'
          BY <2>1, <3>4
        <4>4. owner.read.count <= rec'.count /\ rec'.base <= owner.read.base
          BY <1>3, <4>3
        <4>5. fires <= rec'.count - owner.read.base + uncounted' + Owed'
          BY <1>2, <1>3, <1>7, <3>2, <3>4, <4>1, <4>3
        <4>6. QED
          BY <4>1, <4>2, <4>4, <4>5 DEF OwnerInv
      <3>5. QED
        BY <3>3, <3>4
  <1>11. FiresWithinLimit'
    <2>1. MaxFires > 0 => c.count - c.base < MaxFires
      BY <1>1, <1>2, WebhookMonitorAssumption DEF Known, FiredOut
    <2>2. uncounted' \in Int
      BY <1>1, <1>2, <1>7
    <2>3. QED
      BY <1>1, <1>2, <1>7, <1>8, <2>1, <2>2, WebhookMonitorAssumption DEF FiresWithinLimit
  <1>12. CopyInv'
    BY <1>4, <1>6 DEF CopyInv, Reading
  <1>13. QED
    BY <1>9, <1>10, <1>11, <1>12

LEMMA FireCounts ==
    ASSUME IInv, NEW p \in Post, Fire(p) \/ Deliver(p)
    PROVE  CopyInv' /\ RecInv' /\ OwnerInv' /\ FiresWithinLimit'
  <1>1. CASE Deliver(p) \/ Enter(p) \/ Take(p) \/ Leave(p)
    <2>1. UNCHANGED <<rec, owner, fires, uncounted>> /\ g[p] \notin {"settle", "count"}
      BY <1>1 DEF Deliver, Enter, Take, Leave, ownerVars, histVars
    <2>2. PICK b \in Pc \ Reading : g' = [g EXCEPT ![p] = b]
      BY <1>1 DEF Deliver, Enter, Take, Leave, Goto, Pc, Reading
    <2>3. \A q \in Post : q # p => copy'[q] = copy[q]
      BY <1>1 DEF Deliver, Enter, Take, Leave, IInv, TypeOK
    <2>4. QED
      BY <2>1, <2>2, <2>3, QuietStep
  <1>2. QED
    BY <1>1, ReadSteps, SaveSteps, WakeCounts, CountCounts DEF Fire

\* The owner's pause or resume is saved, over what the fire saved meanwhile.
LEMMA OwnerCounts ==
    ASSUME IInv, PauseSave \/ ResumeSave
    PROVE  CopyInv' /\ RecInv' /\ OwnerInv' /\ FiresWithinLimit'
  <1> DEFINE r == owner.read
             used == ResumeSave /\ FiredOut(r)
  <1>1. UNCHANGED <<g, copy>> /\ owner'.op = "none" /\ owner.op # "none" /\ Owed' = Owed
    BY DEF PauseSave, ResumeSave, fireVars, Owed
  <1>2. /\ rec \in Record /\ rec # None /\ rec.count \in Nat /\ rec.base \in Nat
        /\ r \in Record /\ r.count \in Nat /\ r.base \in Nat
        /\ r.base <= r.count /\ r.count <= rec.count /\ rec.base <= r.base
        /\ fires <= rec.count - r.base + uncounted + Owed
    BY <1>1, Changed DEF IInv, OwnerInv, TypeOK
  <1>3. fires \in Nat /\ uncounted \in Nat /\ Owed \in {0, 1}
    BY DEF IInv, TypeOK, Owed, OwedIn
  <1>4. Forgotten(r) = rec.count - r.count
    BY <1>2, ForgottenNat DEF IInv
  <1>5. rec' # None /\ rec'.count = r.count /\ rec'.base = IF used THEN r.count ELSE r.base
    BY <1>2, Changed, RearmedRecord DEF PauseSave, ResumeSave, Save
  <1>6. /\ used => fires' = 0 /\ uncounted' = 0
        /\ ~used => fires' = fires /\ uncounted' = uncounted + (rec.count - r.count)
    BY <1>4 DEF PauseSave, ResumeSave
  <1> HIDE DEF used
  <1>7. OwnerInv'
    BY <1>1 DEF OwnerInv
  <1>8. RecInv'
    BY <1>1, <1>2, <1>3, <1>5, <1>6 DEF RecInv, Used
  <1>9. FiresWithinLimit'
    BY <1>2, <1>3, <1>6, WebhookMonitorAssumption DEF IInv, FiresWithinLimit
  <1>10. ASSUME NEW p \in Post, g[p] \in Reading, copy[p] # None
         PROVE  Known(p)'
    <2>1. /\ Known(p) /\ copy[p].count \in Nat /\ copy[p].base \in Nat
      BY <1>10, Changed DEF IInv, CopyInv, TypeOK, Reading
    <2>2. r.count <= copy[p].count /\ copy[p].base <= r.base
      BY <1>2, <2>1 DEF Known
    <2>3. CASE used
      <3>1. FiredOut(r)
        BY <2>3 DEF used
      <3>2. FiredOut(copy[p])
        BY <1>2, <2>1, <2>2, <3>1, WebhookMonitorAssumption DEF FiredOut
      <3>3. g[p] = "stopSave"
        BY <1>10, <2>1, <3>2 DEF Known, Reading
      <3>4. copy[p].base <= r.count
        BY <1>2, <2>1, <2>2
      <3>5. QED
        BY <1>1, <1>3, <1>5, <1>6, <2>1, <2>2, <2>3, <3>3, <3>4 DEF Known, Used
    <2>4. CASE ~used
      <3>1. fires' <= Used(copy[p]) + uncounted' + Owed'
        BY <1>1, <1>2, <1>3, <1>6, <2>1, <2>4 DEF Known, Used
      <3>2. g[p] = "count" => copy[p].count - r.count <= uncounted'
        BY <1>2, <1>3, <1>6, <2>1, <2>4 DEF Known
      <3>3. QED
        BY <1>1, <1>5, <2>1, <2>2, <2>4, <3>1, <3>2 DEF Known, Used, FiredOut
    <2>5. QED
      BY <2>3, <2>4
  <1>11. CopyInv'
    BY <1>1, <1>2, <1>10 DEF IInv, CopyInv, Reading
  <1>12. QED
    BY <1>7, <1>8, <1>9, <1>11

LEMMA IStep ==
    ASSUME IInv, [Next]_vars
    PROVE  IInv'
  <1>1. TypeOK'
    <2>1. CASE UNCHANGED vars
      BY <2>1 DEF IInv, TypeOK, vars, fireVars, ownerVars, histVars
    <2>2. ASSUME NEW p \in Post, Deliver(p) PROVE TypeOK'
      BY <2>2 DEF IInv, TypeOK, Deliver, Goto, Pc, ownerVars, histVars
    <2>3. QED
      BY <2>1, <2>2, FireTypes, CrashTypes, OwnerTypes DEF Next, FireStep
  <1>2. OneFireAtATime'
    BY SerialStep
  <1>3. CopyInv' /\ RecInv' /\ OwnerInv' /\ FiresWithinLimit'
    <2>1. CASE UNCHANGED vars
      BY <2>1 DEF IInv, CopyInv, RecInv, OwnerInv, FiresWithinLimit, Known, FiredOut, Used, Owed,
                  OwedIn, vars, fireVars, ownerVars, histVars
    <2>2. ASSUME NEW op \in {"pause", "resume"}, Request(op)
          PROVE  CopyInv' /\ RecInv' /\ OwnerInv' /\ FiresWithinLimit'
      <3>1. UNCHANGED <<rec, g, copy, fires, uncounted>>
        BY <2>2 DEF Request, fireVars, histVars
      <3>2. rec # None /\ owner'.read = rec
        BY <2>2 DEF Request
      <3>3. rec.count \in Nat /\ rec.base \in Nat
        BY <3>2, Changed DEF IInv, TypeOK
      <3>4. CopyInv' /\ RecInv' /\ FiresWithinLimit'
        BY <3>1 DEF IInv, CopyInv, RecInv, FiresWithinLimit, Known, FiredOut, Used, Owed
      <3>5. OwnerInv'
        BY <3>1, <3>2, <3>3 DEF IInv, RecInv, OwnerInv, Used, Owed
      <3>6. QED
        BY <3>4, <3>5
    <2>3. CASE DeleteEventMonitor
      <3>1. /\ UNCHANGED <<g, copy, owner, fires, uncounted>> /\ rec' = None
            /\ owner.op = "none" /\ Owed' = Owed
        BY <2>3 DEF DeleteEventMonitor, fireVars, histVars, Owed
      <3>2. \A p \in Post : Known(p) => Known(p)'
        BY <3>1 DEF Known, Used, FiredOut
      <3>3. QED
        BY <3>1, <3>2 DEF IInv, CopyInv, RecInv, OwnerInv, FiresWithinLimit
    <2>4. CASE Crash
      <3> DEFINE S == {p \in Post : g[p] \in {"settle", "count"}}
      <3>1. /\ UNCHANGED <<rec, fires>> /\ uncounted' = uncounted + Cardinality(S)
            /\ \A p \in Post : g'[p] \in {"new", "done"}
            /\ owner'.op = "none"
        BY <2>4 DEF Crash
      <3>2. IsFiniteSet(S)
        BY WebhookMonitorAssumption, FS_Subset
      <3>3. Cardinality(S) \in Nat /\ (S # {} => Cardinality(S) >= 1)
        <4>1. Cardinality(S) \in Nat
          BY <3>2, FS_CardinalityType
        <4>2. Cardinality(S) = 0 <=> S = {}
          BY <3>2, FS_EmptySet
        <4>3. QED
          BY <4>1, <4>2
      <3>4. Owed <= Cardinality(S) /\ Owed \in {0, 1}
        BY <3>3 DEF Owed, OwedIn
      <3>5. Owed' = 0
        BY <3>1 DEF Owed, OwedIn
      <3> HIDE DEF S
      <3>6. CopyInv' /\ OwnerInv'
        BY <3>1 DEF CopyInv, OwnerInv
      <3>7. fires \in Nat /\ uncounted \in Nat /\ (rec # None => rec.count \in Nat /\ rec.base \in Nat)
        BY Changed DEF IInv, TypeOK
      <3>8. RecInv'
        BY <3>1, <3>3, <3>4, <3>5, <3>7 DEF IInv, RecInv, Used
      <3>9. FiresWithinLimit'
        BY <3>1, <3>3, <3>7, WebhookMonitorAssumption DEF IInv, FiresWithinLimit
      <3>10. QED
        BY <3>6, <3>8, <3>9
    <2>5. QED
      BY <2>1, <2>2, <2>3, <2>4, FireCounts, OwnerCounts DEF Next, FireStep
  <1>4. QED
    BY <1>1, <1>2, <1>3 DEF IInv

LEMMA Invariance == Spec => []IInv
  <1>1. IInv /\ [Next]_vars => IInv'
    BY IStep
  <1>2. QED
    BY InitInv, <1>1, PTL DEF Spec

\* The posts held never exceed eventFireQueueMax, and the record stays one.
THEOREM TypeCorrect == Spec => []TypeOK
  BY Invariance, PTL DEF IInv

\* "One fire per monitor at a time": the first critical section of
\* FireEventMonitor lets one goroutine through, and the key leaves the firing
\* set with it.
THEOREM FiresOneAtATime == Spec => []OneFireAtATime
  BY Invariance, PTL DEF IInv

\* "A monitor that has used its fires fires no more": the unguarded saves of
\* a fire and of the owner can forget counts and undo a pause, and still the
\* allowance is exceeded by no more than the counts they forgot.
THEOREM AllowanceHolds == Spec => []FiresWithinLimit
  BY Invariance, PTL DEF IInv


-----------------------------------------------------------------------------
(* Posts are delivered in the order they arrived *)

\* Relative to the arrivals a: x came before y, all of s came, s is in order,
\* all of s came before all of t.
Before(a, x, y) == \E k, l \in 1..Len(a) : k < l /\ a[k] = x /\ a[l] = y
Came(a, s)      == \A i \in 1..Len(s) : \E k \in 1..Len(a) : a[k] = s[i]
InOrder(a, s)   == \A i, j \in 1..Len(s) : i < j => Before(a, s[i], s[j])
Ahead(a, s, t)  == \A i \in 1..Len(s), j \in 1..Len(t) : Before(a, s[i], t[j])

\* What was delivered, what the running fire carries and what is held behind
\* it are in this order.
OrderInv ==
    /\ \A k, l \in 1..Len(arrived) : arrived[k] = arrived[l] => k = l
    /\ \A k \in 1..Len(arrived) : g[arrived[k]] \notin {"new", "enter"}
    /\ Came(arrived, woken) /\ InOrder(arrived, woken)
    /\ firing # None =>
          /\ Came(arrived, firing) /\ InOrder(arrived, firing)
          /\ Ahead(arrived, woken, firing)
    /\ \A p \in Firing :
          /\ Came(arrived, carry[p]) /\ InOrder(arrived, carry[p])
          /\ Ahead(arrived, carry[p], firing)
          /\ g[p] \in {"check", "touch", "wake"} => Ahead(arrived, woken, carry[p])

\* One sequence after the other.
LEMMA JoinedOrder ==
    ASSUME NEW a \in Seq(Post), NEW s \in Seq(Post), NEW t \in Seq(Post),
           Came(a, s), Came(a, t), InOrder(a, s), InOrder(a, t), Ahead(a, s, t)
    PROVE  Came(a, s \o t) /\ InOrder(a, s \o t)
  <1> DEFINE u == s \o t
  <1>1. /\ Len(s) \in Nat /\ Len(t) \in Nat /\ Len(u) = Len(s) + Len(t)
        /\ \A i \in 1..Len(u) : u[i] = IF i <= Len(s) THEN s[i] ELSE t[i - Len(s)]
    BY ConcatProperties
  <1> HIDE DEF u
  <1>2. ASSUME NEW i \in 1..Len(u)
        PROVE  \/ i \in 1..Len(s) /\ u[i] = s[i]
               \/ i - Len(s) \in 1..Len(t) /\ u[i] = t[i - Len(s)] /\ ~(i <= Len(s))
    BY <1>1
  <1>3. Came(a, u)
    BY <1>2 DEF Came
  <1>4. ASSUME NEW i \in 1..Len(u), NEW j \in 1..Len(u), i < j
        PROVE  Before(a, u[i], u[j])
    <2>1. CASE j \in 1..Len(s)
      <3>1. i \in 1..Len(s) /\ u[i] = s[i] /\ u[j] = s[j]
        BY <1>1, <1>2, <1>4, <2>1
      <3>2. QED
        BY <1>4, <2>1, <3>1 DEF InOrder
    <2>2. CASE j \notin 1..Len(s) /\ i \in 1..Len(s)
      <3>1. u[i] = s[i] /\ j - Len(s) \in 1..Len(t) /\ u[j] = t[j - Len(s)]
        BY <1>1, <1>2, <2>2
      <3>2. QED
        BY <2>2, <3>1 DEF Ahead
    <2>3. CASE j \notin 1..Len(s) /\ i \notin 1..Len(s)
      <3>1. /\ i - Len(s) \in 1..Len(t) /\ u[i] = t[i - Len(s)]
            /\ j - Len(s) \in 1..Len(t) /\ u[j] = t[j - Len(s)]
            /\ i - Len(s) < j - Len(s)
        BY <1>1, <1>2, <1>4, <2>3
      <3>2. QED
        BY <3>1 DEF InOrder
    <2>4. QED
      BY <2>1, <2>2, <2>3
  <1>5. QED
    BY <1>3, <1>4 DEF InOrder, u

\* One more arrival: what came, came before it, and stays in order.
LEMMA OneMoreArrival ==
    ASSUME NEW a \in Seq(Post), NEW p \in Post
    PROVE  /\ \A x, y : Before(a, x, y) => Before(Append(a, p), x, y)
           /\ \A s : Came(a, s) => Came(Append(a, p), s)
           /\ \A s : InOrder(a, s) => InOrder(Append(a, p), s)
           /\ \A s, t : Ahead(a, s, t) => Ahead(Append(a, p), s, t)
           /\ \A s : Came(a, s) => \A i \in 1..Len(s) : Before(Append(a, p), s[i], p)
           /\ \E k \in 1..Len(Append(a, p)) : Append(a, p)[k] = p
  <1> DEFINE b == Append(a, p)
  <1>1. /\ Len(a) \in Nat /\ Len(b) = Len(a) + 1 /\ b[Len(a) + 1] = p
        /\ \A k \in 1..Len(a) : b[k] = a[k] /\ k \in 1..Len(b) /\ k < Len(a) + 1
        /\ Len(a) + 1 \in 1..Len(b)
    BY AppendProperties
  <1> HIDE DEF b
  <1>2. \A x, y : Before(a, x, y) => Before(b, x, y)
    BY <1>1 DEF Before
  <1>3. \A s : Came(a, s) => Came(b, s)
    BY <1>1 DEF Came
  <1>4. \A s : Came(a, s) => \A i \in 1..Len(s) : Before(b, s[i], p)
    BY <1>1 DEF Came, Before
  <1>5. QED
    BY <1>1, <1>2, <1>3, <1>4 DEF InOrder, Ahead, b

LEMMA OrderQuiet ==
    ASSUME IInv, OrderInv, UNCHANGED <<firing, carry, arrived, woken>>,
           \A p \in Post : /\ g'[p] \in {"new", "enter"} => g[p] \in {"new", "enter"}
                           /\ p \in Firing' => p \in Firing
                           /\ g'[p] \in {"check", "touch", "wake"} => g[p] \in {"check", "touch", "wake"}
    PROVE  OrderInv'
  <1>1. \A k \in 1..Len(arrived) : arrived[k] \in Post
    BY DEF IInv, TypeOK
  <1>2. Firing' \subseteq Post
    BY DEF Firing
  <1>3. QED
    BY <1>1, <1>2 DEF OrderInv

\* Nobody fires any more.
LEMMA OrderEnds ==
    ASSUME IInv, OrderInv, UNCHANGED <<arrived, woken>>, firing' = None, Firing' = {},
           \A p \in Post : g'[p] \in {"new", "enter"} => g[p] \in {"new", "enter"}
    PROVE  OrderInv'
  <1>1. \A k \in 1..Len(arrived) : arrived[k] \in Post
    BY DEF IInv, TypeOK
  <1>2. QED
    BY <1>1 DEF OrderInv

LEMMA OrderEnter ==
    ASSUME IInv, OrderInv, NEW p \in Post, Enter(p)
    PROVE  OrderInv'
  <1> DEFINE b == Append(arrived, p)
  <1>1. /\ arrived \in Seq(Post) /\ woken \in Seq(Post) /\ g \in [Post -> Pc]
        /\ g[p] = "enter" /\ arrived' = b /\ woken' = woken
        /\ carry \in [Post -> Seq(Post)]
    BY DEF IInv, TypeOK, Enter
  <1>2. /\ Len(arrived) \in Nat /\ Len(b) = Len(arrived) + 1 /\ b[Len(arrived) + 1] = p
        /\ \A k \in 1..Len(arrived) : b[k] = arrived[k] /\ arrived[k] \in Post /\ b[k] # p
    BY <1>1, AppendProperties DEF OrderInv
  <1>3. /\ Came(b, woken) /\ InOrder(b, woken)
        /\ \A i \in 1..Len(woken) : Before(b, woken[i], p)
        /\ \E k \in 1..Len(b) : b[k] = p
    BY <1>1, OneMoreArrival DEF OrderInv
  <1>4. PICK s \in {"check", "done"} : g' = [g EXCEPT ![p] = s]
    BY DEF Enter, Goto
  <1> HIDE DEF b
  <1>5. \A k, l \in 1..Len(b) : b[k] = b[l] => k = l
    <2>1. \A k \in 1..Len(b) : k \in 1..Len(arrived) \/ k = Len(arrived) + 1
      BY <1>2
    <2>2. QED
      BY <1>2, <2>1 DEF OrderInv
  <1>6. \A k \in 1..Len(b) : g'[b[k]] \notin {"new", "enter"}
    <2>1. \A k \in 1..Len(b) : k \in 1..Len(arrived) \/ k = Len(arrived) + 1
      BY <1>2
    <2>2. QED
      BY <1>1, <1>2, <1>4, <2>1 DEF OrderInv
  <1>7. CASE firing = None
    <2>1. /\ firing' = <<>> /\ carry' = [carry EXCEPT ![p] = <<p>>] /\ Firing = {}
      BY <1>7 DEF Enter, IInv, OneFireAtATime
    <2>2. Firing' \subseteq {p}
      BY <1>1, <1>4, <2>1 DEF Firing
    <2>3. /\ Len(<<>>) = 0 /\ Len(<<p>>) = 1 /\ <<p>>[1] = p
      OBVIOUS
    <2>4. /\ Came(b, <<>>) /\ InOrder(b, <<>>) /\ \A t : Ahead(b, t, <<>>)
      BY <2>3 DEF Came, InOrder, Ahead
    <2>5. /\ Came(b, <<p>>) /\ InOrder(b, <<p>>) /\ Ahead(b, woken, <<p>>)
      BY <1>3, <2>3 DEF Came, InOrder, Ahead
    <2>6. carry'[p] = <<p>>
      BY <1>1, <2>1
    <2>7. QED
      BY <1>1, <1>3, <1>5, <1>6, <2>1, <2>2, <2>4, <2>5, <2>6 DEF OrderInv
  <1>8. CASE firing # None
    <2>1. carry' = carry /\ s = "done" /\ firing \in Seq(Post)
      BY <1>1, <1>4, <1>8 DEF Enter, Goto, IInv, TypeOK
    <2>2. Firing' = Firing
      BY <1>1, <1>4, <2>1 DEF Firing
    <2>3. /\ Came(b, firing) /\ InOrder(b, firing) /\ Ahead(b, woken, firing)
          /\ \A i \in 1..Len(firing) : Before(b, firing[i], p)
      BY <1>1, <1>8, OneMoreArrival DEF OrderInv, b
    <2>4. ASSUME NEW q \in Firing
          PROVE  /\ q \in Post /\ g'[q] = g[q]
                 /\ Came(b, carry[q]) /\ InOrder(b, carry[q]) /\ Ahead(b, carry[q], firing)
                 /\ \A i \in 1..Len(carry[q]) : Before(b, carry[q][i], p)
                 /\ g[q] \in {"check", "touch", "wake"} => Ahead(b, woken, carry[q])
      BY <1>1, <1>4, <2>4, OneMoreArrival DEF OrderInv, Firing, b
    <2>5. CASE firing' = firing
      BY <1>1, <1>3, <1>5, <1>6, <2>1, <2>2, <2>3, <2>4, <2>5 DEF OrderInv
    <2>6. CASE firing' = Append(firing, p)
      <3> DEFINE f == Append(firing, p)
      <3>1. /\ Len(firing) \in Nat /\ Len(f) = Len(firing) + 1 /\ f[Len(firing) + 1] = p
            /\ \A i \in 1..Len(firing) : f[i] = firing[i]
        BY <2>1, AppendProperties
      <3> HIDE DEF f
      <3>2. \A i \in 1..Len(f) : \/ i \in 1..Len(firing) /\ f[i] = firing[i]
                                 \/ i = Len(firing) + 1 /\ f[i] = p
        BY <3>1
      <3>3. Came(b, f)
        BY <1>3, <2>3, <3>2 DEF Came
      <3>4. InOrder(b, f)
        <4>1. ASSUME NEW i \in 1..Len(f), NEW j \in 1..Len(f), i < j
              PROVE  Before(b, f[i], f[j])
          <5>1. i \in 1..Len(firing) /\ f[i] = firing[i]
            BY <3>1, <4>1
          <5>2. QED
            BY <2>3, <3>2, <4>1, <5>1 DEF InOrder
        <4>2. QED
          BY <4>1 DEF InOrder
      <3>5. Ahead(b, woken, f)
        BY <1>3, <2>3, <3>2 DEF Ahead
      <3>6. \A q \in Firing : Ahead(b, carry[q], f)
        BY <2>4, <3>2 DEF Ahead
      <3>7. QED
        BY <1>1, <1>3, <1>5, <1>6, <2>1, <2>2, <2>4, <2>6, <3>3, <3>4, <3>5, <3>6 DEF OrderInv, f
    <2>7. QED
      BY <1>8, <2>5, <2>6 DEF Enter
  <1>9. QED
    BY <1>7, <1>8

LEMMA OrderStep ==
    ASSUME IInv, OrderInv, [Next]_vars
    PROVE  OrderInv'
  <1>0. /\ arrived \in Seq(Post) /\ woken \in Seq(Post) /\ g \in [Post -> Pc]
        /\ carry \in [Post -> Seq(Post)]
        /\ \A p, q \in Firing : p = q
        /\ \A p \in Post : p \in Firing <=> g[p] \in Busy
    BY DEF IInv, TypeOK, OneFireAtATime, Firing, Busy
  <1>1. ASSUME NEW p \in Post, Deliver(p) \/ Check(p) \/ Touch(p) \/ SettleGet(p)
                               \/ Count(p) \/ StopGet(p) \/ StopSave(p)
        PROVE  OrderInv'
    <2>1. UNCHANGED <<firing, carry, arrived, woken>>
      BY <1>1 DEF Deliver, Check, Touch, SettleGet, Count, StopGet, StopSave, histVars
    <2>2. PICK s \in Pc : g' = [g EXCEPT ![p] = s] /\ s \notin {"new"}
                          /\ (s = "enter" => g[p] = "new")
                          /\ (s \in Busy => g[p] \in Busy)
                          /\ (s \in {"check", "touch", "wake"} => g[p] \in {"check", "touch", "wake"})
      BY <1>1 DEF Deliver, Check, Touch, SettleGet, Count, StopGet, StopSave, Goto, Pc, Busy
    <2>3. QED
      BY <1>0, <2>1, <2>2, OrderQuiet DEF Firing, Busy
  <1>2. ASSUME NEW p \in Post, Enter(p) PROVE OrderInv'
    BY <1>2, OrderEnter
  <1>3. ASSUME NEW p \in Post, Wake(p) PROVE OrderInv'
    <2>1. /\ g[p] = "wake" /\ g' = [g EXCEPT ![p] = "settle"] /\ woken' = woken \o carry[p]
          /\ UNCHANGED <<firing, carry, arrived>>
      BY <1>3 DEF Wake, Goto
    <2>2. p \in Firing /\ Firing = {p} /\ Firing' \subseteq Firing
      BY <1>0, <2>1 DEF Firing, Busy, Pc
    <2>3. firing # None /\ firing \in Seq(Post)
      BY <2>2 DEF IInv, OneFireAtATime, TypeOK
    <2>4. Came(arrived, woken') /\ InOrder(arrived, woken')
      BY <1>0, <2>1, <2>2, JoinedOrder DEF OrderInv
    <2>5. Ahead(arrived, woken', firing)
      <3>1. /\ Len(woken) \in Nat /\ Len(carry[p]) \in Nat /\ Len(woken') = Len(woken) + Len(carry[p])
            /\ \A i \in 1..Len(woken') :
                  woken'[i] = IF i <= Len(woken) THEN woken[i] ELSE carry[p][i - Len(woken)]
        BY <1>0, <2>1, ConcatProperties
      <3>2. \A i \in 1..Len(woken') :
               \/ i \in 1..Len(woken) /\ woken'[i] = woken[i]
               \/ i - Len(woken) \in 1..Len(carry[p]) /\ woken'[i] = carry[p][i - Len(woken)]
        BY <3>1
      <3>3. Ahead(arrived, woken, firing) /\ Ahead(arrived, carry[p], firing)
        BY <2>2, <2>3 DEF OrderInv
      <3>4. QED
        BY <3>2, <3>3 DEF Ahead
    <2>6. \A k \in 1..Len(arrived) : g'[arrived[k]] \notin {"new", "enter"}
      BY <1>0, <2>1 DEF OrderInv
    <2>7. g'[p] = "settle"
      BY <1>0, <2>1
    <2>8. QED
      BY <2>1, <2>2, <2>4, <2>5, <2>6, <2>7 DEF OrderInv
  <1>4. ASSUME NEW p \in Post, Take(p) PROVE OrderInv'
    <2>1. /\ g[p] = "take" /\ carry' = [carry EXCEPT ![p] = firing] /\ firing' = <<>>
          /\ UNCHANGED <<arrived, woken>>
      BY <1>4 DEF Take, histVars
    <2>2. PICK s \in {"leave", "check"} : g' = [g EXCEPT ![p] = s]
      BY <1>4 DEF Take, Goto
    <2>3. p \in Firing /\ Firing = {p} /\ Firing' \subseteq {p}
      BY <1>0, <2>1, <2>2 DEF Firing, Busy, Pc
    <2>4. firing # None
      BY <2>3 DEF IInv, OneFireAtATime
    <2>5. Len(<<>>) = 0 /\ Came(arrived, <<>>) /\ InOrder(arrived, <<>>) /\ \A t : Ahead(arrived, t, <<>>)
      BY DEF Came, InOrder, Ahead
    <2>6. carry'[p] = firing /\ \A k \in 1..Len(arrived) : g'[arrived[k]] \notin {"new", "enter"}
      BY <1>0, <2>1, <2>2 DEF OrderInv
    <2>7. QED
      BY <2>1, <2>3, <2>4, <2>5, <2>6 DEF OrderInv
  <1>5. ASSUME NEW p \in Post, Leave(p) PROVE OrderInv'
    <2>1. /\ g[p] = "leave" /\ g' = [g EXCEPT ![p] = "done"] /\ firing' = None
          /\ UNCHANGED <<arrived, woken>>
      BY <1>5 DEF Leave, Goto
    <2>2. Firing' = {} /\ \A q \in Post : g'[q] \in {"new", "enter"} => g[q] \in {"new", "enter"}
      BY <1>0, <2>1 DEF Firing, Busy, Pc
    <2>3. QED
      BY <2>1, <2>2, OrderEnds
  <1>6. CASE Crash
    <2>1. /\ firing' = None /\ UNCHANGED <<arrived, woken>>
          /\ \A q \in Post : g'[q] \in {"new", "done"} /\ (g'[q] = "new" => g[q] = "new")
      BY <1>6 DEF Crash
    <2>2. Firing' = {}
      BY <2>1 DEF Firing
    <2>3. QED
      BY <2>1, <2>2, OrderEnds
  <1>7. CASE \/ \E op \in {"pause", "resume"} : Request(op)
             \/ PauseSave \/ ResumeSave \/ DeleteEventMonitor \/ UNCHANGED vars
    <2>1. UNCHANGED <<g, firing, carry, arrived, woken>>
      BY <1>7 DEF Request, PauseSave, ResumeSave, DeleteEventMonitor, vars, fireVars, histVars
    <2>2. QED
      BY <2>1, OrderQuiet DEF Firing
  <1>8. QED
    BY <1>1, <1>2, <1>3, <1>4, <1>5, <1>6, <1>7 DEF Next, FireStep, Fire

\* "Posts that arrive while one runs are held and delivered together as the
\* next fire": posts are delivered in the order in which they reached the
\* firing set, and none twice, for any number of posts and any crash.
THEOREM InOrderOfArrival == Spec => []DeliveredInOrder
  <1>1. Init => OrderInv
    <2> SUFFICES ASSUME Init PROVE OrderInv
      OBVIOUS
    <2>1. arrived = <<>> /\ woken = <<>> /\ firing = None /\ Firing = {} /\ Len(<<>>) = 0
      BY DEF Init, Firing
    <2>2. QED
      BY <2>1 DEF OrderInv, Came, InOrder, Ahead
  <1>2. IInv /\ OrderInv /\ [Next]_vars => OrderInv'
    BY OrderStep
  <1>3. IInv /\ OrderInv => DeliveredInOrder
    <2> SUFFICES ASSUME IInv, OrderInv PROVE DeliveredInOrder
      OBVIOUS
    <2>1. woken \in Seq(Post) /\ Len(woken) \in Nat /\ DOMAIN woken = 1..Len(woken)
      BY DEF IInv, TypeOK
    <2>2. \A i, j \in 1..Len(woken) : i < j => Before(arrived, woken[i], woken[j])
      BY DEF OrderInv, InOrder
    <2>3. \A x : ~Before(arrived, x, x)
      BY DEF OrderInv, Before, IInv, TypeOK
    <2>4. IsInjective(woken)
      <3>1. ASSUME NEW i \in 1..Len(woken), NEW j \in 1..Len(woken), woken[i] = woken[j], i # j
            PROVE  FALSE
        <4>1. i < j \/ j < i
          BY <2>1, <3>1
        <4>2. QED
          BY <2>2, <2>3, <3>1, <4>1
      <3>2. QED
        BY <2>1, <3>1 DEF IsInjective
    <2>5. QED
      BY <2>2, <2>4 DEF DeliveredInOrder, Before
  <1>4. QED
    BY <1>1, <1>2, <1>3, Invariance, PTL DEF Spec
=============================================================================
