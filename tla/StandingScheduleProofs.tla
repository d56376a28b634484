------------------------ MODULE StandingScheduleProofs ------------------------
(***************************************************************************)
(* Proofs about StandingSchedule for every set of tasks and owners and     *)
(* every timing: the types, one window on the record at a time, and from   *)
(* that what the owner asked for last and the one chain for any number of  *)
(* deaths; then, where no run is longer than the time to the next and      *)
(* nobody dies, that runs are kept apart and counted, failing and judged   *)
(* ones included.                                                          *)
(***************************************************************************)
EXTENDS StandingSchedule, FiniteSetTheorems, TLAPS

-----------------------------------------------------------------------------
(* Types *)

\* Which copies a thread has where it needs them.
CopyInv ==
    /\ \A p \in Thread : pc[p] \in Window \ {"count"} => cur[p] \in Record
    /\ \A p \in Thread : pc[p] \in {"count", "run", "judgeGet"} =>
                            p \in Task /\ sa[p] \in Record

TypeInv == TypeOK /\ CopyInv

\* The times the module's arithmetic meets stay in its ranges.
LEMMA Times ==
    /\ Far \in Nat /\ Backoff \in 1..Far /\ Grace \in Nat /\ Backoff \in Rel(Far)
    /\ \A g \in Gap : g \in 1..Far
    /\ None \in Rel(Far) /\ 0..Far \subseteq Rel(Far)
    /\ \A x \in Rel(Far) : Older(x) \in Rel(Far)
PROOF
  <1> DEFINE Longest(g) == \A h \in Gap : h <= g
             longest == CHOOSE g \in Gap : Longest(g)
  <1>1. \E g \in Gap : Longest(g)
    BY StandingAssumption
  <1>2. longest \in Gap /\ Longest(longest)
    BY <1>1
  <1>3. Far = Backoff + longest
    BY DEF Far
  <1>4. Gap \subseteq Nat \ {0} /\ Backoff \in Nat \ {0} /\ Grace \in Nat
    BY StandingAssumption
  <1> HIDE DEF longest
  <1>5. Far \in Nat /\ Backoff \in 1..Far /\ \A h \in Gap : h \in 1..Far
    <2>1. longest \in Nat \ {0} /\ \A h \in Gap : h <= longest
      BY <1>2, <1>4
    <2>2. QED
      BY <2>1, <1>3, <1>4
  <1>6. None \in Rel(Far) /\ 0..Far \subseteq Rel(Far)
    BY <1>4, <1>5 DEF Rel
  <1>7. ASSUME NEW x \in Rel(Far) PROVE Older(x) \in Rel(Far)
    <2>1. CASE x = None
      BY <2>1, <1>6 DEF Older, Unless
    <2>2. CASE x # None
      <3>1. x \in (-(Grace + 1))..Far
        BY <2>2 DEF Rel
      <3>2. Older(x) \in (-(Grace + 1))..Far
        BY <2>2, <3>1, <1>4, <1>5 DEF Older, Unless
      <3>3. QED
        BY <3>2 DEF Rel
    <2>3. QED
      BY <2>1, <2>2
  <1>8. QED
    BY <1>4, <1>5, <1>6, <1>7

\* What the operations make of a record is a record.
LEMMA RecordFields ==
    ASSUME NEW r \in Record
    PROVE  /\ r # None
           /\ r.sid \in Task \cup {None} /\ r.runs \in 0..RunCap
           /\ r.ask \in Rel(Far) /\ r.next \in Rel(Far)
           /\ r.paused \in BOOLEAN /\ r.broken \in BOOLEAN
PROOF
  <1>1. r # None
    BY NoneAssumption
  <1>2. QED
    BY <1>1 DEF Record

LEMMA RecordEdits ==
    /\ \A r \in Record : /\ Counted(r) \in Record /\ Delayed(r) \in Record /\ Met(r) \in Record
                         /\ Ended(r) \in Record /\ Parked(r) \in Record /\ Paused(r) \in Record
                         /\ Released(r) \in Record /\ Aged(r) \in Record
    /\ \A r \in Record, b \in BOOLEAN : Resumed(r, b) \in Record
    /\ \A r \in Record, t \in Task, n \in 0..Far : Armed(r, t, n) \in Record
PROOF
  <1>1. None \in Rel(Far) /\ Backoff \in Rel(Far) /\ 0..Far \subseteq Rel(Far)
    BY Times
  <1>2. ASSUME NEW r \in Record PROVE Counted(r) \in Record
    <2>1. r.runs \in 0..RunCap /\ RunCap \in Nat
      BY RecordFields, StandingAssumption
    <2>2. AtMost(r.runs + 1, RunCap) \in 0..RunCap
      BY <2>1 DEF AtMost
    <2>3. QED
      BY <2>2 DEF Counted, Record
  <1>3. ASSUME NEW r \in Record PROVE Delayed(r) \in Record /\ Met(r) \in Record
    BY <1>1 DEF Delayed, Met, Record
  <1>4. ASSUME NEW r \in Record PROVE Ended(r) \in Record /\ Parked(r) \in Record
    BY <1>1 DEF Ended, Parked, Record
  <1>5. ASSUME NEW r \in Record PROVE Paused(r) \in Record /\ Released(r) \in Record
    BY <1>1 DEF Paused, Released, Record
  <1>6. ASSUME NEW r \in Record PROVE Aged(r) \in Record
    <2>1. r # None /\ Older(r.next) \in Rel(Far) /\ Older(r.ask) \in Rel(Far)
      BY RecordFields, Times
    <2>2. Aged(r) = [r EXCEPT !.next = Older(@), !.ask = Older(@)]
      BY <2>1 DEF Aged, Unless
    <2>3. QED
      BY <2>1, <2>2 DEF Record
  <1>7. ASSUME NEW r \in Record, NEW b \in BOOLEAN PROVE Resumed(r, b) \in Record
    <2>1. (IF r.stop = "ended" THEN 0 ELSE r.runs) \in 0..RunCap
      BY RecordFields, StandingAssumption
    <2>2. QED
      BY <2>1 DEF Resumed, Record
  <1>8. ASSUME NEW r \in Record, NEW t \in Task, NEW n \in 0..Far PROVE Armed(r, t, n) \in Record
    BY <1>1 DEF Armed, Record
  <1>9. QED
    BY <1>2, <1>3, <1>4, <1>5, <1>6, <1>7, <1>8

\* A thread moves on with a copy.
LEMMA GoToTypes ==
    ASSUME TypeInv, NEW p \in Thread, NEW q, NEW r \in Record \cup {None},
           q \in (Window \cup Calm) \ {"count", "run"},
           q \in Window => r \in Record,
           q = "judgeGet" => p \in Task /\ sa[p] \in Record,
           GoTo(p, q, r)
    PROVE  /\ pc' \in [Thread -> Window \cup Calm]
           /\ cur' \in [Thread -> Record \cup {None}]
           /\ sa' \in [Task -> Record \cup {None}]
           /\ CopyInv'
           /\ \A u \in Thread : pc'[u] = IF u = p THEN q ELSE pc[u]
PROOF
  <1>1. /\ pc' = [pc EXCEPT ![p] = q]
        /\ cur' = [cur EXCEPT ![p] = IF q = "idle" THEN None ELSE r]
        /\ sa' = IF p \in Task /\ q # "judgeGet" THEN [sa EXCEPT ![p] = None] ELSE sa
    BY DEF GoTo
  <1>2. /\ pc \in [Thread -> Window \cup Calm]
        /\ cur \in [Thread -> Record \cup {None}]
        /\ sa \in [Task -> Record \cup {None}]
    BY DEF TypeInv, TypeOK
  <1>3. /\ pc' \in [Thread -> Window \cup Calm]
        /\ cur' \in [Thread -> Record \cup {None}]
        /\ sa' \in [Task -> Record \cup {None}]
    BY <1>1, <1>2
  <1>4. \A u \in Thread : /\ pc'[u] = IF u = p THEN q ELSE pc[u]
                          /\ cur'[u] = IF u = p THEN (IF q = "idle" THEN None ELSE r) ELSE cur[u]
    BY <1>1, <1>2
  <1>5. \A t \in Task : sa'[t] = IF t = p /\ q # "judgeGet" THEN None ELSE sa[t]
    BY <1>1, <1>2 DEF Thread
  <1>6. q = "idle" => q \notin Window
    BY DEF Window
  <1>7. CopyInv'
    <2>1. ASSUME NEW u \in Thread, pc'[u] \in Window \ {"count"} PROVE cur'[u] \in Record
      BY <2>1, <1>4, <1>6 DEF TypeInv, CopyInv
    <2>2. ASSUME NEW u \in Thread, pc'[u] \in {"count", "run", "judgeGet"}
          PROVE  u \in Task /\ sa'[u] \in Record
      <3>1. CASE u = p
        BY <2>2, <3>1, <1>4, <1>5
      <3>2. CASE u # p
        BY <2>2, <3>2, <1>4, <1>5 DEF TypeInv, CopyInv
      <3>3. QED
        BY <3>1, <3>2
    <2>3. QED
      BY <2>1, <2>2 DEF CopyInv
  <1>8. QED
    BY <1>3, <1>4, <1>7

LEMMA Threads == /\ Task \subseteq Thread /\ Owner \subseteq Thread /\ "rearm" \in Thread
                 /\ "rearm" \notin Task /\ Owner \cap Task = {} /\ None \notin Task
  BY StandingAssumption DEF Thread

LEMMA NewIdFacts ==
    ASSUME Unused # {}
    PROVE  /\ NewId \in Task /\ tasks[NewId] = None /\ pc[NewId] = "idle"
           /\ rec # None => rec.sid # NewId
           /\ \A p \in Thread : cur[p] # None => cur[p].sid # NewId
           /\ \A u \in Task : sa[u] # None => sa[u].sid # NewId
PROOF
  <1>1. NewId \in Unused
    BY DEF NewId
  <1>2. QED
    BY <1>1 DEF Unused

LEMMA RowFacts ==
    ASSUME TypeOK, NEW r \in Record
    PROVE  /\ Unscheduled(r) \in [Task -> TaskRow \cup {None}]
           /\ \A t \in Task : Unscheduled(r)[t] = IF t = r.sid THEN None ELSE tasks[t]
PROOF
  <1>1. tasks \in [Task -> TaskRow \cup {None}] /\ r.sid \in Task \cup {None}
    BY RecordFields DEF TypeOK
  <1>2. None \notin Task
    BY Threads
  <1>3. QED
    BY <1>1, <1>2 DEF Unscheduled

LEMMA QueuedFacts ==
    ASSUME TypeOK, NEW t \in Task, NEW n \in 0..Far, NEW why \in {"schedule", "manual"}
    PROVE  /\ Queued(t, n, why) \in [Task -> TaskRow \cup {None}]
           /\ Queued(t, n, why)[t] # None
           /\ Queued(t, n, why)[t].at = n /\ Queued(t, n, why)[t].trig = why
           /\ \A u \in Task \ {t} : Queued(t, n, why)[u] = tasks[u]
PROOF
  <1>1. [at |-> n, trig |-> why] \in TaskRow
    BY DEF TaskRow
  <1>2. [at |-> n, trig |-> why] # None
    BY <1>1, NoneAssumption
  <1>3. QED
    BY <1>1, <1>2 DEF Queued, TypeOK

\* TypeInv in two halves: where the threads are, and the rest.
MoveOK ==
    /\ pc \in [Thread -> Window \cup Calm]
    /\ cur \in [Thread -> Record \cup {None}]
    /\ sa \in [Task -> Record \cup {None}]
    /\ CopyInv

RestOK ==
    /\ rec \in Record \cup {None}
    /\ tasks \in [Task -> TaskRow \cup {None}]
    /\ trig \in [Task -> {"schedule", "manual"}]
    /\ ran \in [Task -> 0..RunTime]
    /\ live \in BOOLEAN
    /\ op \in [Owner -> Kind \cup {"recreate"}]
    /\ ops \in 0..MaxOps /\ crashes \in 0..MaxCrash
    /\ word \in {"run", "stop", "gone"}
    /\ started \in 0..RunCap

LEMMA TypeParts == /\ TypeInv <=> RestOK /\ MoveOK
                   /\ TypeInv' <=> RestOK' /\ MoveOK'
  BY DEF TypeInv, TypeOK, RestOK, MoveOK

\* GoToTypes for a thread that opens or keeps no window, and for one that does.
LEMMA MoveCalm ==
    ASSUME TypeInv, NEW p \in Thread, NEW q \in {"idle", "get", "failGet", "parkGet", "rearm", "serve", "read"},
           NEW r \in Record \cup {None}, GoTo(p, q, r)
    PROVE  MoveOK'
  BY GoToTypes DEF MoveOK, Window, Calm

LEMMA MoveWindow ==
    ASSUME TypeInv, NEW p \in Thread, NEW q \in Window \ {"count"}, NEW r \in Record, GoTo(p, q, r)
    PROVE  MoveOK'
  BY GoToTypes DEF MoveOK, Window

LEMMA NextRunIs ==
    ASSUME NEW r \in Record, NEW gap \in Gap
    PROVE  NextRun(r, gap) \in 0..Far
PROOF
  <1>1. gap \in 0..Far /\ Far \in Nat /\ Grace \in Nat
    BY Times
  <1>2. r.ask \in Rel(Far)
    BY RecordFields
  <1>3. r.ask # None => r.ask \in (-(Grace + 1))..Far
    BY <1>2 DEF Rel
  <1>4. QED
    BY <1>1, <1>3 DEF NextRun

LEMMA DeferredIs == \A t \in Task : Deferred(t) \in {"rearm", "idle"}
  BY DEF Deferred

\* Arming, parking and re-arming, which handlers, owners and the reconciler share.
LEMMA SharedTypes ==
    ASSUME TypeInv, NEW p \in Thread, Shared(p)
    PROVE  TypeInv'
PROOF
  <1>0. RestOK /\ MoveOK
    BY TypeParts
  <1>1. pc[p] \in Window \ {"count"} => cur[p] \in Record
    BY DEF TypeInv, CopyInv
  <1>2. CASE Unsched(p)
    <2>1. cur[p] \in Record
      BY <1>1, <1>2 DEF Unsched, Window
    <2>2. MoveOK'
      BY <1>2, <2>1, MoveWindow DEF Unsched, Window
    <2>3. RestOK'
      BY <1>0, <1>2, <2>1, RowFacts DEF TypeInv, Unsched, RestOK
    <2>4. QED
      BY <2>2, <2>3, TypeParts
  <1>3. CASE Arm(p)
    <2>1. cur[p] \in Record
      BY <1>1, <1>3 DEF Arm, Window
    <2>2. CASE GoTo(p, "save", Ended(cur[p])) /\ UNCHANGED tasks
      <3>1. Ended(cur[p]) \in Record
        BY <2>1, RecordEdits
      <3>2. MoveOK'
        BY <2>2, <3>1, MoveWindow DEF Window
      <3>3. RestOK'
        BY <1>0, <1>3, <2>2 DEF Arm, RestOK
      <3>4. QED
        BY <3>2, <3>3, TypeParts
    <2>3. ASSUME NEW gap \in Gap, Unused # {},
                 tasks' = Queued(NewId, NextRun(cur[p], gap), "schedule"),
                 GoTo(p, "save", Armed(cur[p], NewId, NextRun(cur[p], gap)))
          PROVE  TypeInv'
      <3>1. NewId \in Task /\ NextRun(cur[p], gap) \in 0..Far
        BY <2>1, <2>3, NewIdFacts, NextRunIs
      <3>3. Armed(cur[p], NewId, NextRun(cur[p], gap)) \in Record
        BY <2>1, <3>1, RecordEdits
      <3>4. MoveOK'
        BY <2>3, <3>3, MoveWindow DEF Window
      <3>5. tasks' \in [Task -> TaskRow \cup {None}]
        BY <2>3, <3>1, QueuedFacts DEF TypeInv
      <3>6. RestOK'
        BY <1>0, <1>3, <3>5 DEF Arm, RestOK
      <3>7. QED
        BY <3>4, <3>6, TypeParts
    <2>4. QED
      BY <1>3, <2>2, <2>3 DEF Arm
  <1>4. CASE Save(p)
    <2>1. cur[p] \in Record
      BY <1>1, <1>4 DEF Save, Window
    <2>2. MoveOK'
      BY <1>4, MoveCalm DEF Save
    <2>3. RestOK'
      BY <1>0, <1>4, <2>1 DEF Save, RestOK
    <2>4. QED
      BY <2>2, <2>3, TypeParts
  <1>5. CASE ParkGet(p)
    <2>1. RestOK'
      BY <1>0, <1>5 DEF ParkGet, RestOK
    <2>2. CASE rec = None
      <3>1. (IF p \in Task THEN Deferred(p) ELSE "idle") \in {"rearm", "idle"}
        BY DeferredIs
      <3>2. MoveOK'
        BY <1>5, <2>2, <3>1, MoveCalm DEF ParkGet
      <3>3. QED
        BY <2>1, <3>2, TypeParts
    <2>3. CASE rec # None
      <3>1. rec \in Record
        BY <1>0, <2>3 DEF RestOK
      <3>2. MoveOK'
        BY <1>5, <2>3, <3>1, MoveWindow DEF ParkGet, Window
      <3>3. QED
        BY <2>1, <3>2, TypeParts
    <2>4. QED
      BY <2>2, <2>3
  <1>6. CASE ParkUnsched(p)
    <2>1. cur[p] \in Record
      BY <1>1, <1>6 DEF ParkUnsched, Window
    <2>2. Parked(cur[p]) \in Record
      BY <2>1, RecordEdits
    <2>3. MoveOK'
      BY <1>6, <2>2, MoveWindow DEF ParkUnsched, Window
    <2>4. RestOK'
      BY <1>0, <1>6, <2>1, RowFacts DEF TypeInv, ParkUnsched, RestOK
    <2>5. QED
      BY <2>3, <2>4, TypeParts
  <1>7. CASE ParkSave(p)
    <2>1. cur[p] \in Record
      BY <1>1, <1>7 DEF ParkSave, Window
    <2>2. (IF p \in Task THEN Deferred(p) ELSE "idle") \in {"rearm", "idle"}
      BY DeferredIs
    <2>3. MoveOK'
      BY <1>7, <2>2, MoveCalm DEF ParkSave
    <2>4. RestOK'
      BY <1>0, <1>7, <2>1 DEF ParkSave, RestOK
    <2>5. QED
      BY <2>3, <2>4, TypeParts
  <1>8. QED
    BY <1>2, <1>3, <1>4, <1>5, <1>6, <1>7 DEF Shared

\* A fire, from the due row to the deferred re-arm.
LEMMA HandlerTypes ==
    ASSUME TypeInv, NEW t \in Task, Fire(t) \/ Handler(t)
    PROVE  TypeInv'
PROOF
  <1>0. RestOK /\ MoveOK /\ t \in Thread /\ Deferred(t) \in {"rearm", "idle"}
    BY TypeParts, Threads, DeferredIs
  <1>1. /\ pc[t] \in Window \ {"count"} => cur[t] \in Record
        /\ pc[t] \in {"count", "run", "judgeGet"} => sa[t] \in Record
    BY <1>0 DEF TypeInv, CopyInv
  <1>2. rec # None => rec \in Record
    BY <1>0 DEF RestOK
  <1>3. \A n \in 0..RunCap : AtMost(n + 1, RunCap) \in 0..RunCap
    BY StandingAssumption DEF AtMost
  <1>4. CASE Fire(t)
    <2>1. MoveOK'
      BY <1>0, <1>4, MoveCalm DEF Fire
    <2>2. tasks[t] \in TaskRow /\ tasks[t].trig \in {"schedule", "manual"}
      BY <1>0, <1>4 DEF Fire, RestOK, TaskRow
    <2>3. 0 \in 0..RunTime
      BY StandingAssumption
    <2>4. RestOK'
      BY <1>0, <1>4, <2>2, <2>3 DEF Fire, RestOK
    <2>5. QED
      BY <2>1, <2>4, TypeParts
  <1>5. CASE HandlerGet(t)
    <2>1. RestOK'
      BY <1>0, <1>5 DEF HandlerGet, RestOK
    <2>2. CASE GoTo(t, Deferred(t), None)
      BY <2>1, <2>2, <1>0, MoveCalm, TypeParts
    <2>3. CASE GoTo(t, "parkGet", None)
      BY <2>1, <2>3, <1>0, MoveCalm, TypeParts
    <2>4. ASSUME NEW q \in {"run", "count"}, NEW r \in Record,
                 pc' = [pc EXCEPT ![t] = q], sa' = [sa EXCEPT ![t] = r], UNCHANGED cur
          PROVE  TypeInv'
      <3>1. \A u \in Thread : pc'[u] = IF u = t THEN q ELSE pc[u]
        BY <1>0, <2>4 DEF MoveOK
      <3>2. \A u \in Task : sa'[u] = IF u = t THEN r ELSE sa[u]
        BY <2>4, <1>0 DEF MoveOK
      <3>3. q \in Window \cup Calm /\ q \notin Window \ {"count"}
        BY DEF Window, Calm
      <3>4. CopyInv'
        BY <3>1, <3>2, <3>3, <2>4, <1>0 DEF MoveOK, CopyInv
      <3>5. MoveOK'
        BY <2>4, <3>3, <3>4, <1>0 DEF MoveOK
      <3>6. QED
        BY <2>1, <3>5, TypeParts
    <2>5. CASE Active /\ trig[t] = "manual" /\ pc' = [pc EXCEPT ![t] = "run"]
               /\ sa' = [sa EXCEPT ![t] = rec] /\ UNCHANGED cur
      BY <2>4, <2>5, <1>2 DEF Active
    <2>6. CASE Active /\ pc' = [pc EXCEPT ![t] = "count"] /\ UNCHANGED cur
               /\ sa' = [sa EXCEPT ![t] = Counted(rec)]
      <3>1. rec \in Record
        BY <2>6, <1>2 DEF Active
      <3>2. Counted(rec) \in Record
        BY <3>1, RecordEdits
      <3>3. QED
        BY <2>4, <2>6, <3>2
    <2>7. QED
      BY <1>5, <2>2, <2>3, <2>5, <2>6 DEF HandlerGet
  <1>6. CASE HandlerCount(t)
    <2>1. sa[t] \in Record
      BY <1>1, <1>6 DEF HandlerCount
    <2>2. RestOK'
      BY <1>0, <1>3, <1>6, <2>1 DEF HandlerCount, RestOK
    <2>3. /\ pc' = [pc EXCEPT ![t] = "run"] /\ UNCHANGED <<cur, sa>>
          /\ \A u \in Thread : pc'[u] = IF u = t THEN "run" ELSE pc[u]
      BY <1>0, <1>6 DEF HandlerCount, MoveOK
    <2>4. "run" \in Window \cup Calm /\ "run" \notin Window \ {"count"}
      BY DEF Window, Calm
    <2>5. CopyInv'
      BY <2>1, <2>3, <2>4, <1>0 DEF MoveOK, CopyInv
    <2>6. MoveOK'
      BY <2>3, <2>4, <2>5, <1>0 DEF MoveOK
    <2>7. QED
      BY <2>2, <2>6, TypeParts
  <1>7. CASE RunEnds(t)
    <2>1. RestOK'
      BY <1>0, <1>7 DEF RunEnds, RestOK
    <2>2. CASE GoTo(t, Deferred(t), None) \/ GoTo(t, "failGet", None)
      BY <2>1, <2>2, <1>0, MoveCalm, TypeParts
    <2>3. CASE GoTo(t, "judgeGet", None)
      <3>1. sa[t] \in Record
        BY <1>1, <1>7 DEF RunEnds
      <3>2. MoveOK'
        BY <1>0, <2>3, <3>1, GoToTypes DEF MoveOK, Window, Calm
      <3>3. QED
        BY <2>1, <3>2, TypeParts
    <2>4. QED
      BY <1>7, <2>2, <2>3 DEF RunEnds
  <1>8. CASE FailGet(t)
    <2>1. RestOK'
      BY <1>0, <1>8 DEF FailGet, RestOK
    <2>2. CASE rec = None
      BY <1>0, <1>8, <2>1, <2>2, MoveCalm, TypeParts DEF FailGet
    <2>3. CASE rec # None
      <3>1. (IF rec.ask = None THEN Delayed(rec) ELSE rec) \in Record
        BY <1>2, <2>3, RecordEdits
      <3>2. MoveOK'
        BY <1>0, <1>8, <2>3, <3>1, MoveWindow DEF FailGet, Window
      <3>3. QED
        BY <2>1, <3>2, TypeParts
    <2>4. QED
      BY <2>2, <2>3
  <1>9. CASE FailSave(t)
    <2>1. cur[t] \in Record
      BY <1>1, <1>9 DEF FailSave, Window
    <2>2. MoveOK'
      BY <1>0, <1>9, MoveCalm DEF FailSave
    <2>3. RestOK'
      BY <1>0, <1>9, <2>1 DEF FailSave, RestOK
    <2>4. QED
      BY <2>2, <2>3, TypeParts
  <1>10. CASE JudgeGet(t)
    <2> DEFINE c == IF rec = None THEN sa[t] ELSE rec
    <2>1. c \in Record
      BY <1>1, <1>2, <1>10 DEF JudgeGet
    <2>2. PICK r \in {Met(c), c, Delayed(c)} : GoTo(t, "judgeSave", r)
      BY <1>10 DEF JudgeGet
    <2> HIDE DEF c
    <2>6. r \in Record
      BY <2>1, <2>2, RecordEdits
    <2>3. MoveOK'
      BY <1>0, <2>2, <2>6, MoveWindow DEF Window
    <2>4. RestOK'
      BY <1>0, <1>10 DEF JudgeGet, RestOK
    <2>5. QED
      BY <2>3, <2>4, TypeParts
  <1>11. CASE JudgeSave(t)
    <2>1. cur[t] \in Record
      BY <1>1, <1>11 DEF JudgeSave, Window
    <2>2. MoveOK'
      BY <1>0, <1>11, MoveCalm DEF JudgeSave
    <2>3. RestOK'
      BY <1>0, <1>11, <2>1 DEF JudgeSave, RestOK
    <2>4. QED
      BY <2>2, <2>3, TypeParts
  <1>12. CASE Rearm(t)
    <2>1. RestOK'
      BY <1>0, <1>12 DEF Rearm, RestOK
    <2>2. CASE Active
      <3>1. MoveOK'
        BY <1>0, <1>2, <1>12, <2>2, MoveWindow DEF Rearm, Active, Window
      <3>2. QED
        BY <2>1, <3>1, TypeParts
    <2>3. CASE ~Active
      BY <1>0, <1>12, <2>1, <2>3, MoveCalm, TypeParts DEF Rearm
    <2>4. QED
      BY <2>2, <2>3
  <1>13. QED
    BY <1>4, <1>5, <1>6, <1>7, <1>8, <1>9, <1>10, <1>11, <1>12 DEF Handler

\* The owner's requests: what opens a window ...
LEMMA OpenTypes ==
    ASSUME TypeInv, NEW o \in Owner, Request(o, op'[o]) \/ Serve(o), op'[o] \in Kind \cup {"recreate"}
    PROVE  TypeInv'
PROOF
  <1>0. RestOK /\ MoveOK /\ o \in Thread
    BY TypeParts, Threads
  <1>1. rec # None => rec \in Record
    BY <1>0 DEF RestOK
  <1>2. CASE Request(o, op'[o])
    <2>1. MoveOK'
      BY <1>0, <1>2, MoveCalm DEF Request
    <2>2. ops' \in 0..MaxOps
      BY <1>0, <1>2, StandingAssumption DEF Request, RestOK
    <2>3. op' \in [Owner -> Kind \cup {"recreate"}]
      BY <1>0, <1>2 DEF Request, RestOK
    <2>4. RestOK'
      BY <1>0, <1>2, <2>2, <2>3 DEF Request, RestOK
    <2>5. QED
      BY <2>1, <2>4, TypeParts
  <1>3. CASE Serve(o)
    <2>1. RestOK'
      BY <1>0, <1>3 DEF Serve, RestOK
    <2>2. ASSUME NEW q \in Window \ {"count"}, NEW r \in Record, GoTo(o, q, r) PROVE TypeInv'
      BY <2>1, <2>2, <1>0, MoveWindow, TypeParts
    <2>3. CASE CreateGet(o)
      <3>1. Fresh \in Record
        BY StandingAssumption, Times DEF Fresh, Record
      <3>2. QED
        BY <2>2, <2>3, <3>1 DEF CreateGet, Window
    <2>4. CASE PauseGet(o)
      <3>1. Paused(rec) \in Record
        BY <2>4, <1>1, RecordEdits DEF PauseGet
      <3>2. QED
        BY <2>2, <2>4, <3>1 DEF PauseGet, Window
    <2>5. CASE ResumeGet(o)
      <3>1. PICK broken \in {FALSE, rec.broken} : GoTo(o, "resumeSave", Resumed(rec, broken))
        BY <2>5 DEF ResumeGet
      <3>2. rec \in Record
        BY <2>5, <1>1 DEF ResumeGet
      <3>3. Resumed(rec, broken) \in Record
        BY <3>2, RecordFields, RecordEdits
      <3>4. QED
        BY <2>2, <3>1, <3>3 DEF Window
    <2>6. CASE EditGet(o)
      BY <2>2, <2>6, <1>1 DEF EditGet, Window
    <2>7. CASE DeleteGet(o)
      BY <2>2, <2>7, <1>1 DEF DeleteGet, Window
    <2>8. CASE BreakGet(o)
      BY <2>2, <2>8, <1>1 DEF BreakGet, Window
    <2>9. CASE GoTo(o, "idle", None)
      BY <2>1, <2>9, <1>0, MoveCalm, TypeParts
    <2>10. QED
      BY <1>3, <2>3, <2>4, <2>5, <2>6, <2>7, <2>8, <2>9 DEF Serve
  <1>4. QED
    BY <1>2, <1>3

\* ... and what ends one.
LEMMA ServedTypes ==
    ASSUME TypeInv, NEW o \in Owner,
           \/ RunStandingNow(o) \/ CreateSave(o) \/ PauseUnsched(o) \/ PauseSave(o)
           \/ ResumeSave(o) \/ EditSave(o) \/ DeleteUnsched(o) \/ DeleteUnset(o)
    PROVE  TypeInv'
PROOF
  <1>0. RestOK /\ MoveOK /\ o \in Thread /\ TypeOK
    BY TypeParts, Threads DEF TypeInv
  <1>1. pc[o] \in Window \ {"count"} => cur[o] \in Record
    BY <1>0 DEF TypeInv, CopyInv
  <1>2. 0 \in 0..RunCap
    BY StandingAssumption
  <1>3. CASE RunStandingNow(o)
    <2>1. MoveOK'
      BY <1>0, <1>3, MoveCalm DEF RunStandingNow
    <2>2. tasks' \in [Task -> TaskRow \cup {None}]
      <3>1. CASE UNCHANGED tasks
        BY <1>0, <3>1 DEF RestOK
      <3>2. CASE Unused # {} /\ tasks' = Queued(NewId, 0, "manual")
        BY <1>0, <3>2, NewIdFacts, QueuedFacts, Times
      <3>3. QED
        BY <1>3, <3>1, <3>2 DEF RunStandingNow
    <2>3. RestOK'
      BY <1>0, <1>3, <2>2 DEF RunStandingNow, RestOK
    <2>4. QED
      BY <2>1, <2>3, TypeParts
  <1>4. CASE CreateSave(o) \/ ResumeSave(o)
    <2>1. cur[o] \in Record /\ GoTo(o, "unsched", cur[o])
      BY <1>1, <1>4 DEF CreateSave, ResumeSave, Window
    <2>2. MoveOK'
      BY <1>0, <2>1, MoveWindow DEF Window
    <2>3. RestOK'
      BY <1>0, <1>2, <1>4, <2>1 DEF CreateSave, ResumeSave, RestOK
    <2>4. QED
      BY <2>2, <2>3, TypeParts
  <1>5. CASE PauseUnsched(o)
    <2>1. cur[o] \in Record
      BY <1>1, <1>5 DEF PauseUnsched, Window
    <2>2. (IF cur[o].sid = None THEN cur[o] ELSE Released(cur[o])) \in Record
      BY <2>1, RecordEdits
    <2>3. MoveOK'
      BY <1>0, <1>5, <2>2, MoveWindow DEF PauseUnsched, Window
    <2>4. RestOK'
      BY <1>0, <1>5, <2>1, RowFacts DEF PauseUnsched, RestOK
    <2>5. QED
      BY <2>3, <2>4, TypeParts
  <1>6. CASE DeleteUnsched(o)
    <2>1. cur[o] \in Record
      BY <1>1, <1>6 DEF DeleteUnsched, Window
    <2>2. MoveOK'
      BY <1>0, <1>6, <2>1, MoveWindow DEF DeleteUnsched, Window
    <2>3. RestOK'
      BY <1>0, <1>6, <2>1, RowFacts DEF DeleteUnsched, RestOK
    <2>4. QED
      BY <2>2, <2>3, TypeParts
  <1>7. CASE PauseSave(o) \/ EditSave(o) \/ DeleteUnset(o)
    <2>1. cur[o] \in Record /\ GoTo(o, "idle", None)
      BY <1>1, <1>7 DEF PauseSave, EditSave, DeleteUnset, Window
    <2>2. MoveOK'
      BY <1>0, <2>1, MoveCalm
    <2>3. RestOK'
      BY <1>0, <1>7, <2>1 DEF PauseSave, EditSave, DeleteUnset, RestOK
    <2>4. QED
      BY <2>2, <2>3, TypeParts
  <1>8. QED
    BY <1>3, <1>4, <1>5, <1>6, <1>7

LEMMA TickRows ==
    ASSUME RestOK, Tick
    PROVE  /\ tasks' \in [Task -> TaskRow \cup {None}]
           /\ \A t \in Task : /\ tasks'[t] = None <=> tasks[t] = None
                              /\ tasks[t] # None =>
                                    /\ tasks'[t].trig = tasks[t].trig
                                    /\ tasks'[t].at = IF tasks[t].at > 0 THEN tasks[t].at - 1 ELSE 0
PROOF
  <1>1. ASSUME NEW row \in TaskRow
        PROVE  /\ Sooner(row) \in TaskRow /\ Sooner(row).trig = row.trig
               /\ Sooner(row).at = IF row.at > 0 THEN row.at - 1 ELSE 0
    <2>1. row # None /\ row.at \in 0..Far /\ Far \in Nat
      BY NoneAssumption, Times DEF TaskRow
    <2>2. (IF row.at > 0 THEN row.at - 1 ELSE 0) \in 0..Far
      BY <2>1
    <2>3. Sooner(row) = [row EXCEPT !.at = IF row.at > 0 THEN row.at - 1 ELSE 0]
      BY <2>1 DEF Sooner, Unless
    <2>4. QED
      BY <2>2, <2>3 DEF TaskRow
  <1>2. /\ tasks' = [t \in Task |-> Sooner(tasks[t])]
        /\ \A t \in Task : tasks[t] \in TaskRow \cup {None}
        /\ Sooner(None) = None /\ None \notin TaskRow
    BY NoneAssumption DEF Tick, RestOK, Sooner, Unless
  <1>3. QED
    BY <1>1, <1>2

\* The reconciler, the clock and a death.
LEMMA WorldTypes ==
    ASSUME TypeInv, ListTasks \/ Reconcile \/ Tick \/ Crash
    PROVE  TypeInv'
PROOF
  <1>0. RestOK /\ MoveOK /\ "rearm" \in Thread
    BY TypeParts, Threads
  <1>1. CASE ListTasks
    <2>1. MoveOK'
      BY <1>0, <1>1, MoveCalm DEF ListTasks
    <2>2. RestOK'
      BY <1>0, <1>1 DEF ListTasks, RestOK
    <2>3. QED
      BY <2>1, <2>2, TypeParts
  <1>2. CASE Reconcile
    <2>1. ASSUME Active /\ Stranded(rec) PROVE MoveOK'
      <3>1. rec \in Record
        BY <1>0, <2>1 DEF Active, RestOK
      <3>2. GoTo("rearm", "unsched", rec)
        BY <1>2, <2>1 DEF Reconcile
      <3>3. QED
        BY <1>0, <3>1, <3>2, MoveWindow DEF Window
    <2>2. ASSUME ~(Active /\ Stranded(rec)) PROVE MoveOK'
      <3>1. GoTo("rearm", "idle", None)
        BY <1>2, <2>2 DEF Reconcile
      <3>2. QED
        BY <1>0, <3>1, MoveCalm
    <2>3. MoveOK'
      BY <2>1, <2>2
    <2>4. RestOK'
      BY <1>0, <1>2 DEF Reconcile, RestOK
    <2>5. QED
      BY <2>3, <2>4, TypeParts
  <1>3. CASE Tick
    <2>1. \A r \in Record \cup {None} : /\ Aged(r) \in Record \cup {None}
                                        /\ r \in Record => Aged(r) \in Record
      <3>1. Aged(None) = None
        BY DEF Aged, Unless
      <3>2. QED
        BY <3>1, RecordEdits
    <2>2. MoveOK'
      <3>1. cur' \in [Thread -> Record \cup {None}] /\ sa' \in [Task -> Record \cup {None}]
        BY <1>0, <1>3, <2>1 DEF Tick, MoveOK
      <3>2. CopyInv'
        BY <1>0, <1>3, <2>1 DEF Tick, MoveOK, CopyInv
      <3>3. QED
        BY <1>0, <1>3, <3>1, <3>2 DEF Tick, MoveOK
    <2>3. tasks' \in [Task -> TaskRow \cup {None}]
      BY <1>0, <1>3, TickRows
    <2>4. ran' \in [Task -> 0..RunTime]
      <3>1. \A t \in Task : ran[t] \in 0..RunTime /\ (pc[t] # "idle" => ran[t] < RunTime) /\ RunTime \in Nat
        BY <1>0, <1>3, StandingAssumption DEF Tick, RestOK
      <3>2. QED
        BY <1>3, <3>1 DEF Tick
    <2>5. RestOK'
      BY <1>0, <1>3, <2>1, <2>3, <2>4 DEF Tick, RestOK
    <2>6. QED
      BY <2>2, <2>5, TypeParts
  <1>4. CASE Crash
    <2>1. "idle" \in Window \cup Calm /\ "idle" \notin Window
      BY DEF Window, Calm
    <2>2. MoveOK'
      BY <1>0, <1>4, <2>1 DEF Crash, MoveOK, CopyInv
    <2>3. 0 \in 0..RunTime /\ crashes' \in 0..MaxCrash
      BY <1>0, <1>4, StandingAssumption DEF Crash, RestOK
    <2>4. RestOK'
      BY <1>0, <1>4, <2>3 DEF Crash, RestOK
    <2>5. QED
      BY <2>2, <2>4, TypeParts
  <1>5. QED
    BY <1>1, <1>2, <1>3, <1>4

LEMMA TypeStep == TypeInv /\ [Next]_vars => TypeInv'
PROOF
  <1> SUFFICES ASSUME TypeInv, [Next]_vars PROVE TypeInv'
    OBVIOUS
  <1>1. ASSUME NEW o \in Owner, NEW k \in Ops, Request(o, k) PROVE TypeInv'
    <2>1. op'[o] = k /\ k \in Kind \cup {"recreate"}
      BY <1>1, StandingAssumption DEF Request, TypeInv, TypeOK
    <2>2. QED
      BY <1>1, <2>1, OpenTypes
  <1>2. ASSUME NEW o \in Owner, Served(o) PROVE TypeInv'
    <2>1. CASE Serve(o)
      <3>1. op'[o] \in Kind \cup {"recreate"}
        BY <2>1 DEF Serve, TypeInv, TypeOK
      <3>2. QED
        BY <2>1, <3>1, OpenTypes
    <2>2. CASE ~Serve(o)
      BY <1>2, <2>2, ServedTypes DEF Served
    <2>3. QED
      BY <2>1, <2>2
  <1>3. CASE UNCHANGED vars
    BY <1>3 DEF vars, TypeInv, TypeOK, CopyInv
  <1>4. QED
    BY <1>1, <1>2, <1>3, SharedTypes, HandlerTypes, WorldTypes DEF Next

LEMMA InitTypes == Init => TypeInv
PROOF
  <1> SUFFICES ASSUME Init PROVE TypeInv
    OBVIOUS
  <1>1. "idle" \in Window \cup Calm /\ "idle" \notin Window
    BY DEF Window, Calm
  <1>2. 0 \in 0..RunTime /\ 0 \in 0..RunCap /\ 0 \in 0..MaxOps /\ 0 \in 0..MaxCrash
    BY StandingAssumption
  <1>3. QED
    BY <1>1, <1>2 DEF Init, TypeInv, TypeOK, CopyInv, Kind

LEMMA TypesHold == Spec => []TypeInv
  BY InitTypes, TypeStep, PTL DEF Spec

\* The record, its tasks, the copies and the counters keep their types and
\* bounds for every set of tasks and owners, whatever interleaves with what.
THEOREM TypeCorrect == Spec => []TypeOK
PROOF
  <1>1. TypeInv => TypeOK
    BY DEF TypeInv
  <1>2. QED
    BY <1>1, TypesHold, PTL

-----------------------------------------------------------------------------
(* Windows *)

\* Where read-to-write windows do not overlap, one thread at most has one open.
ExclInv == \A p, q \in Thread : pc[p] \in Window /\ pc[q] \in Window => p = q

\* Thread p is at q now, and no other has moved.
Moved(p, q) == \A u \in Thread : pc'[u] = IF u = p THEN q ELSE pc[u]

LEMMA GoToMoves ==
    ASSUME TypeInv, NEW p \in Thread, NEW q, NEW r, GoTo(p, q, r)
    PROVE  /\ Moved(p, q)
           /\ \A u \in Thread : cur'[u] = IF u = p THEN (IF q = "idle" THEN None ELSE r) ELSE cur[u]
           /\ \A t \in Task : sa'[t] = IF t = p /\ q # "judgeGet" THEN None ELSE sa[t]
PROOF
  <1>1. /\ pc \in [Thread -> Window \cup Calm]
        /\ cur \in [Thread -> Record \cup {None}]
        /\ sa \in [Task -> Record \cup {None}]
    BY TypeParts DEF MoveOK
  <1>2. QED
    BY <1>1 DEF GoTo, Moved

LEMMA MovedKeepsApart ==
    ASSUME ExclInv, Exclusive, NEW p \in Thread, NEW q, Moved(p, q),
           q \in Window => pc[p] \in Window \/ MayEnter(p)
    PROVE  ExclInv'
PROOF
  <1>1. q \in Window => \A u \in Thread \ {p} : pc[u] \notin Window
    BY DEF ExclInv, MayEnter
  <1>2. QED
    BY <1>1 DEF ExclInv, Moved

LEMMA SharedApart ==
    ASSUME TypeInv, ExclInv, Exclusive, NEW p \in Thread, Shared(p)
    PROVE  ExclInv'
PROOF
  <1>1. PICK q, r : GoTo(p, q, r) /\ (pc[p] \in Window \/ MayEnter(p))
    <2>1. CASE Unsched(p)
      BY <2>1 DEF Unsched, Window
    <2>2. CASE Arm(p)
      BY <2>2 DEF Arm, Window
    <2>3. CASE Save(p)
      BY <2>3 DEF Save, Window
    <2>4. CASE ParkGet(p)
      BY <2>4 DEF ParkGet
    <2>5. CASE ParkUnsched(p)
      BY <2>5 DEF ParkUnsched, Window
    <2>6. CASE ParkSave(p)
      BY <2>6 DEF ParkSave, Window
    <2>7. QED
      BY <2>1, <2>2, <2>3, <2>4, <2>5, <2>6 DEF Shared
  <1>2. QED
    BY <1>1, GoToMoves, MovedKeepsApart

LEMMA HandlerApart ==
    ASSUME TypeInv, ExclInv, Exclusive, NEW t \in Task, Fire(t) \/ Handler(t)
    PROVE  ExclInv'
PROOF
  <1>1. t \in Thread /\ Deferred(t) \notin Window /\ pc \in [Thread -> Window \cup Calm]
    BY Threads, DeferredIs, TypeParts DEF Window, MoveOK
  <1>2. \E q : Moved(t, q) /\ (q \in Window => pc[t] \in Window \/ MayEnter(t))
    <2>1. CASE \E q, r : GoTo(t, q, r) /\ (q \in Window => pc[t] \in Window \/ MayEnter(t))
      BY <1>1, <2>1, GoToMoves
    <2>2. CASE Fire(t)
      BY <2>1, <2>2 DEF Fire, Window
    <2>3. CASE HandlerGet(t)
      <3>1. CASE \E q : pc' = [pc EXCEPT ![t] = q]
        BY <1>1, <2>3, <3>1 DEF HandlerGet, Moved
      <3>2. QED
        BY <2>1, <2>3, <3>1 DEF HandlerGet
    <2>4. CASE HandlerCount(t)
      <3>1. pc[t] \in Window /\ pc' = [pc EXCEPT ![t] = "run"]
        BY <2>4 DEF HandlerCount, Window
      <3>2. QED
        BY <1>1, <3>1 DEF Moved
    <2>5. CASE RunEnds(t)
      BY <1>1, <2>1, <2>5 DEF RunEnds, Window
    <2>6. CASE FailGet(t)
      BY <2>1, <2>6 DEF FailGet
    <2>7. CASE FailSave(t)
      BY <2>1, <2>7 DEF FailSave, Window
    <2>8. CASE JudgeGet(t)
      BY <2>1, <2>8 DEF JudgeGet
    <2>9. CASE JudgeSave(t)
      BY <2>1, <2>9 DEF JudgeSave, Window
    <2>10. CASE Rearm(t)
      BY <2>1, <2>10 DEF Rearm
    <2>11. QED
      BY <2>2, <2>3, <2>4, <2>5, <2>6, <2>7, <2>8, <2>9, <2>10 DEF Handler
  <1>3. QED
    BY <1>1, <1>2, MovedKeepsApart

LEMMA OwnerApart ==
    ASSUME TypeInv, ExclInv, Exclusive, NEW o \in Owner, Served(o) \/ \E k \in Ops : Request(o, k)
    PROVE  ExclInv'
PROOF
  <1>1. o \in Thread
    BY Threads
  <1>2. PICK q, r : GoTo(o, q, r) /\ (q \in Window => pc[o] \in Window \/ MayEnter(o))
    <2>1. CASE \E k \in Ops : Request(o, k)
      BY <2>1 DEF Request, Window
    <2>2. CASE Serve(o)
      BY <2>2 DEF Serve, CreateGet, PauseGet, ResumeGet, EditGet, DeleteGet, BreakGet
    <2>3. CASE RunStandingNow(o)
      BY <2>3 DEF RunStandingNow, Window
    <2>4. CASE CreateSave(o) \/ PauseUnsched(o) \/ PauseSave(o) \/ ResumeSave(o)
      BY <2>4 DEF CreateSave, PauseUnsched, PauseSave, ResumeSave, Window
    <2>5. CASE EditSave(o) \/ DeleteUnsched(o) \/ DeleteUnset(o)
      BY <2>5 DEF EditSave, DeleteUnsched, DeleteUnset, Window
    <2>6. QED
      BY <2>1, <2>2, <2>3, <2>4, <2>5 DEF Served
  <1>3. QED
    BY <1>1, <1>2, GoToMoves, MovedKeepsApart

LEMMA WorldApart ==
    ASSUME TypeInv, ExclInv, Exclusive, ListTasks \/ Reconcile \/ Tick \/ Crash
    PROVE  ExclInv'
PROOF
  <1>1. CASE ListTasks \/ Reconcile
    <2>1. PICK q, r : GoTo("rearm", q, r) /\ (q \in Window => MayEnter("rearm"))
      <3>1. CASE ListTasks
        BY <3>1 DEF ListTasks, Window
      <3>2. CASE Reconcile
        <4>1. MayEnter("rearm") /\ \E q, r : GoTo("rearm", q, r)
          BY <3>2 DEF Reconcile
        <4>2. QED
          BY <4>1
      <3>3. QED
        BY <1>1, <3>1, <3>2
    <2>2. QED
      BY <2>1, Threads, GoToMoves, MovedKeepsApart
  <1>2. CASE Tick
    BY <1>2 DEF Tick, ExclInv
  <1>3. CASE Crash
    <2>1. \A p \in Thread : pc'[p] = "idle"
      BY <1>3 DEF Crash
    <2>2. QED
      BY <2>1 DEF ExclInv, Window
  <1>4. QED
    BY <1>1, <1>2, <1>3

LEMMA ApartStep == TypeInv /\ ExclInv /\ Exclusive /\ [Next]_vars => ExclInv'
PROOF
  <1>1. UNCHANGED vars /\ ExclInv => ExclInv'
    BY DEF vars, ExclInv
  <1>2. QED
    BY <1>1, SharedApart, HandlerApart, OwnerApart, WorldApart DEF Next

LEMMA InitApart == Init => ExclInv
  BY DEF Init, ExclInv, Window

-----------------------------------------------------------------------------
(* The owner's word *)

\* What the record says is what the owner asked for last.
Settled == (word = "stop" => ~Active) /\ (word = "gone" => rec = None)

\* The request p serves will be answered with "run".
Maker(p) == p \in Owner /\ op[p] # "edit"

\* What thread p, once it is at q with copy r, can still do to the word w: a copy
\* that will be written is no less stopped than w says, and only a request that is
\* answered with "run" arms a schedule whose word is another.
Heeds(p, q, r, w) ==
    /\ q \notin {"judgeGet", "judgeSave"}
    /\ q = "count" => w = "run"
    /\ q \in {"unsched", "arm", "save"} => w = "run" \/ Maker(p)
    /\ q \in {"createSave", "resumeSave"} => Maker(p)
    /\ q = "parkUnsched" => w # "gone"
    /\ q \in {"failSave", "editSave", "parkSave"} => w # "gone" /\ (w = "stop" => r.paused)
    /\ q \in {"pauseUnsched", "pauseSave"} => r.paused

WordInv ==
    /\ \A p \in Thread : Heeds(p, pc[p], cur[p], word)
    /\ (\A o \in Owner : pc[o] \notin Window) => Settled

\* A window can only be opened on a settled record.
LEMMA EntrySettled ==
    ASSUME WordInv, Exclusive, NEW p \in Thread, MayEnter(p), pc[p] \notin Window
    PROVE  Settled
  BY Threads DEF WordInv, MayEnter

\* A step of thread p that writes nothing.
LEMMA WordMove ==
    ASSUME TypeInv, WordInv, NEW p \in Thread, NEW q, NEW r,
           GoTo(p, q, r), UNCHANGED <<rec, word, op>>,
           q # "idle" => Heeds(p, q, r, word),
           p \in Owner /\ pc[p] \in Window => q \in Window
    PROVE  WordInv'
PROOF
  <1>1. /\ Moved(p, q)
        /\ \A u \in Thread : cur'[u] = IF u = p THEN (IF q = "idle" THEN None ELSE r) ELSE cur[u]
    BY GoToMoves
  <1>2. ASSUME NEW u \in Thread PROVE Heeds(u, pc[u], cur[u], word)'
    <2>1. CASE u # p
      BY <1>1, <2>1 DEF Moved, WordInv, Heeds, Maker
    <2>2. CASE u = p /\ q = "idle"
      BY <1>1, <2>2 DEF Moved, Heeds
    <2>3. CASE u = p /\ q # "idle"
      BY <1>1, <2>3 DEF Moved, Heeds, Maker
    <2>4. QED
      BY <2>1, <2>2, <2>3
  <1>3. (\A o \in Owner : pc'[o] \notin Window) => \A o \in Owner : pc[o] \notin Window
    BY <1>1, Threads DEF Moved
  <1>4. QED
    BY <1>2, <1>3 DEF WordInv, Settled, Active

\* A step of the thread that has the window open, which may write.
LEMMA WordSave ==
    ASSUME TypeInv, ExclInv, WordInv, NEW p \in Thread, NEW q, pc[p] \in Window,
           Moved(p, q), UNCHANGED op,
           q \in {"idle", "rearm", "run"} \/ (q = "unsched" /\ Maker(p)),
           Settled' \/ (p \in Owner /\ q \in Window)
    PROVE  WordInv'
PROOF
  <1>1. ASSUME NEW u \in Thread PROVE Heeds(u, pc[u], cur[u], word)'
    <2>1. CASE u # p
      <3>1. pc[u] \notin Window /\ pc[u] # "judgeGet" /\ pc'[u] = pc[u]
        BY <2>1 DEF ExclInv, WordInv, Heeds, Moved
      <3>2. QED
        BY <3>1 DEF Heeds, Window
    <2>2. CASE u = p
      BY <2>2 DEF Moved, Heeds, Maker
    <2>3. QED
      BY <2>1, <2>2
  <1>2. (p \in Owner /\ q \in Window) => \E o \in Owner : pc'[o] \in Window
    BY DEF Moved
  <1>3. QED
    BY <1>1, <1>2 DEF WordInv

LEMMA SharedWord ==
    ASSUME TypeInv, ExclInv, WordInv, Exclusive, NEW p \in Thread, Shared(p)
    PROVE  WordInv'
PROOF
  <1>1. Heeds(p, pc[p], cur[p], word) /\ (pc[p] \in Window \ {"count"} => cur[p] \in Record)
    BY DEF WordInv, TypeInv, CopyInv
  <1>2. CASE Unsched(p)
    <2>1. pc[p] = "unsched" /\ GoTo(p, "arm", cur[p]) /\ UNCHANGED <<rec, word, op>>
      BY <1>2 DEF Unsched
    <2>2. Heeds(p, "arm", cur[p], word) /\ "arm" \in Window
      BY <1>1, <2>1 DEF Heeds, Window
    <2>3. QED
      BY <2>1, <2>2, WordMove
  <1>3. CASE Arm(p)
    <2>1. PICK r : pc[p] = "arm" /\ GoTo(p, "save", r) /\ UNCHANGED <<rec, word, op>>
      BY <1>3 DEF Arm
    <2>2. Heeds(p, "save", r, word) /\ "save" \in Window
      BY <1>1, <2>1 DEF Heeds, Window
    <2>3. QED
      BY <2>1, <2>2, WordMove
  <1>4. CASE Save(p)
    <2>1. pc[p] = "save" /\ pc[p] \in Window /\ GoTo(p, "idle", None) /\ UNCHANGED op
      BY <1>4 DEF Save, Window
    <2>2. word' = "run"
      BY <1>1, <1>4, <2>1 DEF Save, Heeds, Maker
    <2>3. Settled'
      BY <2>2 DEF Settled
    <2>4. QED
      BY <2>1, <2>3, GoToMoves, WordSave
  <1>5. CASE ParkGet(p)
    <2>1. pc[p] = "parkGet" /\ pc[p] \notin Window /\ MayEnter(p) /\ UNCHANGED <<rec, word, op>>
      BY <1>5 DEF ParkGet, Window
    <2>2. CASE rec = None
      <3>1. PICK q \in {"rearm", "idle"} : GoTo(p, q, None)
        BY <1>5, <2>2, DeferredIs DEF ParkGet
      <3>2. Heeds(p, q, None, word)
        BY DEF Heeds
      <3>3. QED
        BY <2>1, <3>1, <3>2, WordMove
    <2>3. CASE rec # None
      <3>1. GoTo(p, "parkUnsched", rec) /\ "parkUnsched" \in Window
        BY <1>5, <2>3 DEF ParkGet, Window
      <3>2. word # "gone"
        BY <2>1, <2>3, EntrySettled DEF Settled
      <3>3. Heeds(p, "parkUnsched", rec, word)
        BY <3>2 DEF Heeds
      <3>4. QED
        BY <2>1, <3>1, <3>3, WordMove
    <2>4. QED
      BY <2>2, <2>3
  <1>6. CASE ParkUnsched(p)
    <2>1. /\ pc[p] = "parkUnsched" /\ GoTo(p, "parkSave", Parked(cur[p]))
          /\ UNCHANGED <<rec, word, op>> /\ cur[p] \in Record
      BY <1>1, <1>6 DEF ParkUnsched, Window
    <2>2. Parked(cur[p]).paused
      BY <2>1 DEF Parked, Record
    <2>3. Heeds(p, "parkSave", Parked(cur[p]), word) /\ "parkSave" \in Window
      BY <1>1, <2>1, <2>2 DEF Heeds, Window
    <2>4. QED
      BY <2>1, <2>3, WordMove
  <1>7. CASE ParkSave(p)
    <2>1. PICK q \in {"rearm", "idle"} : GoTo(p, q, None)
      BY <1>7, DeferredIs DEF ParkSave
    <2>2. /\ pc[p] = "parkSave" /\ pc[p] \in Window /\ rec' = cur[p]
          /\ UNCHANGED <<word, op>>
      BY <1>7 DEF ParkSave, Window
    <2>3. Settled'
      BY <1>1, <2>2 DEF Settled, Active, Heeds
    <2>4. QED
      BY <2>1, <2>2, <2>3, GoToMoves, WordSave
  <1>8. QED
    BY <1>2, <1>3, <1>4, <1>5, <1>6, <1>7 DEF Shared

LEMMA HandlerWord ==
    ASSUME TypeInv, ExclInv, WordInv, Exclusive, ~Objective, NEW t \in Task, Fire(t) \/ Handler(t)
    PROVE  WordInv'
PROOF
  <1>0. /\ t \in Thread /\ t \notin Owner /\ Deferred(t) \in {"rearm", "idle"}
        /\ \A q \in {"rearm", "idle", "get", "parkGet", "failGet"} :
              \A r : Heeds(t, q, r, word)
    BY Threads, DeferredIs DEF Heeds
  <1>1. /\ Heeds(t, pc[t], cur[t], word)
        /\ pc[t] \in Window \ {"count"} => cur[t] \in Record
        /\ pc[t] \in {"count", "run", "judgeGet"} => sa[t] \in Record
        /\ rec # None => rec \in Record
    BY <1>0 DEF WordInv, TypeInv, TypeOK, CopyInv
  <1>2. CASE Fire(t)
    BY <1>0, <1>2, WordMove DEF Fire
  <1>3. CASE HandlerGet(t)
    <2>1. pc[t] = "get" /\ MayEnter(t) /\ Settled /\ UNCHANGED <<rec, word, op>>
      BY <1>0, <1>3, EntrySettled DEF HandlerGet, Window
    <2>2. CASE \E q \in {"rearm", "idle", "parkGet"} : GoTo(t, q, None)
      BY <1>0, <2>1, <2>2, WordMove
    <2>3. ASSUME Active, NEW q \in {"run", "count"}, pc' = [pc EXCEPT ![t] = q], UNCHANGED cur
          PROVE  WordInv'
      <3>1. word = "run"
        BY <2>1, <2>3 DEF Settled, Active, TypeInv, TypeOK
      <3>2. \A u \in Thread : pc'[u] = IF u = t THEN q ELSE pc[u]
        BY <1>0, <2>3 DEF TypeInv, TypeOK
      <3>3. \A u \in Thread : Heeds(u, pc[u], cur[u], word)'
        BY <2>1, <2>3, <3>1, <3>2 DEF WordInv, Heeds, Maker
      <3>4. Settled'
        BY <2>1, <3>1 DEF Settled
      <3>5. QED
        BY <3>3, <3>4 DEF WordInv
    <2>4. QED
      BY <1>0, <1>3, <2>2, <2>3 DEF HandlerGet
  <1>4. CASE HandlerCount(t)
    <2>1. /\ pc[t] = "count" /\ pc[t] \in Window /\ UNCHANGED <<word, op>>
          /\ pc' = [pc EXCEPT ![t] = "run"]
      BY <1>4 DEF HandlerCount, Window
    <2>2. Moved(t, "run")
      BY <1>0, <2>1 DEF Moved, TypeInv, TypeOK
    <2>3. Settled'
      BY <1>1, <2>1 DEF Heeds, Settled
    <2>4. QED
      BY <1>0, <2>1, <2>2, <2>3, WordSave
  <1>5. CASE RunEnds(t)
    <2>1. PICK q \in {"rearm", "idle", "failGet"} : GoTo(t, q, None)
      BY <1>0, <1>5 DEF RunEnds
    <2>2. UNCHANGED <<rec, word, op>>
      BY <1>5 DEF RunEnds
    <2>3. QED
      BY <1>0, <2>1, <2>2, WordMove
  <1>6. CASE FailGet(t)
    <2>1. pc[t] = "failGet" /\ MayEnter(t) /\ Settled /\ UNCHANGED <<rec, word, op>>
      BY <1>0, <1>6, EntrySettled DEF FailGet, Window
    <2>2. CASE rec = None
      BY <1>0, <1>6, <2>1, <2>2, WordMove DEF FailGet
    <2>3. CASE rec # None
      <3> DEFINE r == IF rec.ask = None THEN Delayed(rec) ELSE rec
      <3>1. r.paused = rec.paused
        BY <1>1, <2>3 DEF Delayed, Record
      <3>2. word # "gone" /\ (word = "stop" => rec.paused)
        BY <2>1, <2>3 DEF Settled, Active
      <3>3. GoTo(t, "failSave", r)
        BY <1>6, <2>3 DEF FailGet
      <3> HIDE DEF r
      <3>4. Heeds(t, "failSave", r, word)
        BY <3>1, <3>2 DEF Heeds
      <3>5. QED
        BY <1>0, <2>1, <3>3, <3>4, WordMove
    <2>4. QED
      BY <2>2, <2>3
  <1>7. CASE FailSave(t)
    <2>1. /\ pc[t] = "failSave" /\ pc[t] \in Window /\ rec' = cur[t]
          /\ GoTo(t, Deferred(t), None) /\ UNCHANGED <<word, op>>
      BY <1>7 DEF FailSave, Window
    <2>2. Settled'
      BY <1>1, <2>1 DEF Settled, Active, Heeds
    <2>3. QED
      BY <1>0, <2>1, <2>2, GoToMoves, WordSave
  <1>8. CASE JudgeGet(t) \/ JudgeSave(t)
    BY <1>1, <1>8 DEF JudgeGet, JudgeSave, Heeds
  <1>9. CASE Rearm(t)
    <2>1. pc[t] = "rearm" /\ MayEnter(t) /\ Settled /\ UNCHANGED <<rec, word, op>>
      BY <1>0, <1>9, EntrySettled DEF Rearm, Window
    <2>2. CASE Active
      <3>1. word = "run"
        BY <2>1, <2>2 DEF Settled, Active, TypeInv, TypeOK
      <3>2. Heeds(t, "unsched", rec, word) /\ GoTo(t, "unsched", rec)
        BY <1>9, <2>2, <3>1 DEF Heeds, Rearm
      <3>3. QED
        BY <1>0, <2>1, <3>2, WordMove
    <2>3. CASE ~Active
      BY <1>0, <1>9, <2>1, <2>3, WordMove DEF Rearm
    <2>4. QED
      BY <2>2, <2>3
  <1>10. QED
    BY <1>2, <1>3, <1>4, <1>5, <1>6, <1>7, <1>8, <1>9 DEF Handler

LEMMA OpenWord ==
    ASSUME TypeInv, ExclInv, WordInv, Exclusive, NEW o \in Owner,
           Serve(o) \/ \E k \in Ops : Request(o, k)
    PROVE  WordInv'
PROOF
  <1>0. o \in Thread /\ (rec # None => rec \in Record)
    BY Threads DEF TypeInv, TypeOK
  <1>1. ASSUME NEW k \in Ops, Request(o, k) PROVE WordInv'
    <2>1. /\ pc[o] = "idle" /\ GoTo(o, "serve", None) /\ UNCHANGED <<rec, word>>
          /\ op' = [op EXCEPT ![o] = k]
      BY <1>1 DEF Request
    <2>2. /\ Moved(o, "serve")
          /\ \A u \in Thread : cur'[u] = IF u = o THEN None ELSE cur[u]
      BY <1>0, <2>1, GoToMoves
    <2>3. \A u \in Thread \ {o} : Maker(u)' <=> Maker(u)
      BY <2>1 DEF Maker, TypeInv, TypeOK
    <2>4. \A u \in Thread : Heeds(u, pc[u], cur[u], word)'
      BY <2>1, <2>2, <2>3 DEF WordInv, Heeds, Moved
    <2>5. (\A u \in Owner : pc'[u] \notin Window) => \A u \in Owner : pc[u] \notin Window
      BY <2>1, <2>2, Threads DEF Moved, Window
    <2>6. QED
      BY <2>1, <2>4, <2>5 DEF WordInv, Settled, Active
  <1>2. CASE Serve(o)
    <2>1. pc[o] = "serve" /\ Settled /\ UNCHANGED <<rec, word, op>> /\ pc[o] \notin Window
      BY <1>0, <1>2, EntrySettled DEF Serve, Window
    <2>2. ASSUME NEW q, NEW r, GoTo(o, q, r), q # "idle" => Heeds(o, q, r, word) PROVE WordInv'
      BY <1>0, <2>1, <2>2, WordMove
    <2>3. rec # None => word # "gone" /\ (word = "stop" => rec.paused)
      BY <2>1 DEF Settled, Active
    <2>4. CASE CreateGet(o)
      <3>1. GoTo(o, "createSave", Fresh) /\ Heeds(o, "createSave", Fresh, word)
        BY <2>4 DEF CreateGet, Heeds, Maker
      <3>2. QED
        BY <2>2, <3>1
    <2>5. CASE PauseGet(o)
      <3>1. Paused(rec).paused
        BY <1>0, <2>5 DEF PauseGet, Paused, Record
      <3>2. GoTo(o, "pauseUnsched", Paused(rec)) /\ Heeds(o, "pauseUnsched", Paused(rec), word)
        BY <2>5, <3>1 DEF PauseGet, Heeds
      <3>3. QED
        BY <2>2, <3>2
    <2>6. CASE ResumeGet(o)
      <3>1. PICK broken \in {FALSE, rec.broken} : GoTo(o, "resumeSave", Resumed(rec, broken))
        BY <2>6 DEF ResumeGet
      <3>2. Heeds(o, "resumeSave", Resumed(rec, broken), word)
        BY <2>6 DEF ResumeGet, Heeds, Maker
      <3>3. QED
        BY <2>2, <3>1, <3>2
    <2>7. CASE EditGet(o)
      <3>1. CASE GoTo(o, "editSave", rec)
        <4>1. Heeds(o, "editSave", rec, word)
          BY <2>3, <2>7 DEF EditGet, Heeds
        <4>2. QED
          BY <2>2, <3>1, <4>1
      <3>2. CASE ~rec.paused /\ GoTo(o, "unsched", rec)
        <4>1. word = "run"
          BY <2>3, <2>7, <3>2 DEF EditGet, TypeInv, TypeOK
        <4>2. Heeds(o, "unsched", rec, word)
          BY <4>1 DEF Heeds
        <4>3. QED
          BY <2>2, <3>2, <4>2
      <3>3. QED
        BY <2>7, <3>1, <3>2 DEF EditGet
    <2>8. CASE DeleteGet(o)
      <3>1. Heeds(o, "deleteUnsched", rec, word) /\ GoTo(o, "deleteUnsched", rec)
        BY <2>8 DEF DeleteGet, Heeds
      <3>2. QED
        BY <2>2, <3>1
    <2>9. CASE BreakGet(o)
      <3>1. Heeds(o, "parkUnsched", rec, word) /\ GoTo(o, "parkUnsched", rec)
        BY <2>3, <2>9 DEF BreakGet, Heeds
      <3>2. QED
        BY <2>2, <3>1
    <2>10. CASE GoTo(o, "idle", None)
      BY <2>2, <2>10
    <2>11. QED
      BY <1>2, <2>4, <2>5, <2>6, <2>7, <2>8, <2>9, <2>10 DEF Serve
  <1>3. QED
    BY <1>1, <1>2

LEMMA ServedWord ==
    ASSUME TypeInv, ExclInv, WordInv, Exclusive, NEW o \in Owner,
           \/ RunStandingNow(o) \/ CreateSave(o) \/ PauseUnsched(o) \/ PauseSave(o)
           \/ ResumeSave(o) \/ EditSave(o) \/ DeleteUnsched(o) \/ DeleteUnset(o)
    PROVE  WordInv'
PROOF
  <1>1. /\ o \in Thread /\ Heeds(o, pc[o], cur[o], word)
        /\ pc[o] \in Window \ {"count"} => cur[o] \in Record
    BY Threads DEF WordInv, TypeInv, CopyInv
  <1>2. CASE RunStandingNow(o)
    <2>1. pc[o] \notin Window /\ GoTo(o, "idle", None) /\ UNCHANGED <<rec, word, op>>
      BY <1>2 DEF RunStandingNow, Window
    <2>2. QED
      BY <1>1, <2>1, WordMove
  <1>3. CASE CreateSave(o) \/ ResumeSave(o)
    <2>1. /\ pc[o] \in {"createSave", "resumeSave"} /\ pc[o] \in Window
          /\ GoTo(o, "unsched", cur[o]) /\ UNCHANGED op /\ "unsched" \in Window
      BY <1>3 DEF CreateSave, ResumeSave, Window
    <2>2. Maker(o)
      BY <1>1, <2>1 DEF Heeds
    <2>3. QED
      BY <1>1, <2>1, <2>2, GoToMoves, WordSave
  <1>4. CASE PauseUnsched(o)
    <2> DEFINE r == IF cur[o].sid = None THEN cur[o] ELSE Released(cur[o])
    <2>1. /\ pc[o] = "pauseUnsched" /\ GoTo(o, "pauseSave", r) /\ UNCHANGED <<rec, word, op>>
          /\ cur[o] \in Record /\ "pauseSave" \in Window
      BY <1>1, <1>4 DEF PauseUnsched, Window
    <2>2. r.paused = cur[o].paused
      BY <2>1 DEF Released, Record
    <2> HIDE DEF r
    <2>3. Heeds(o, "pauseSave", r, word)
      BY <1>1, <2>1, <2>2 DEF Heeds
    <2>4. QED
      BY <1>1, <2>1, <2>3, WordMove
  <1>5. CASE PauseSave(o)
    <2>1. /\ pc[o] = "pauseSave" /\ pc[o] \in Window /\ rec' = cur[o] /\ word' = "stop"
          /\ GoTo(o, "idle", None) /\ UNCHANGED op
      BY <1>5 DEF PauseSave, Window
    <2>2. Settled'
      BY <1>1, <2>1 DEF Settled, Active, Heeds
    <2>3. QED
      BY <1>1, <2>1, <2>2, GoToMoves, WordSave
  <1>6. CASE EditSave(o)
    <2>1. /\ pc[o] = "editSave" /\ pc[o] \in Window /\ rec' = cur[o]
          /\ GoTo(o, "idle", None) /\ UNCHANGED <<word, op>>
      BY <1>6 DEF EditSave, Window
    <2>2. Settled'
      BY <1>1, <2>1 DEF Settled, Active, Heeds
    <2>3. QED
      BY <1>1, <2>1, <2>2, GoToMoves, WordSave
  <1>7. CASE DeleteUnsched(o)
    <2>1. /\ pc[o] = "deleteUnsched" /\ GoTo(o, "unset", cur[o]) /\ UNCHANGED <<rec, word, op>>
          /\ "unset" \in Window /\ Heeds(o, "unset", cur[o], word)
      BY <1>7 DEF DeleteUnsched, Window, Heeds
    <2>2. QED
      BY <1>1, <2>1, WordMove
  <1>8. CASE DeleteUnset(o)
    <2>1. /\ pc[o] = "unset" /\ pc[o] \in Window /\ rec' = None /\ word' = "gone"
          /\ GoTo(o, "idle", None) /\ UNCHANGED op
      BY <1>8 DEF DeleteUnset, Window
    <2>2. Settled'
      BY <2>1 DEF Settled, Active
    <2>3. QED
      BY <1>1, <2>1, <2>2, GoToMoves, WordSave
  <1>9. QED
    BY <1>2, <1>3, <1>4, <1>5, <1>6, <1>7, <1>8

LEMMA AgedKeeps ==
    ASSUME NEW r \in Record
    PROVE  /\ Aged(r).paused = r.paused /\ Aged(r).sid = r.sid /\ Aged(r).runs = r.runs
           /\ Aged(r).stop = r.stop
           /\ Aged(r).ask = Older(r.ask) /\ Aged(r).next = Older(r.next)
PROOF
  <1>1. Aged(r) = [r EXCEPT !.next = Older(@), !.ask = Older(@)]
    BY RecordFields DEF Aged, Unless
  <1>2. QED
    BY <1>1 DEF Record

LEMMA WorldWord ==
    ASSUME TypeInv, ExclInv, WordInv, Exclusive, ListTasks \/ Reconcile \/ Tick \/ Crash
    PROVE  WordInv'
PROOF
  <1>0. "rearm" \in Thread /\ "rearm" \notin Owner /\ Aged(None) = None
    BY StandingAssumption DEF Thread, Aged, Unless
  <1>1. CASE ListTasks
    <2>1. GoTo("rearm", "read", None) /\ UNCHANGED <<rec, word, op>> /\ Heeds("rearm", "read", None, word)
      BY <1>1 DEF ListTasks, Heeds
    <2>2. QED
      BY <1>0, <2>1, WordMove
  <1>2. CASE Reconcile
    <2>1. pc["rearm"] = "read" /\ Settled /\ UNCHANGED <<rec, word, op>>
      BY <1>0, <1>2, EntrySettled DEF Reconcile, Window
    <2>2. CASE Active /\ Stranded(rec)
      <3>1. word = "run"
        BY <2>1, <2>2 DEF Settled, Active, TypeInv, TypeOK
      <3>2. GoTo("rearm", "unsched", rec) /\ Heeds("rearm", "unsched", rec, word)
        BY <1>2, <2>2, <3>1 DEF Reconcile, Heeds
      <3>3. QED
        BY <1>0, <2>1, <3>2, WordMove
    <2>3. CASE ~(Active /\ Stranded(rec))
      BY <1>0, <1>2, <2>1, <2>3, WordMove DEF Reconcile
    <2>4. QED
      BY <2>2, <2>3
  <1>3. CASE Tick
    <2>1. /\ rec' = Aged(rec) /\ UNCHANGED <<pc, word, op>>
          /\ \A p \in Thread : cur'[p] = Aged(cur[p])
      BY <1>3 DEF Tick
    <2>2. ASSUME NEW p \in Thread PROVE Heeds(p, pc[p], cur[p], word)'
      <3>1. pc[p] \in Window \ {"count"} => cur[p] \in Record
        BY DEF TypeInv, CopyInv
      <3>2. pc[p] \in Window \ {"count"} => cur'[p].paused = cur[p].paused
        BY <2>1, <3>1, AgedKeeps
      <3>3. Heeds(p, pc[p], cur[p], word)
        BY DEF WordInv
      <3>4. QED
        BY <2>1, <3>2, <3>3 DEF Heeds, Maker, Window
    <2>3. Settled => Settled'
      <3>1. rec = None => rec' = None
        BY <1>0, <2>1
      <3>2. rec # None => rec'.paused = rec.paused
        BY <2>1, AgedKeeps DEF TypeInv, TypeOK
      <3>3. QED
        BY <2>1, <3>1, <3>2 DEF Settled, Active
    <2>4. QED
      BY <2>1, <2>2, <2>3 DEF WordInv
  <1>4. CASE Crash
    <2>1. /\ \A p \in Thread : pc'[p] = "idle"
          /\ word' = IF \E o \in Owner : pc[o] # "idle" THEN "run" ELSE word
          /\ UNCHANGED rec
      BY <1>4 DEF Crash
    <2>2. Settled'
      <3>1. CASE \E o \in Owner : pc[o] # "idle"
        BY <2>1, <3>1 DEF Settled
      <3>2. CASE \A o \in Owner : pc[o] = "idle"
        BY <2>1, <3>2 DEF WordInv, Settled, Active, Window
      <3>3. QED
        BY <3>1, <3>2
    <2>3. QED
      BY <2>1, <2>2 DEF WordInv, Heeds
  <1>5. QED
    BY <1>1, <1>2, <1>3, <1>4

\* For any number of owners, tasks and deaths: where windows do not overlap and
\* no goal is judged, no handler, failure, park or reconciliation undoes a pause
\* or brings a deleted schedule back (the re-reads of standing_agent.go).
THEOREM OwnerIsObeyed == Exclusive /\ ~Objective => (Spec => []OwnerWordKept)
PROOF
  <1> SUFFICES ASSUME Exclusive, ~Objective PROVE Spec => []OwnerWordKept
    OBVIOUS
  <1> DEFINE Inv == TypeInv /\ ExclInv /\ WordInv
  <1>1. Init => Inv
    <2>1. Init => WordInv
      BY DEF Init, WordInv, Heeds, Settled, Active
    <2>2. QED
      BY <2>1, InitTypes, InitApart
  <1>2. Inv /\ [Next]_vars => Inv'
    <2> SUFFICES ASSUME Inv, [Next]_vars PROVE WordInv'
      BY TypeStep, ApartStep
    <2>1. ASSUME NEW o \in Owner, Served(o) \/ \E k \in Ops : Request(o, k) PROVE WordInv'
      BY <2>1, OpenWord, ServedWord DEF Served
    <2>2. CASE UNCHANGED vars
      BY <2>2 DEF vars, WordInv, Heeds, Maker, Settled, Active
    <2>3. QED
      BY <2>1, <2>2, SharedWord, HandlerWord, WorldWord DEF Next
  <1>3. Inv => OwnerWordKept
    BY DEF WordInv, OwnerWordKept, Settled, Window
  <1>4. QED
    BY <1>1, <1>2, <1>3, PTL DEF Spec

-----------------------------------------------------------------------------
(* One chain *)

Few(S, n) == IsFiniteSet(S) /\ Cardinality(S) <= n

LEMMA FewFacts ==
    ASSUME NEW S, NEW n \in Nat, Few(S, n)
    PROVE  /\ \A T : T \subseteq S => Few(T, n)
           /\ Few(S, n + 1)
           /\ \A T, x : T \ {x} \subseteq S => Few(T, n + 1)
PROOF
  <1>1. IsFiniteSet(S) /\ Cardinality(S) \in Nat /\ Cardinality(S) <= n
    BY FS_CardinalityType DEF Few
  <1>2. ASSUME NEW T, T \subseteq S PROVE Few(T, n)
    <2>1. IsFiniteSet(T) /\ Cardinality(T) \in Nat /\ Cardinality(T) <= Cardinality(S)
      BY <1>1, <1>2, FS_Subset, FS_CardinalityType
    <2>2. QED
      BY <1>1, <2>1 DEF Few
  <1>3. ASSUME NEW T, NEW x, T \ {x} \subseteq S PROVE Few(T, n + 1)
    <2>1. /\ IsFiniteSet(S \cup {x}) /\ Cardinality(S \cup {x}) \in Nat
          /\ Cardinality(S \cup {x}) <= n + 1
      <3>1. /\ IsFiniteSet(S \cup {x})
            /\ Cardinality(S \cup {x}) = IF x \in S THEN Cardinality(S) ELSE Cardinality(S) + 1
        BY <1>1, FS_AddElement
      <3>2. QED
        BY <1>1, <3>1
    <2>2. T \subseteq S \cup {x}
      BY <1>3
    <2>3. IsFiniteSet(T) /\ Cardinality(T) \in Nat /\ Cardinality(T) <= Cardinality(S \cup {x})
      BY <2>1, <2>2, FS_Subset, FS_CardinalityType
    <2>4. QED
      BY <2>1, <2>3 DEF Few
  <1>4. Few(S, n + 1)
    BY <1>1 DEF Few
  <1>5. QED
    BY <1>2, <1>3, <1>4

\* What the edits do to the id.
LEMMA Sids ==
    ASSUME NEW r \in Record
    PROVE  /\ Counted(r).sid = r.sid /\ Delayed(r).sid = r.sid /\ Met(r).sid = r.sid
           /\ Paused(r).sid = r.sid /\ \A b \in BOOLEAN : Resumed(r, b).sid = r.sid
           /\ Ended(r).sid = None /\ Parked(r).sid = None /\ Released(r).sid = None
           /\ \A t \in Task, n \in 0..Far : Armed(r, t, n).sid = t
PROOF
  <1>1. /\ Counted(r).sid = r.sid /\ Delayed(r).sid = r.sid /\ Met(r).sid = r.sid
        /\ Paused(r).sid = r.sid
    BY DEF Counted, Delayed, Met, Paused, Record
  <1>2. /\ Ended(r).sid = None /\ Parked(r).sid = None /\ Released(r).sid = None
    BY DEF Ended, Parked, Released, Record
  <1>3. ASSUME NEW b \in BOOLEAN PROVE Resumed(r, b).sid = r.sid
    BY DEF Resumed, Record
  <1>4. ASSUME NEW t \in Task, NEW n \in 0..Far PROVE Armed(r, t, n).sid = t
    BY DEF Armed, Record
  <1>5. QED
    BY <1>1, <1>2, <1>3, <1>4

Chains   == {t \in Task : Scheduled(t)}
Named(r) == IF r = None THEN None ELSE r.sid

\* The id the thread that has the window open will cancel or has just queued;
\* what it has just cancelled is out of the count already.
Held(p) == CASE pc[p] \in {"arm", "unset"} -> None
             [] pc[p] = "count"            -> sa[p].sid
             [] OTHER                      -> cur[p].sid

\* No task is queued beyond the one whoever holds the record knows of, except
\* for one per death.
ChainInv ==
    /\ AtRest => Few(Chains \ {Named(rec)}, crashes)
    /\ \A p \in Thread : pc[p] \in Window => Few(Chains \ {Held(p)}, crashes)
    /\ \A o \in Owner : op[o] \in Ops \cup {"create"}

\* What is kept of it by a step of p that neither opens nor closes a window ...
LEMMA ChainAside ==
    ASSUME TypeInv, ChainInv, NEW p \in Thread, NEW q, Moved(p, q),
           pc[p] \notin Window, q \notin Window,
           UNCHANGED <<rec, crashes>>, Chains' \subseteq Chains,
           \A u \in Thread \ {p} : /\ cur'[u] = cur[u]
                                   /\ u \in Task => sa'[u] = sa[u],
           \A o \in Owner : op'[o] \in Ops \cup {"create"}
    PROVE  ChainInv'
PROOF
  <1>1. crashes \in Nat
    BY StandingAssumption DEF TypeInv, TypeOK
  <1>2. AtRest' => AtRest
    BY DEF AtRest, Moved
  <1>3. AtRest => Few((Chains \ {Named(rec)})', crashes')
    <2>1. (Chains \ {Named(rec)})' \subseteq Chains \ {Named(rec)}
      BY DEF Named
    <2>2. QED
      BY <1>1, <2>1, FewFacts DEF ChainInv
  <1>4. ASSUME NEW u \in Thread, pc'[u] \in Window PROVE Few((Chains \ {Held(u)})', crashes')
    <2>1. u # p /\ pc'[u] = pc[u] /\ pc[u] \in Window
      BY <1>4 DEF Moved
    <2>2. Held(u)' = Held(u)
      <3>1. pc[u] = "count" => u \in Task
        BY DEF TypeInv, CopyInv
      <3>2. QED
        BY <2>1, <3>1 DEF Held
    <2>3. Few(Chains \ {Held(u)}, crashes) /\ (Chains \ {Held(u)})' \subseteq Chains \ {Held(u)}
      BY <2>1, <2>2 DEF ChainInv
    <2>4. QED
      BY <1>1, <2>3, FewFacts
  <1>5. QED
    BY <1>2, <1>3, <1>4 DEF ChainInv

\* ... and by one that does, or that is taken inside one.
LEMMA ChainInside ==
    ASSUME NEW p \in Thread, NEW q, Moved(p, q), \A u \in Thread \ {p} : pc[u] \notin Window,
           q \in Window => Few((Chains \ {Held(p)})', crashes'),
           q \notin Window => Few((Chains \ {Named(rec)})', crashes'),
           \A o \in Owner : op'[o] \in Ops \cup {"create"}
    PROVE  ChainInv'
PROOF
  <1>1. \A u \in Thread : pc'[u] \in Window => u = p /\ q \in Window
    BY DEF Moved
  <1>2. AtRest' => q \notin Window
    BY DEF AtRest, Moved
  <1>3. QED
    BY <1>1, <1>2 DEF ChainInv

\* What is known of the queue where a step is taken inside a window or opens one.
LEMMA ChainBefore ==
    ASSUME TypeInv, ExclInv, ChainInv, Exclusive, NEW p \in Thread
    PROVE  /\ pc[p] \in Window => /\ \A u \in Thread \ {p} : pc[u] \notin Window
                                  /\ Few(Chains \ {Held(p)}, crashes)
           /\ pc[p] \notin Window /\ MayEnter(p) => /\ \A u \in Thread \ {p} : pc[u] \notin Window
                                                    /\ Few(Chains \ {Named(rec)}, crashes)
           /\ crashes \in Nat /\ None \notin Chains /\ Chains \subseteq Task
PROOF
  <1>1. crashes \in Nat /\ None \notin Chains /\ Chains \subseteq Task
    BY StandingAssumption DEF TypeInv, TypeOK, Chains
  <1>2. QED
    BY <1>1 DEF ExclInv, MayEnter, AtRest, ChainInv

\* Opening a window with a copy that names what the record names.
LEMMA ChainEnter ==
    ASSUME TypeInv, ExclInv, ChainInv, Exclusive, NEW p \in Thread, NEW q \in Window \ {"arm", "unset"}, NEW r,
           pc[p] \notin Window, MayEnter(p), UNCHANGED <<rec, tasks, crashes, op>>,
           GoTo(p, q, r) /\ q # "count",
           rec = None \/ r.sid = Named(rec)
    PROVE  ChainInv'
PROOF
  <1>1. /\ \A u \in Thread \ {p} : pc[u] \notin Window
        /\ Few(Chains \ {Named(rec)}, crashes)
        /\ crashes \in Nat /\ None \notin Chains
    BY ChainBefore
  <1>2. Moved(p, q) /\ cur'[p] = r /\ pc'[p] = q
    BY GoToMoves DEF Moved, Window
  <1>3. Held(p)' = r.sid
    BY <1>2 DEF Held
  <1>4. Chains' = Chains /\ (\A o \in Owner : op'[o] \in Ops \cup {"create"})
    BY DEF Chains, Scheduled, ChainInv
  <1>5. (Chains \ {Held(p)})' \subseteq Chains \ {Named(rec)}
    BY <1>1, <1>3, <1>4 DEF Named
  <1>6. Few((Chains \ {Held(p)})', crashes')
    BY <1>1, <1>5, FewFacts
  <1>7. QED
    BY <1>1, <1>2, <1>4, <1>6, ChainInside

\* Writing the copy that is held, and going on or closing the window.
LEMMA ChainWrite ==
    ASSUME TypeInv, ExclInv, ChainInv, Exclusive, NEW p \in Thread, NEW q,
           pc[p] \in Window \ {"arm", "unset"}, Moved(p, q), UNCHANGED <<tasks, crashes, op>>,
           rec' \in Record /\ rec'.sid = Held(p),
           q \notin Window \/ (q = "unsched" /\ Held(p)' = Held(p))
    PROVE  ChainInv'
PROOF
  <1>1. /\ \A u \in Thread \ {p} : pc[u] \notin Window
        /\ Few(Chains \ {Held(p)}, crashes)
    BY ChainBefore
  <1>2. Chains' = Chains /\ (\A o \in Owner : op'[o] \in Ops \cup {"create"})
    BY DEF Chains, Scheduled, ChainInv
  <1>3. Named(rec') = Held(p)
    BY RecordFields DEF Named
  <1>4. QED
    BY <1>1, <1>2, <1>3, ChainInside

\* Cancelling the task that is held: nothing is held then.
LEMMA ChainCancel ==
    ASSUME TypeInv, ExclInv, ChainInv, Exclusive, NEW p \in Thread, NEW q \in Window \ {"count"}, NEW r,
           pc[p] \in Window \ {"arm", "unset", "count"}, cur[p] \in Record,
           GoTo(p, q, r), tasks' = Unscheduled(cur[p]), UNCHANGED <<rec, crashes, op>>,
           q \in {"arm", "unset"} \/ r.sid = None
    PROVE  ChainInv'
PROOF
  <1>1. /\ \A u \in Thread \ {p} : pc[u] \notin Window
        /\ Few(Chains \ {Held(p)}, crashes)
        /\ crashes \in Nat
    BY ChainBefore
  <1>2. Moved(p, q) /\ cur'[p] = r /\ pc'[p] = q
    BY GoToMoves DEF Moved, Window
  <1>3. Held(p) = cur[p].sid /\ Held(p)' = None
    BY <1>2 DEF Held
  <1>4. Chains' \subseteq Chains \ {cur[p].sid}
    <2>1. \A t \in Task : tasks'[t] = IF t = cur[p].sid THEN None ELSE tasks[t]
      BY RowFacts DEF TypeInv
    <2>2. QED
      BY <2>1 DEF Chains, Scheduled
  <1>5. (Chains \ {Held(p)})' \subseteq Chains \ {Held(p)}
    BY <1>3, <1>4
  <1>6. Few((Chains \ {Held(p)})', crashes') /\ (\A o \in Owner : op'[o] \in Ops \cup {"create"})
    BY <1>1, <1>5, FewFacts DEF ChainInv
  <1>7. QED
    BY <1>1, <1>2, <1>6, ChainInside

\* Moving on outside any window.
LEMMA ChainGo ==
    ASSUME TypeInv, ChainInv, NEW p \in Thread, NEW q, NEW r, GoTo(p, q, r),
           pc[p] \notin Window, q \notin Window, UNCHANGED <<rec, crashes, op>>,
           Chains' \subseteq Chains
    PROVE  ChainInv'
PROOF
  <1>1. /\ Moved(p, q)
        /\ \A u \in Thread \ {p} : /\ cur'[u] = cur[u]
                                   /\ u \in Task => sa'[u] = sa[u]
    BY GoToMoves
  <1>2. \A o \in Owner : op'[o] \in Ops \cup {"create"}
    BY DEF ChainInv
  <1>3. QED
    BY <1>1, <1>2, ChainAside

\* Queueing the next occurrence where nothing is held, or ending the schedule.
LEMMA ChainArm ==
    ASSUME TypeInv, ExclInv, ChainInv, Exclusive, NEW p \in Thread, Arm(p)
    PROVE  ChainInv'
PROOF
  <1>1. /\ pc[p] = "arm" /\ pc[p] \in Window /\ cur[p] \in Record
        /\ UNCHANGED <<rec, crashes, op>>
    BY DEF Arm, Window, TypeInv, CopyInv
  <1>2. /\ \A u \in Thread \ {p} : pc[u] \notin Window
        /\ Few(Chains \ {None}, crashes)
        /\ crashes \in Nat /\ None \notin Chains
    BY <1>1, ChainBefore DEF Held
  <1>3. Few(Chains, crashes) /\ (\A o \in Owner : op'[o] \in Ops \cup {"create"})
    BY <1>1, <1>2, FewFacts DEF ChainInv
  <1>4. ASSUME NEW r, GoTo(p, "save", r), Chains' \ {r.sid} \subseteq Chains PROVE ChainInv'
    <2>1. Moved(p, "save") /\ cur'[p] = r /\ pc'[p] = "save"
      BY <1>4, GoToMoves DEF Moved
    <2>2. Held(p)' = r.sid
      BY <2>1 DEF Held
    <2>3. (Chains \ {Held(p)})' \subseteq Chains
      BY <1>4, <2>2
    <2>4. Few((Chains \ {Held(p)})', crashes')
      BY <1>1, <1>2, <1>3, <2>3, FewFacts
    <2>5. "save" \in Window
      BY DEF Window
    <2>6. QED
      BY <1>2, <1>3, <2>1, <2>4, <2>5, ChainInside
  <1>5. CASE GoTo(p, "save", Ended(cur[p])) /\ UNCHANGED tasks
    <2>1. Chains' = Chains
      BY <1>5 DEF Chains, Scheduled
    <2>2. QED
      BY <1>4, <1>5, <2>1
  <1>6. ASSUME NEW gap \in Gap, Unused # {},
               tasks' = Queued(NewId, NextRun(cur[p], gap), "schedule"),
               GoTo(p, "save", Armed(cur[p], NewId, NextRun(cur[p], gap)))
        PROVE  ChainInv'
    <2>1. NewId \in Task /\ NextRun(cur[p], gap) \in 0..Far
      BY <1>1, <1>6, NewIdFacts, NextRunIs
    <2>2. Armed(cur[p], NewId, NextRun(cur[p], gap)).sid = NewId
      BY <1>1, <2>1, Sids
    <2>3. \A u \in Task \ {NewId} : tasks'[u] = tasks[u]
      BY <1>6, <2>1, QueuedFacts DEF TypeInv
    <2>4. Chains' \ {NewId} \subseteq Chains
      BY <2>3 DEF Chains, Scheduled
    <2>5. QED
      BY <1>4, <1>6, <2>2, <2>4
  <1>7. QED
    BY <1>5, <1>6 DEF Arm

LEMMA SharedChain ==
    ASSUME TypeInv, ExclInv, ChainInv, Exclusive, NEW p \in Thread, Shared(p)
    PROVE  ChainInv'
PROOF
  <1>0. /\ pc[p] \in Window \ {"count"} => cur[p] \in Record
        /\ p \in Task => Deferred(p) \in {"rearm", "idle"}
    BY DeferredIs DEF TypeInv, CopyInv
  <1>1. CASE Unsched(p)
    <2>1. /\ pc[p] = "unsched" /\ GoTo(p, "arm", cur[p]) /\ tasks' = Unscheduled(cur[p])
          /\ UNCHANGED <<rec, crashes, op>>
      BY <1>1 DEF Unsched
    <2>2. "arm" \in Window \ {"count"} /\ pc[p] \in Window \ {"arm", "unset", "count"}
      BY <2>1 DEF Window
    <2>3. QED
      BY <1>0, <2>1, <2>2, ChainCancel
  <1>2. CASE Save(p) \/ ParkSave(p)
    <2>1. /\ pc[p] \in {"save", "parkSave"} /\ rec' = cur[p] /\ UNCHANGED <<tasks, crashes, op>>
          /\ \E q \in {"idle", "rearm"} : GoTo(p, q, None)
      BY <1>0, <1>2 DEF Save, ParkSave
    <2>2. PICK q \in {"idle", "rearm"} : Moved(p, q)
      BY <2>1, GoToMoves
    <2>3. pc[p] \in Window \ {"arm", "unset", "count"} /\ Held(p) = cur[p].sid /\ q \notin Window
      BY <2>1, <2>2 DEF Window, Held
    <2>4. rec' \in Record /\ rec'.sid = Held(p)
      BY <1>0, <2>1, <2>3
    <2>5. QED
      BY <2>1, <2>2, <2>3, <2>4, ChainWrite
  <1>3. CASE ParkGet(p)
    <2>1. pc[p] \notin Window /\ MayEnter(p) /\ UNCHANGED <<rec, tasks, crashes, op>>
      BY <1>3 DEF ParkGet, Window
    <2>2. CASE rec = None
      <3>1. PICK q \in {"idle", "rearm"} : GoTo(p, q, None)
        BY <1>0, <1>3, <2>2 DEF ParkGet
      <3>2. Chains' \subseteq Chains /\ q \notin Window
        BY <2>1 DEF Chains, Scheduled, Window
      <3>3. QED
        BY <2>1, <3>1, <3>2, ChainGo
    <2>3. CASE rec # None
      <3>1. GoTo(p, "parkUnsched", rec) /\ rec.sid = Named(rec)
        BY <1>3, <2>3 DEF ParkGet, Named
      <3>2. "parkUnsched" \in Window \ {"arm", "unset"}
        BY DEF Window
      <3>3. QED
        BY <2>1, <3>1, <3>2, ChainEnter
    <2>4. QED
      BY <2>2, <2>3
  <1>4. CASE ParkUnsched(p)
    <2>1. /\ pc[p] = "parkUnsched" /\ GoTo(p, "parkSave", Parked(cur[p]))
          /\ tasks' = Unscheduled(cur[p]) /\ UNCHANGED <<rec, crashes, op>>
      BY <1>4 DEF ParkUnsched
    <2>2. "parkSave" \in Window \ {"count"} /\ pc[p] \in Window \ {"arm", "unset", "count"}
      BY <2>1 DEF Window
    <2>3. cur[p] \in Record /\ Parked(cur[p]).sid = None
      BY <1>0, <2>2, Sids
    <2>4. QED
      BY <2>1, <2>2, <2>3, ChainCancel
  <1>5. QED
    BY <1>1, <1>2, <1>3, <1>4, ChainArm DEF Shared

LEMMA HandlerChain ==
    ASSUME TypeInv, ExclInv, ChainInv, Exclusive, NEW t \in Task, Fire(t) \/ Handler(t)
    PROVE  ChainInv'
PROOF
  <1>0. /\ t \in Thread /\ Deferred(t) \in {"rearm", "idle"}
        /\ \A q \in {"rearm", "idle", "get", "run", "parkGet", "failGet", "judgeGet"} : q \notin Window
        /\ pc \in [Thread -> Window \cup Calm] /\ (rec # None => rec \in Record)
        /\ pc[t] \in Window \ {"count"} => cur[t] \in Record
        /\ pc[t] = "count" => sa[t] \in Record
    BY Threads, DeferredIs DEF Window, TypeInv, TypeOK, CopyInv
  <1>1. ASSUME NEW q \in {"rearm", "idle", "get", "parkGet", "failGet", "judgeGet"},
               GoTo(t, q, None), pc[t] \notin Window,
               UNCHANGED <<rec, crashes, op>>, Chains' \subseteq Chains
        PROVE  ChainInv'
    BY <1>0, <1>1, ChainGo
  <1>2. ASSUME NEW r \in Record, NEW q \in {"rearm", "idle", "parkGet"},
               pc[t] \in {"failSave", "judgeSave"}, r = cur[t],
               rec' = r, GoTo(t, q, None), UNCHANGED <<tasks, crashes, op>>
        PROVE  ChainInv'
    <2>1. pc[t] \in Window \ {"arm", "unset", "count"} /\ Held(t) = cur[t].sid
      BY <1>2 DEF Window, Held
    <2>2. Moved(t, q) /\ q \notin Window
      BY <1>0, <1>2, GoToMoves
    <2>3. rec' \in Record /\ rec'.sid = Held(t)
      BY <1>2, <2>1
    <2>4. QED
      BY <1>0, <1>2, <2>1, <2>2, <2>3, ChainWrite
  <1>3. CASE Fire(t)
    <2>1. /\ pc[t] = "idle" /\ tasks' = [tasks EXCEPT ![t] = None] /\ GoTo(t, "get", None)
          /\ UNCHANGED <<rec, crashes, op>>
      BY <1>3 DEF Fire
    <2>2. \A u \in Task : tasks'[u] = None \/ tasks'[u] = tasks[u]
      BY <2>1 DEF TypeInv, TypeOK
    <2>3. Chains' \subseteq Chains /\ pc[t] \notin Window
      BY <1>0, <2>1, <2>2 DEF Chains, Scheduled
    <2>4. QED
      BY <1>1, <2>1, <2>3
  <1>4. CASE HandlerGet(t)
    <2>1. pc[t] \notin Window /\ MayEnter(t) /\ UNCHANGED <<rec, tasks, crashes, op>>
      BY <1>0, <1>4 DEF HandlerGet
    <2>2. Chains' = Chains /\ (\A o \in Owner : op'[o] \in Ops \cup {"create"})
      BY <2>1 DEF Chains, Scheduled, ChainInv
    <2>3. CASE \E q \in {"rearm", "idle", "parkGet"} : GoTo(t, q, None)
      BY <1>1, <2>1, <2>2, <2>3
    <2>4. CASE pc' = [pc EXCEPT ![t] = "run"] /\ sa' = [sa EXCEPT ![t] = rec] /\ UNCHANGED cur
      <3>1. Moved(t, "run") /\ \A u \in Thread \ {t} : /\ cur'[u] = cur[u]
                                                       /\ u \in Task => sa'[u] = sa[u]
        BY <1>0, <2>4 DEF Moved, TypeInv, TypeOK
      <3>2. QED
        BY <1>0, <2>1, <2>2, <3>1, ChainAside
    <2>5. CASE /\ Active /\ pc' = [pc EXCEPT ![t] = "count"]
               /\ sa' = [sa EXCEPT ![t] = Counted(rec)]
      <3>1. rec \in Record /\ rec # None /\ Counted(rec).sid = rec.sid
        BY <1>0, <2>5, Sids DEF Active
      <3>2. Moved(t, "count") /\ pc'[t] = "count" /\ sa'[t] = Counted(rec)
        BY <1>0, <2>5 DEF Moved, TypeInv, TypeOK
      <3>3. Held(t)' = Named(rec)
        BY <3>1, <3>2 DEF Held, Named
      <3>4. /\ \A u \in Thread \ {t} : pc[u] \notin Window
            /\ Few(Chains \ {Named(rec)}, crashes)
        BY <1>0, <2>1, ChainBefore
      <3>5. Few((Chains \ {Held(t)})', crashes') /\ "count" \in Window
        BY <2>1, <2>2, <3>3, <3>4 DEF Window
      <3>6. QED
        BY <1>0, <2>2, <3>2, <3>4, <3>5, ChainInside
    <2>6. QED
      BY <1>0, <1>4, <2>3, <2>4, <2>5 DEF HandlerGet
  <1>5. CASE HandlerCount(t)
    <2>1. /\ pc[t] = "count" /\ rec' = sa[t] /\ pc' = [pc EXCEPT ![t] = "run"]
          /\ UNCHANGED <<tasks, crashes, op>>
      BY <1>5 DEF HandlerCount
    <2>2. Moved(t, "run") /\ Held(t) = sa[t].sid /\ pc[t] \in Window \ {"arm", "unset"}
      BY <1>0, <2>1 DEF Moved, Held, Window
    <2>3. QED
      BY <1>0, <2>1, <2>2, ChainWrite
  <1>6. CASE RunEnds(t)
    <2>1. pc[t] \notin Window /\ UNCHANGED <<rec, crashes, op>> /\ Chains' \subseteq Chains
      BY <1>0, <1>6 DEF RunEnds, Chains, Scheduled
    <2>2. \E q \in {"rearm", "idle", "failGet", "judgeGet"} : GoTo(t, q, None)
      BY <1>0, <1>6 DEF RunEnds
    <2>3. QED
      BY <1>1, <2>1, <2>2
  <1>7. CASE FailGet(t)
    <2>1. pc[t] \notin Window /\ MayEnter(t) /\ UNCHANGED <<rec, tasks, crashes, op>>
      BY <1>0, <1>7 DEF FailGet
    <2>2. CASE rec = None
      <3>1. GoTo(t, Deferred(t), None) /\ Chains' \subseteq Chains
        BY <1>7, <2>1, <2>2 DEF FailGet, Chains, Scheduled
      <3>2. QED
        BY <1>0, <1>1, <2>1, <3>1
    <2>3. CASE rec # None
      <3>1. PICK r \in {Delayed(rec), rec} : GoTo(t, "failSave", r)
        BY <1>7, <2>3 DEF FailGet
      <3>2. r.sid = Named(rec)
        BY <1>0, <2>3, Sids DEF Named
      <3>3. "failSave" \in Window \ {"arm", "unset"}
        BY DEF Window
      <3>4. QED
        BY <1>0, <2>1, <3>1, <3>2, <3>3, ChainEnter
    <2>4. QED
      BY <2>2, <2>3
  <1>8. CASE FailSave(t) \/ JudgeSave(t)
    <2>1. /\ pc[t] \in {"failSave", "judgeSave"} /\ rec' = cur[t] /\ UNCHANGED <<tasks, crashes, op>>
          /\ \E q \in {"rearm", "idle", "parkGet"} : GoTo(t, q, None)
      BY <1>0, <1>8 DEF FailSave, JudgeSave
    <2>2. cur[t] \in Record
      BY <1>0, <2>1 DEF Window
    <2>3. QED
      BY <1>2, <2>1, <2>2
  <1>9. CASE JudgeGet(t)
    <2>1. /\ pc[t] \notin Window /\ MayEnter(t) /\ UNCHANGED <<rec, tasks, crashes, op>>
          /\ "judgeSave" \in Window \ {"arm", "unset"}
      BY <1>0, <1>9 DEF JudgeGet, Window
    <2>2. CASE rec = None
      <3>1. PICK r : GoTo(t, "judgeSave", r)
        BY <1>9 DEF JudgeGet
      <3>2. QED
        BY <1>0, <2>1, <2>2, <3>1, ChainEnter
    <2>3. CASE rec # None
      <3>1. PICK r \in {Met(rec), rec, Delayed(rec)} : GoTo(t, "judgeSave", r)
        BY <1>9, <2>3 DEF JudgeGet
      <3>2. r.sid = Named(rec)
        BY <1>0, <2>3, Sids DEF Named
      <3>3. QED
        BY <1>0, <2>1, <3>1, <3>2, ChainEnter
    <2>4. QED
      BY <2>2, <2>3
  <1>10. CASE Rearm(t)
    <2>1. pc[t] \notin Window /\ MayEnter(t) /\ UNCHANGED <<rec, tasks, crashes, op>>
      BY <1>0, <1>10 DEF Rearm
    <2>2. CASE Active
      <3>1. GoTo(t, "unsched", rec) /\ rec.sid = Named(rec)
        BY <1>10, <2>2 DEF Rearm, Named, Active
      <3>2. "unsched" \in Window \ {"arm", "unset"}
        BY DEF Window
      <3>3. QED
        BY <1>0, <2>1, <3>1, <3>2, ChainEnter
    <2>3. CASE ~Active
      <3>1. GoTo(t, "idle", None) /\ Chains' \subseteq Chains
        BY <1>10, <2>1, <2>3 DEF Rearm, Chains, Scheduled
      <3>2. QED
        BY <1>1, <2>1, <3>1
    <2>4. QED
      BY <2>2, <2>3
  <1>11. QED
    BY <1>3, <1>4, <1>5, <1>6, <1>7, <1>8, <1>9, <1>10 DEF Handler

LEMMA OwnerChain ==
    ASSUME TypeInv, ExclInv, ChainInv, Exclusive, "recreate" \notin Ops, NEW o \in Owner,
           Served(o) \/ \E k \in Ops : Request(o, k)
    PROVE  ChainInv'
PROOF
  <1>0. /\ o \in Thread /\ (rec # None => rec \in Record)
        /\ "idle" \notin Window /\ "serve" \notin Window
        /\ pc[o] \in Window \ {"count"} => cur[o] \in Record
        /\ op[o] \in Ops \cup {"create"}
    BY Threads DEF Window, TypeInv, TypeOK, CopyInv, ChainInv
  <1>1. ASSUME NEW k \in Ops, Request(o, k) PROVE ChainInv'
    <2>1. /\ pc[o] = "idle" /\ GoTo(o, "serve", None) /\ UNCHANGED <<rec, tasks, crashes>>
          /\ op' = [op EXCEPT ![o] = k]
      BY <1>1 DEF Request
    <2>2. /\ Moved(o, "serve")
          /\ \A u \in Thread \ {o} : /\ cur'[u] = cur[u]
                                     /\ u \in Task => sa'[u] = sa[u]
      BY <1>0, <2>1, GoToMoves
    <2>3. \A u \in Owner : op'[u] \in Ops \cup {"create"}
      BY <2>1 DEF ChainInv, TypeInv, TypeOK
    <2>4. Chains' \subseteq Chains
      BY <2>1 DEF Chains, Scheduled
    <2>5. QED
      BY <1>0, <2>1, <2>2, <2>3, <2>4, ChainAside
  <1>2. CASE Serve(o)
    <2>1. /\ pc[o] = "serve" /\ pc[o] \notin Window /\ MayEnter(o)
          /\ UNCHANGED <<rec, tasks, crashes, op>>
      BY <1>0, <1>2 DEF Serve
    <2>2. ASSUME NEW q \in {"createSave", "pauseUnsched", "resumeSave", "editSave", "unsched",
                            "deleteUnsched", "parkUnsched"},
                 NEW r, GoTo(o, q, r), rec = None \/ r.sid = Named(rec)
          PROVE  ChainInv'
      <3>1. q \in Window \ {"arm", "unset"} /\ q # "count"
        BY DEF Window
      <3>2. QED
        BY <1>0, <2>1, <2>2, <3>1, ChainEnter
    <2>3. CASE CreateGet(o)
      <3>1. GoTo(o, "createSave", Fresh) /\ rec = None
        BY <1>0, <2>3 DEF CreateGet
      <3>2. QED
        BY <2>2, <3>1
    <2>4. CASE PauseGet(o)
      <3>1. GoTo(o, "pauseUnsched", Paused(rec)) /\ Paused(rec).sid = Named(rec)
        BY <1>0, <2>4, Sids DEF PauseGet, Named
      <3>2. QED
        BY <2>2, <3>1
    <2>5. CASE ResumeGet(o)
      <3>1. rec \in Record /\ rec.broken \in BOOLEAN
        BY <1>0, <2>5, RecordFields DEF ResumeGet
      <3>2. PICK broken \in {FALSE, rec.broken} : GoTo(o, "resumeSave", Resumed(rec, broken))
        BY <2>5 DEF ResumeGet
      <3>3. Resumed(rec, broken).sid = Named(rec)
        BY <3>1, Sids, NoneAssumption DEF Named
      <3>4. QED
        BY <2>2, <3>2, <3>3
    <2>6. CASE EditGet(o)
      <3>1. rec.sid = Named(rec) /\ \E q \in {"editSave", "unsched"} : GoTo(o, q, rec)
        BY <2>6 DEF EditGet, Named
      <3>2. QED
        BY <2>2, <3>1
    <2>7. CASE DeleteGet(o) \/ BreakGet(o)
      <3>1. rec.sid = Named(rec) /\ \E q \in {"deleteUnsched", "parkUnsched"} : GoTo(o, q, rec)
        BY <2>7 DEF DeleteGet, BreakGet, Named
      <3>2. QED
        BY <2>2, <3>1
    <2>8. CASE GoTo(o, "idle", None)
      <3>1. Chains' \subseteq Chains
        BY <2>1 DEF Chains, Scheduled
      <3>2. QED
        BY <1>0, <2>1, <2>8, <3>1, ChainGo
    <2>9. QED
      BY <1>2, <2>3, <2>4, <2>5, <2>6, <2>7, <2>8 DEF Serve
  <1>3. CASE RunStandingNow(o)
    <2>1. pc[o] = "serve" /\ GoTo(o, "idle", None) /\ UNCHANGED <<rec, crashes, op>>
      BY <1>3 DEF RunStandingNow
    <2>2. Chains' \subseteq Chains
      <3>1. CASE UNCHANGED tasks
        BY <3>1 DEF Chains, Scheduled
      <3>2. CASE Unused # {} /\ tasks' = Queued(NewId, 0, "manual")
        <4>1. NewId \in Task /\ 0 \in 0..Far
          BY <3>2, NewIdFacts, Times
        <4>2. /\ tasks'[NewId].trig = "manual"
              /\ \A u \in Task \ {NewId} : tasks'[u] = tasks[u]
          BY <3>2, <4>1, QueuedFacts DEF TypeInv
        <4>3. QED
          BY <4>2 DEF Chains, Scheduled
      <3>3. QED
        BY <1>3, <3>1, <3>2 DEF RunStandingNow
    <2>3. QED
      BY <1>0, <2>1, <2>2, ChainGo
  <1>4. CASE PauseUnsched(o)
    <2>1. /\ pc[o] = "pauseUnsched" /\ tasks' = Unscheduled(cur[o]) /\ UNCHANGED <<rec, crashes, op>>
          /\ GoTo(o, "pauseSave", IF cur[o].sid = None THEN cur[o] ELSE Released(cur[o]))
      BY <1>4 DEF PauseUnsched
    <2>2. "pauseSave" \in Window \ {"count"} /\ pc[o] \in Window \ {"arm", "unset", "count"}
      BY <2>1 DEF Window
    <2>3. cur[o] \in Record /\ Released(cur[o]).sid = None
      BY <1>0, <2>2, Sids
    <2>4. (IF cur[o].sid = None THEN cur[o] ELSE Released(cur[o])).sid = None
      BY <2>3
    <2>5. QED
      BY <1>0, <2>1, <2>2, <2>3, <2>4, ChainCancel
  <1>5. CASE DeleteUnsched(o)
    <2>1. /\ pc[o] = "deleteUnsched" /\ tasks' = Unscheduled(cur[o]) /\ UNCHANGED <<rec, crashes, op>>
          /\ GoTo(o, "unset", cur[o])
      BY <1>5 DEF DeleteUnsched
    <2>2. "unset" \in Window \ {"count"} /\ pc[o] \in Window \ {"arm", "unset", "count"}
      BY <2>1 DEF Window
    <2>3. QED
      BY <1>0, <2>1, <2>2, ChainCancel
  <1>6. CASE PauseSave(o) \/ EditSave(o)
    <2>1. /\ pc[o] \in {"pauseSave", "editSave"} /\ rec' = cur[o] /\ GoTo(o, "idle", None)
          /\ UNCHANGED <<tasks, crashes, op>>
      BY <1>6 DEF PauseSave, EditSave
    <2>2. Moved(o, "idle") /\ pc[o] \in Window \ {"arm", "unset", "count"} /\ Held(o) = cur[o].sid
      BY <1>0, <2>1, GoToMoves DEF Window, Held
    <2>3. QED
      BY <1>0, <2>1, <2>2, ChainWrite
  <1>7. CASE CreateSave(o) \/ ResumeSave(o)
    <2>1. /\ pc[o] \in {"createSave", "resumeSave"} /\ rec' = cur[o] /\ GoTo(o, "unsched", cur[o])
          /\ UNCHANGED <<tasks, crashes, op>>
      BY <1>7 DEF CreateSave, ResumeSave
    <2>2. /\ Moved(o, "unsched") /\ cur'[o] = cur[o] /\ pc'[o] = "unsched"
          /\ pc[o] \in Window \ {"arm", "unset", "count"}
      BY <1>0, <2>1, GoToMoves DEF Window, Moved
    <2>3. Held(o) = cur[o].sid /\ Held(o)' = cur[o].sid
      BY <2>1, <2>2 DEF Held
    <2>4. QED
      BY <1>0, <2>1, <2>2, <2>3, ChainWrite
  <1>8. CASE DeleteUnset(o)
    <2>1. pc[o] = "unset" /\ rec' = None /\ GoTo(o, "idle", None) /\ UNCHANGED <<tasks, crashes, op>>
      BY <1>8 DEF DeleteUnset
    <2>2. Moved(o, "idle") /\ pc[o] \in Window /\ Held(o) = None
      BY <1>0, <2>1, GoToMoves DEF Window, Held
    <2>3. (Chains \ {Named(rec)})' = Chains \ {Held(o)}
      BY <2>1, <2>2 DEF Named, Chains, Scheduled
    <2>4. /\ \A u \in Thread \ {o} : pc[u] \notin Window
          /\ Few(Chains \ {Held(o)}, crashes)
      BY <1>0, <2>2, ChainBefore
    <2>5. \A u \in Owner : op'[u] \in Ops \cup {"create"}
      BY <2>1 DEF ChainInv
    <2>6. QED
      BY <1>0, <2>1, <2>2, <2>3, <2>4, <2>5, ChainInside
  <1>9. QED
    BY <1>1, <1>2, <1>3, <1>4, <1>5, <1>6, <1>7, <1>8 DEF Served

LEMMA WorldChain ==
    ASSUME TypeInv, ExclInv, ChainInv, Exclusive, ListTasks \/ Reconcile \/ Tick \/ Crash
    PROVE  ChainInv'
PROOF
  <1>0. "rearm" \in Thread /\ "idle" \notin Window /\ "read" \notin Window /\ Aged(None) = None
    BY Threads DEF Window, Aged, Unless
  <1>1. CASE ListTasks
    <2>1. pc["rearm"] = "idle" /\ GoTo("rearm", "read", None) /\ UNCHANGED <<rec, tasks, crashes, op>>
      BY <1>1 DEF ListTasks
    <2>2. Chains' \subseteq Chains
      BY <2>1 DEF Chains, Scheduled
    <2>3. QED
      BY <1>0, <2>1, <2>2, ChainGo
  <1>2. CASE Reconcile
    <2>1. /\ pc["rearm"] = "read" /\ MayEnter("rearm") /\ UNCHANGED <<rec, tasks, crashes, op>>
          /\ Chains' \subseteq Chains
      BY <1>2 DEF Reconcile, Chains, Scheduled
    <2>2. CASE Active /\ Stranded(rec)
      <3>1. GoTo("rearm", "unsched", rec) /\ rec.sid = Named(rec)
        BY <1>2, <2>2 DEF Reconcile, Named, Active
      <3>2. "unsched" \in Window \ {"arm", "unset"}
        BY DEF Window
      <3>3. QED
        BY <1>0, <2>1, <3>1, <3>2, ChainEnter
    <2>3. CASE ~(Active /\ Stranded(rec))
      <3>1. GoTo("rearm", "idle", None)
        BY <1>2, <2>3 DEF Reconcile
      <3>2. QED
        BY <1>0, <2>1, <3>1, ChainGo
    <2>4. QED
      BY <2>2, <2>3
  <1>3. CASE Tick
    <2>1. /\ rec' = Aged(rec) /\ UNCHANGED <<pc, op, crashes>>
          /\ \A p \in Thread : cur'[p] = Aged(cur[p])
          /\ \A t \in Task : sa'[t] = Aged(sa[t])
      BY <1>3 DEF Tick
    <2>2. Chains' = Chains
      BY <1>3, TickRows, TypeParts DEF Chains, Scheduled
    <2>3. Named(rec)' = Named(rec)
      <3>1. rec = None => rec' = None
        BY <1>0, <2>1
      <3>2. ASSUME rec # None PROVE rec' # None /\ rec'.sid = rec.sid
        <4>1. rec \in Record
          BY <3>2 DEF TypeInv, TypeOK
        <4>2. rec' \in Record /\ rec'.sid = rec.sid
          BY <2>1, <4>1, AgedKeeps, RecordEdits
        <4>3. QED
          BY <4>2, NoneAssumption
      <3>3. QED
        BY <3>1, <3>2 DEF Named
    <2>4. ASSUME NEW p \in Thread, pc[p] \in Window PROVE Held(p)' = Held(p)
      <3>1. CASE pc[p] = "count"
        <4>1. p \in Task /\ sa[p] \in Record
          BY <3>1 DEF TypeInv, CopyInv
        <4>2. QED
          BY <2>1, <3>1, <4>1, AgedKeeps DEF Held
      <3>2. CASE pc[p] # "count"
        <4>1. cur[p] \in Record
          BY <2>4, <3>2 DEF TypeInv, CopyInv
        <4>2. cur'[p].sid = cur[p].sid
          BY <2>1, <4>1, AgedKeeps
        <4>3. QED
          BY <2>1, <3>2, <4>2 DEF Held
      <3>3. QED
        BY <3>1, <3>2
    <2>5. QED
      BY <2>1, <2>2, <2>3, <2>4 DEF ChainInv, AtRest
  <1>4. CASE Crash
    <2>1. /\ \A p \in Thread : pc'[p] = "idle"
          /\ crashes' = crashes + 1 /\ UNCHANGED <<rec, tasks, op>> /\ crashes \in Nat
      BY <1>4 DEF Crash, TypeInv, TypeOK
    <2>2. Chains' = Chains /\ Named(rec)' = Named(rec)
      BY <2>1 DEF Chains, Scheduled, Named
    <2>3. \E x : Few(Chains \ {x}, crashes)
      BY DEF ChainInv, AtRest
    <2>4. Few((Chains \ {Named(rec)})', crashes')
      <3>1. PICK x : Few(Chains \ {x}, crashes)
        BY <2>3
      <3>2. (Chains \ {Named(rec)}) \ {x} \subseteq Chains \ {x}
        OBVIOUS
      <3>3. Few(Chains \ {Named(rec)}, crashes + 1)
        BY <2>1, <3>1, <3>2, FewFacts
      <3>4. QED
        BY <2>1, <2>2, <3>3
    <2>5. QED
      BY <1>0, <2>1, <2>4 DEF ChainInv
  <1>5. QED
    BY <1>1, <1>2, <1>3, <1>4

\* For any number of owners, tasks and deaths: where windows do not overlap and
\* a name that is taken is never created again, no task is queued beyond the one
\* the record names, but for one per death between ScheduleTask and the save.
THEOREM ChainIsOne == Exclusive /\ "recreate" \notin Ops => (Spec => []OneChain)
PROOF
  <1> SUFFICES ASSUME Exclusive, "recreate" \notin Ops PROVE Spec => []OneChain
    OBVIOUS
  <1> DEFINE Inv == TypeInv /\ ExclInv /\ ChainInv
  <1>1. Init => Inv
    <2>1. ASSUME Init PROVE ChainInv
      <3>1. crashes = 0 /\ Chains \ {Named(rec)} = {} /\ (\A p \in Thread : pc[p] \notin Window)
        BY <2>1 DEF Init, Chains, Scheduled, Window
      <3>2. Few({}, 0)
        BY FS_EmptySet DEF Few
      <3>3. QED
        BY <2>1, <3>1, <3>2 DEF ChainInv, Init
    <2>2. QED
      BY <2>1, InitTypes, InitApart
  <1>2. Inv /\ [Next]_vars => Inv'
    <2> SUFFICES ASSUME Inv, [Next]_vars PROVE ChainInv'
      BY TypeStep, ApartStep
    <2>1. ASSUME NEW o \in Owner, Served(o) \/ \E k \in Ops : Request(o, k) PROVE ChainInv'
      BY <2>1, OwnerChain
    <2>2. CASE UNCHANGED vars
      BY <2>2 DEF vars, ChainInv, AtRest, Chains, Scheduled, Named, Held
    <2>3. QED
      BY <2>1, <2>2, SharedChain, HandlerChain, WorldChain DEF Next
  <1>3. Inv => OneChain
    <2> SUFFICES ASSUME Inv, AtRest
                 PROVE  Cardinality({t \in Task : Scheduled(t) /\ (rec # None => rec.sid # t)})
                        <= crashes
      BY DEF OneChain
    <2>1. {t \in Task : Scheduled(t) /\ (rec # None => rec.sid # t)} = Chains \ {Named(rec)}
      BY Threads DEF Chains, Named
    <2>2. QED
      BY <2>1 DEF ChainInv, Few
  <1>4. QED
    BY <1>1, <1>2, <1>3, PTL DEF Spec

-----------------------------------------------------------------------------
(* One run at a time, and as many as were asked for *)

\* The copy that p's window will be closed with.
Copy(p) == IF pc[p] = "count" THEN sa[p] ELSE cur[p]

\* The time an attempt asked for is still to come.
Asks(x) == x # None /\ x > 0

\* What a window at q with copy c has over the record r: there is one, unless it
\* is being created or a goal is judged after it was deleted; only an active
\* record is counted and re-armed; what is written by a stop is paused and names
\* no task, and nothing but a met goal pauses a record that keeps its task; only
\* an attempt asks for a time, and arming consumes it; the count is the record's
\* but where it starts anew or goes up.
Fits(q, c, r) ==
    /\ q = "createSave" => r = None /\ ~c.paused /\ c.sid = None
    /\ r = None => q \in {"createSave", "judgeSave"}
    /\ q \in {"unsched", "arm", "count"} => r # None /\ ~r.paused /\ ~c.paused
    /\ q = "resumeSave" => ~c.paused
    /\ q = "save" => IF c.paused THEN c.sid = None ELSE ~r.paused /\ c.ask = None
    /\ q \in {"pauseUnsched", "pauseSave", "parkSave"} => c.paused
    /\ q \in {"pauseSave", "parkSave"} => c.sid = None
    /\ q \in {"editSave", "failSave"} => c.paused = r.paused
    /\ q = "judgeSave" /\ r # None => c.paused = r.paused \/ c.stop = "met"
    /\ q \in {"unsched", "arm"} => c.ask = r.ask
    /\ q \notin {"failSave", "judgeSave"} /\ Asks(c.ask) => r # None /\ c.ask = r.ask
    /\ q = "createSave" => c.runs = 0
    /\ r # None => c.runs = CASE q = "resumeSave" -> IF r.stop = "ended" THEN 0 ELSE r.runs
                              [] q = "count"      -> AtMost(r.runs + 1, RunCap)
                              [] OTHER            -> r.runs

FitInv == \A p \in Thread : pc[p] \in Window => Fits(pc[p], Copy(p), rec)

\* What the edits do to the other fields.
LEMMA Edits ==
    ASSUME NEW r \in Record
    PROVE  /\ Counted(r).ask = r.ask /\ Counted(r).paused = r.paused
           /\ Counted(r).runs = AtMost(r.runs + 1, RunCap)
           /\ Delayed(r).ask = Backoff /\ Delayed(r).paused = r.paused /\ Delayed(r).runs = r.runs
           /\ Met(r).ask = r.ask /\ Met(r).stop = "met" /\ Met(r).runs = r.runs
           /\ Ended(r).ask = r.ask /\ Ended(r).paused /\ Ended(r).runs = r.runs
           /\ Parked(r).ask = r.ask /\ Parked(r).paused /\ Parked(r).runs = r.runs
           /\ Paused(r).ask = r.ask /\ Paused(r).paused /\ Paused(r).runs = r.runs
           /\ Released(r).ask = r.ask /\ Released(r).paused = r.paused /\ Released(r).runs = r.runs
           /\ \A b \in BOOLEAN : /\ Resumed(r, b).ask = r.ask /\ ~Resumed(r, b).paused
                                 /\ Resumed(r, b).runs = IF r.stop = "ended" THEN 0 ELSE r.runs
           /\ \A t \in Task, n \in 0..Far : /\ Armed(r, t, n).ask = None
                                            /\ Armed(r, t, n).paused = r.paused
                                            /\ Armed(r, t, n).runs = r.runs
           /\ Fresh.ask = None /\ ~Fresh.paused /\ Fresh.runs = 0 /\ Fresh.sid = None
PROOF
  <1>1. /\ Counted(r).ask = r.ask /\ Counted(r).paused = r.paused
        /\ Counted(r).runs = AtMost(r.runs + 1, RunCap)
    BY DEF Counted, Record
  <1>7. /\ Delayed(r).ask = Backoff /\ Delayed(r).paused = r.paused /\ Delayed(r).runs = r.runs
         /\ Met(r).ask = r.ask /\ Met(r).stop = "met" /\ Met(r).runs = r.runs
    BY DEF Delayed, Met, Record
  <1>2. /\ Ended(r).ask = r.ask /\ Ended(r).paused /\ Ended(r).runs = r.runs
        /\ Parked(r).ask = r.ask /\ Parked(r).paused /\ Parked(r).runs = r.runs
    BY DEF Ended, Parked, Record
  <1>3. /\ Paused(r).ask = r.ask /\ Paused(r).paused /\ Paused(r).runs = r.runs
        /\ Released(r).ask = r.ask /\ Released(r).paused = r.paused /\ Released(r).runs = r.runs
    BY DEF Paused, Released, Record
  <1>4. ASSUME NEW b \in BOOLEAN
        PROVE  /\ Resumed(r, b).ask = r.ask /\ ~Resumed(r, b).paused
               /\ Resumed(r, b).runs = IF r.stop = "ended" THEN 0 ELSE r.runs
    BY DEF Resumed, Record
  <1>5. ASSUME NEW t \in Task, NEW n \in 0..Far
        PROVE  /\ Armed(r, t, n).ask = None /\ Armed(r, t, n).paused = r.paused
               /\ Armed(r, t, n).runs = r.runs
    BY DEF Armed, Record
  <1>6. Fresh.ask = None /\ ~Fresh.paused /\ Fresh.runs = 0 /\ Fresh.sid = None
    BY DEF Fresh
  <1>8. QED
    BY <1>1, <1>2, <1>3, <1>4, <1>5, <1>6, <1>7

\* A step that leaves the record, and p outside any window.
LEMMA FitAside ==
    ASSUME TypeInv, FitInv, NEW p \in Thread, NEW q, Moved(p, q), q \notin Window, UNCHANGED rec,
           \A u \in Thread \ {p} : /\ cur'[u] = cur[u]
                                   /\ u \in Task => sa'[u] = sa[u]
    PROVE  FitInv'
PROOF
  <1>1. ASSUME NEW u \in Thread, pc'[u] \in Window PROVE Fits(pc[u], Copy(u), rec)'
    <2>1. u # p /\ pc'[u] = pc[u] /\ Fits(pc[u], Copy(u), rec)
      BY <1>1 DEF Moved, FitInv
    <2>2. pc[u] = "count" => u \in Task
      BY DEF TypeInv, CopyInv
    <2>3. Copy(u)' = Copy(u)
      BY <2>1, <2>2 DEF Copy
    <2>4. QED
      BY <2>1, <2>3 DEF Fits
  <1>2. QED
    BY <1>1 DEF FitInv

\* A step inside p's window, or one that opens or closes it.
LEMMA FitInside ==
    ASSUME NEW p \in Thread, NEW q, Moved(p, q), \A u \in Thread \ {p} : pc[u] \notin Window,
           q \in Window => Fits(q, Copy(p)', rec')
    PROVE  FitInv'
PROOF
  <1>1. ASSUME NEW u \in Thread, pc'[u] \in Window PROVE Fits(pc[u], Copy(u), rec)'
    <2>1. u = p /\ pc'[u] = q
      BY <1>1 DEF Moved
    <2>2. Fits(q, Copy(p)', rec')
      BY <1>1, <2>1
    <2>3. QED
      BY <2>1, <2>2 DEF Fits
  <1>2. QED
    BY <1>1 DEF FitInv

\* The same for a step that moves p on with a copy r, entering a window, ...
LEMMA FitGo ==
    ASSUME TypeInv, FitInv, NEW p \in Thread, NEW q, NEW r, GoTo(p, q, r), q \notin Window, UNCHANGED rec
    PROVE  FitInv'
  BY GoToMoves, FitAside

LEMMA FitOn ==
    ASSUME TypeInv, ExclInv, FitInv, Exclusive, NEW p \in Thread, NEW q \in Window \ {"count"}, NEW r,
           GoTo(p, q, r), pc[p] \in Window \/ MayEnter(p), UNCHANGED rec,
           Fits(q, r, rec)
    PROVE  FitInv'
PROOF
  <1>1. Moved(p, q) /\ cur'[p] = r /\ pc'[p] = q
    BY GoToMoves DEF Moved, Window
  <1>2. \A u \in Thread \ {p} : pc[u] \notin Window
    BY DEF ExclInv, MayEnter
  <1>3. Copy(p)' = r
    BY <1>1 DEF Copy
  <1>4. Fits(q, Copy(p)', rec')
    BY <1>3
  <1>5. QED
    BY <1>1, <1>2, <1>4, FitInside

\* ... and closing it.
LEMMA FitWrite ==
    ASSUME ExclInv, NEW p \in Thread, NEW q, Moved(p, q), pc[p] \in Window, q \notin Window
    PROVE  FitInv'
PROOF
  <1>1. \A u \in Thread \ {p} : pc[u] \notin Window
    BY DEF ExclInv
  <1>2. QED
    BY <1>1, FitInside

LEMMA SharedFit ==
    ASSUME TypeInv, ExclInv, FitInv, Exclusive, NEW p \in Thread, Shared(p)
    PROVE  FitInv'
PROOF
  <1>0. /\ pc[p] \in Window \ {"count"} => cur[p] \in Record /\ Fits(pc[p], cur[p], rec)
        /\ p \in Task => Deferred(p) \in {"rearm", "idle"}
        /\ rec # None => rec \in Record
        /\ "idle" \notin Window /\ "rearm" \notin Window
    BY DeferredIs DEF TypeInv, TypeOK, CopyInv, FitInv, Copy, Window
  <1>1. CASE Unsched(p)
    <2>1. /\ pc[p] = "unsched" /\ pc[p] \in Window \ {"count"} /\ "arm" \in Window \ {"count"}
          /\ GoTo(p, "arm", cur[p]) /\ UNCHANGED rec
      BY <1>1 DEF Unsched, Window
    <2>2. Fits("arm", cur[p], rec)
      BY <1>0, <2>1 DEF Fits
    <2>3. QED
      BY <2>1, <2>2, FitOn
  <1>2. CASE Arm(p)
    <2>1. /\ pc[p] = "arm" /\ pc[p] \in Window \ {"count"} /\ "save" \in Window \ {"count"}
          /\ UNCHANGED rec
      BY <1>2 DEF Arm, Window
    <2>2. cur[p] \in Record /\ Fits("arm", cur[p], rec)
      BY <1>0, <2>1
    <2>3. CASE GoTo(p, "save", Ended(cur[p]))
      <3>1. Fits("save", Ended(cur[p]), rec)
        BY <2>2, Edits, Sids DEF Fits
      <3>2. QED
        BY <2>1, <2>3, <3>1, FitOn
    <2>4. ASSUME Unused # {}, NEW gap \in Gap,
                 GoTo(p, "save", Armed(cur[p], NewId, NextRun(cur[p], gap)))
          PROVE  FitInv'
      <3>1. NewId \in Task /\ NextRun(cur[p], gap) \in 0..Far
        BY <2>2, <2>4, NewIdFacts, NextRunIs
      <3> DEFINE c == Armed(cur[p], NewId, NextRun(cur[p], gap))
      <3>2. c.ask = None /\ c.paused = cur[p].paused /\ c.runs = cur[p].runs
        BY <2>2, <3>1, Edits
      <3> HIDE DEF c
      <3>3. Fits("save", c, rec)
        BY <2>2, <3>2 DEF Fits, Asks
      <3>4. QED
        BY <2>1, <2>4, <3>3, FitOn DEF c
    <2>5. QED
      BY <1>2, <2>3, <2>4 DEF Arm
  <1>3. CASE Save(p) \/ ParkSave(p)
    <2>1. /\ pc[p] \in {"save", "parkSave"}
          /\ \E q \in {"idle", "rearm"} : GoTo(p, q, None)
      BY <1>0, <1>3 DEF Save, ParkSave
    <2>2. PICK q \in {"idle", "rearm"} : Moved(p, q)
      BY <2>1, GoToMoves
    <2>3. pc[p] \in Window /\ q \notin Window
      BY <1>0, <2>1 DEF Window
    <2>4. QED
      BY <2>2, <2>3, FitWrite
  <1>4. CASE ParkGet(p)
    <2>1. MayEnter(p) /\ UNCHANGED rec /\ "parkUnsched" \in Window \ {"count"}
      BY <1>4 DEF ParkGet, Window
    <2>2. CASE rec = None
      <3>1. PICK q \in {"idle", "rearm"} : GoTo(p, q, None)
        BY <1>0, <1>4, <2>2 DEF ParkGet
      <3>2. QED
        BY <1>0, <2>1, <3>1, FitGo
    <2>3. CASE rec # None
      <3>1. GoTo(p, "parkUnsched", rec)
        BY <1>4, <2>3 DEF ParkGet
      <3>2. Fits("parkUnsched", rec, rec)
        BY <2>3 DEF Fits
      <3>3. QED
        BY <2>1, <3>1, <3>2, FitOn
    <2>4. QED
      BY <2>2, <2>3
  <1>5. CASE ParkUnsched(p)
    <2>1. /\ pc[p] = "parkUnsched" /\ pc[p] \in Window \ {"count"} /\ "parkSave" \in Window \ {"count"}
          /\ GoTo(p, "parkSave", Parked(cur[p])) /\ UNCHANGED rec
      BY <1>5 DEF ParkUnsched, Window
    <2>2. cur[p] \in Record /\ Fits("parkUnsched", cur[p], rec)
      BY <1>0, <2>1
    <2>3. Fits("parkSave", Parked(cur[p]), rec)
      BY <2>2, Edits, Sids DEF Fits
    <2>4. QED
      BY <2>1, <2>3, FitOn
  <1>6. QED
    BY <1>1, <1>2, <1>3, <1>4, <1>5 DEF Shared

\* Where runs fail, targets go away and goals are judged too.
LEMMA HandlerFit ==
    ASSUME TypeInv, ExclInv, FitInv, Exclusive, NEW t \in Task, Fire(t) \/ Handler(t)
    PROVE  FitInv'
PROOF
  <1>0. /\ t \in Thread /\ Deferred(t) \in {"rearm", "idle"} /\ (rec # None => rec \in Record)
        /\ \A q \in {"rearm", "idle", "get", "run", "parkGet", "failGet", "judgeGet"} : q \notin Window
        /\ pc \in [Thread -> Window \cup Calm] /\ sa \in [Task -> Record \cup {None}]
        /\ {"failSave", "judgeSave", "unsched"} \subseteq Window \ {"count"}
    BY Threads, DeferredIs DEF Window, TypeInv, TypeOK
  <1>1. CASE Fire(t) \/ RunEnds(t)
    <2>1. UNCHANGED rec /\ \E q \in {"rearm", "idle", "get", "failGet", "judgeGet"} : GoTo(t, q, None)
      BY <1>0, <1>1 DEF Fire, RunEnds
    <2>2. QED
      BY <1>0, <2>1, FitGo
  <1>2. CASE HandlerGet(t)
    <2>1. pc[t] = "get" /\ MayEnter(t) /\ UNCHANGED rec
      BY <1>2 DEF HandlerGet
    <2>2. CASE GoTo(t, Deferred(t), None) \/ GoTo(t, "parkGet", None)
      BY <1>0, <2>1, <2>2, FitGo
    <2>3. CASE pc' = [pc EXCEPT ![t] = "run"] /\ sa' = [sa EXCEPT ![t] = rec] /\ UNCHANGED cur
      <3>1. Moved(t, "run") /\ \A u \in Thread \ {t} : /\ cur'[u] = cur[u]
                                                       /\ u \in Task => sa'[u] = sa[u]
        BY <1>0, <2>3 DEF Moved
      <3>2. QED
        BY <1>0, <2>1, <3>1, FitAside
    <2>4. CASE /\ Active /\ pc' = [pc EXCEPT ![t] = "count"]
               /\ sa' = [sa EXCEPT ![t] = Counted(rec)]
      <3>1. rec \in Record /\ rec # None /\ ~rec.paused
        BY <1>0, <2>4 DEF Active
      <3>2. Moved(t, "count") /\ pc'[t] = "count" /\ Copy(t)' = Counted(rec)
        BY <1>0, <2>4 DEF Moved, Copy
      <3>3. \A u \in Thread \ {t} : pc[u] \notin Window
        BY <2>1 DEF MayEnter
      <3>4. Fits("count", Counted(rec), rec)
        BY <3>1, Edits DEF Fits
      <3>5. Fits("count", Copy(t)', rec')
        BY <2>1, <3>2, <3>4
      <3>6. QED
        BY <1>0, <3>2, <3>3, <3>5, FitInside
    <2>5. QED
      BY <1>2, <2>2, <2>3, <2>4 DEF HandlerGet
  <1>3. CASE HandlerCount(t)
    <2>1. pc[t] = "count" /\ Moved(t, "run") /\ pc[t] \in Window
      BY <1>0, <1>3 DEF HandlerCount, Moved, Window
    <2>2. QED
      BY <1>0, <2>1, FitWrite
  <1>4. CASE FailSave(t) \/ JudgeSave(t)
    <2>1. /\ pc[t] \in {"failSave", "judgeSave"}
          /\ \E q \in {"rearm", "idle", "parkGet"} : GoTo(t, q, None)
      BY <1>0, <1>4 DEF FailSave, JudgeSave
    <2>2. PICK q \in {"rearm", "idle", "parkGet"} : Moved(t, q)
      BY <1>0, <2>1, GoToMoves
    <2>3. QED
      BY <1>0, <2>1, <2>2, FitWrite
  <1>5. CASE FailGet(t)
    <2>1. MayEnter(t) /\ UNCHANGED rec
      BY <1>5 DEF FailGet
    <2>2. CASE rec = None
      <3>1. GoTo(t, Deferred(t), None)
        BY <1>5, <2>2 DEF FailGet
      <3>2. QED
        BY <1>0, <2>1, <3>1, FitGo
    <2>3. CASE rec # None
      <3>1. PICK r \in {Delayed(rec), rec} : GoTo(t, "failSave", r)
        BY <1>5, <2>3 DEF FailGet
      <3>2. r.paused = rec.paused /\ r.runs = rec.runs
        BY <1>0, <2>3, Edits
      <3>3. Fits("failSave", r, rec)
        BY <2>3, <3>2 DEF Fits
      <3>4. QED
        BY <1>0, <2>1, <3>1, <3>3, FitOn
    <2>4. QED
      BY <2>2, <2>3
  <1>6. CASE JudgeGet(t)
    <2>1. MayEnter(t) /\ UNCHANGED rec
      BY <1>6 DEF JudgeGet
    <2> DEFINE c == IF rec = None THEN sa[t] ELSE rec
    <2>2. PICK r \in {Met(c), c, Delayed(c)} : GoTo(t, "judgeSave", r)
      BY <1>6 DEF JudgeGet
    <2>3. Fits("judgeSave", r, rec)
      <3>1. CASE rec = None
        BY <3>1 DEF Fits
      <3>2. CASE rec # None
        <4>1. r.runs = rec.runs /\ (r.paused = rec.paused \/ r.stop = "met")
          BY <1>0, <3>2, Edits
        <4>2. QED
          BY <3>2, <4>1 DEF Fits
      <3>3. QED
        BY <3>1, <3>2
    <2>4. QED
      BY <1>0, <2>1, <2>2, <2>3, FitOn
  <1>7. CASE Rearm(t)
    <2>1. MayEnter(t) /\ UNCHANGED rec
      BY <1>7 DEF Rearm
    <2>2. CASE Active
      <3>1. GoTo(t, "unsched", rec)
        BY <1>7, <2>2 DEF Rearm
      <3>2. Fits("unsched", rec, rec)
        BY <2>2 DEF Fits, Active
      <3>3. QED
        BY <1>0, <2>1, <3>1, <3>2, FitOn
    <2>3. CASE ~Active
      <3>1. GoTo(t, "idle", None)
        BY <1>7, <2>3 DEF Rearm
      <3>2. QED
        BY <1>0, <2>1, <3>1, FitGo
    <2>4. QED
      BY <2>2, <2>3
  <1>8. QED
    BY <1>1, <1>2, <1>3, <1>4, <1>5, <1>6, <1>7 DEF Handler

LEMMA OwnerFit ==
    ASSUME TypeInv, ExclInv, ChainInv, FitInv, Exclusive, "recreate" \notin Ops, NEW o \in Owner,
           Served(o) \/ \E k \in Ops : Request(o, k)
    PROVE  FitInv'
PROOF
  <1>0. /\ o \in Thread /\ (rec # None => rec \in Record)
        /\ "idle" \notin Window /\ "serve" \notin Window
        /\ pc[o] \in Window \ {"count"} => cur[o] \in Record /\ Fits(pc[o], cur[o], rec)
        /\ op[o] \in Ops \cup {"create"}
    BY Threads DEF Window, TypeInv, TypeOK, CopyInv, ChainInv, FitInv, Copy
  <1>1. CASE RunStandingNow(o) \/ \E k \in Ops : Request(o, k)
    <2>1. UNCHANGED rec /\ \E q \in {"idle", "serve"} : GoTo(o, q, None)
      BY <1>1 DEF Request, RunStandingNow
    <2>2. QED
      BY <1>0, <2>1, FitGo
  <1>2. CASE Serve(o)
    <2>1. MayEnter(o) /\ UNCHANGED rec
      BY <1>2 DEF Serve
    <2>2. ASSUME NEW q \in {"createSave", "pauseUnsched", "resumeSave", "editSave", "unsched",
                            "deleteUnsched", "parkUnsched"},
                 NEW r, GoTo(o, q, r), Fits(q, r, rec)
          PROVE  FitInv'
      <3>1. q \in Window \ {"count"}
        BY DEF Window
      <3>2. QED
        BY <1>0, <2>1, <2>2, <3>1, FitOn
    <2>3. CASE CreateGet(o)
      <3>1. GoTo(o, "createSave", Fresh) /\ rec = None
        BY <1>0, <2>3 DEF CreateGet
      <3>2. Fits("createSave", Fresh, rec)
        BY <3>1, Edits DEF Fits, Fresh, Asks
      <3>3. QED
        BY <2>2, <3>1, <3>2
    <2>4. CASE PauseGet(o)
      <3>1. GoTo(o, "pauseUnsched", Paused(rec)) /\ rec \in Record /\ rec # None
        BY <1>0, <2>4 DEF PauseGet
      <3>2. Fits("pauseUnsched", Paused(rec), rec)
        BY <3>1, Edits DEF Fits
      <3>3. QED
        BY <2>2, <3>1, <3>2
    <2>5. CASE ResumeGet(o)
      <3>1. rec \in Record /\ rec # None /\ rec.broken \in BOOLEAN
        BY <1>0, <2>5, RecordFields DEF ResumeGet
      <3>2. PICK broken \in {FALSE, rec.broken} : GoTo(o, "resumeSave", Resumed(rec, broken))
        BY <2>5 DEF ResumeGet
      <3>3. broken \in BOOLEAN
        BY <3>1
      <3>4. /\ Resumed(rec, broken).ask = rec.ask /\ ~Resumed(rec, broken).paused
            /\ Resumed(rec, broken).runs = IF rec.stop = "ended" THEN 0 ELSE rec.runs
        BY <3>1, <3>3, Edits
      <3>5. Fits("resumeSave", Resumed(rec, broken), rec)
        <4> HIDE DEF Resumed
        <4>1. QED
          BY <3>1, <3>4 DEF Fits
      <3>6. QED
        BY <2>2, <3>2, <3>5
    <2>6. CASE EditGet(o)
      <3>1. /\ Fits("editSave", rec, rec)
            /\ ~rec.paused => Fits("unsched", rec, rec)
        BY <2>6 DEF EditGet, Fits
      <3>2. \/ GoTo(o, "editSave", rec)
            \/ ~rec.paused /\ GoTo(o, "unsched", rec)
        BY <2>6 DEF EditGet
      <3>3. QED
        BY <2>2, <3>1, <3>2
    <2>7. CASE DeleteGet(o)
      <3>1. GoTo(o, "deleteUnsched", rec) /\ Fits("deleteUnsched", rec, rec)
        BY <2>7 DEF DeleteGet, Fits
      <3>2. QED
        BY <2>2, <3>1
    <2>8. CASE BreakGet(o)
      <3>1. GoTo(o, "parkUnsched", rec) /\ Fits("parkUnsched", rec, rec)
        BY <2>8 DEF BreakGet, Fits
      <3>2. QED
        BY <2>2, <3>1
    <2>9. CASE GoTo(o, "idle", None)
      BY <1>0, <2>1, <2>9, FitGo
    <2>10. QED
      BY <1>2, <2>3, <2>4, <2>5, <2>6, <2>7, <2>8, <2>9 DEF Serve
  <1>3. CASE PauseUnsched(o)
    <2>1. /\ pc[o] = "pauseUnsched" /\ pc[o] \in Window \ {"count"} /\ "pauseSave" \in Window \ {"count"}
          /\ GoTo(o, "pauseSave", IF cur[o].sid = None THEN cur[o] ELSE Released(cur[o])) /\ UNCHANGED rec
      BY <1>3 DEF PauseUnsched, Window
    <2>2. cur[o] \in Record /\ Fits("pauseUnsched", cur[o], rec)
      BY <1>0, <2>1
    <2>3. PICK r : /\ GoTo(o, "pauseSave", r)
                   /\ r.sid = None /\ r.ask = cur[o].ask /\ r.paused = cur[o].paused
                   /\ r.runs = cur[o].runs
      BY <2>1, <2>2, Edits, Sids
    <2>4. Fits("pauseSave", r, rec)
      BY <2>2, <2>3 DEF Fits
    <2>5. QED
      BY <1>0, <2>1, <2>3, <2>4, FitOn
  <1>4. CASE DeleteUnsched(o)
    <2>1. /\ pc[o] = "deleteUnsched" /\ pc[o] \in Window \ {"count"} /\ "unset" \in Window \ {"count"}
          /\ GoTo(o, "unset", cur[o]) /\ UNCHANGED rec
      BY <1>4 DEF DeleteUnsched, Window
    <2>2. Fits("unset", cur[o], rec)
      BY <1>0, <2>1 DEF Fits
    <2>3. QED
      BY <1>0, <2>1, <2>2, FitOn
  <1>5. CASE PauseSave(o) \/ EditSave(o)
    <2>1. pc[o] \in {"pauseSave", "editSave"} /\ GoTo(o, "idle", None)
      BY <1>5 DEF PauseSave, EditSave
    <2>2. Moved(o, "idle") /\ pc[o] \in Window
      BY <1>0, <2>1, GoToMoves DEF Window
    <2>3. QED
      BY <1>0, <2>2, FitWrite
  <1>6. CASE CreateSave(o) \/ ResumeSave(o)
    <2>1. /\ pc[o] \in {"createSave", "resumeSave"} /\ pc[o] \in Window \ {"count"}
          /\ rec' = cur[o] /\ GoTo(o, "unsched", cur[o])
      BY <1>6 DEF CreateSave, ResumeSave, Window
    <2>2. cur[o] \in Record /\ cur[o] # None /\ ~cur[o].paused
      BY <1>0, <2>1, NoneAssumption DEF Fits
    <2>3. /\ Moved(o, "unsched") /\ Copy(o)' = cur[o]
          /\ \A u \in Thread \ {o} : pc[u] \notin Window
      BY <1>0, <2>1, GoToMoves DEF Moved, Copy, ExclInv
    <2>4. Fits("unsched", Copy(o)', rec')
      BY <2>1, <2>2, <2>3 DEF Fits
    <2>5. QED
      BY <1>0, <2>3, <2>4, FitInside
  <1>7. CASE DeleteUnset(o)
    <2>1. pc[o] \in Window /\ Moved(o, "idle")
      BY <1>0, <1>7, GoToMoves DEF DeleteUnset, Window
    <2>2. QED
      BY <1>0, <2>1, FitWrite
  <1>8. QED
    BY <1>1, <1>2, <1>3, <1>4, <1>5, <1>6, <1>7 DEF Served

\* A time that is asked for comes nearer.
LEMMA AskAges ==
    ASSUME NEW x \in Rel(Far)
    PROVE  Asks(Older(x)) => Asks(x) /\ x \in Nat /\ Older(x) = x - 1
PROOF
  <1>1. Grace \in Nat /\ Far \in Nat
    BY Times, StandingAssumption
  <1>2. x # None => x \in (-(Grace + 1))..Far
    BY DEF Rel
  <1>3. QED
    BY <1>1, <1>2 DEF Asks, Older, Unless

LEMMA WorldFit ==
    ASSUME TypeInv, ExclInv, FitInv, Exclusive, ListTasks \/ Reconcile \/ Tick \/ Crash
    PROVE  FitInv'
PROOF
  <1>0. /\ "rearm" \in Thread /\ "idle" \notin Window /\ "read" \notin Window
        /\ Aged(None) = None /\ Older(None) = None
    BY Threads DEF Window, Aged, Older, Unless
  <1>1. CASE ListTasks
    <2>1. GoTo("rearm", "read", None) /\ UNCHANGED rec
      BY <1>1 DEF ListTasks
    <2>2. QED
      BY <1>0, <2>1, FitGo
  <1>2. CASE Reconcile
    <2>1. MayEnter("rearm") /\ UNCHANGED rec /\ "unsched" \in Window \ {"count"}
      BY <1>2 DEF Reconcile, Window
    <2>2. CASE Active /\ Stranded(rec)
      <3>1. GoTo("rearm", "unsched", rec)
        BY <1>2, <2>2 DEF Reconcile
      <3>2. Fits("unsched", rec, rec)
        BY <2>2 DEF Fits, Active
      <3>3. QED
        BY <1>0, <2>1, <3>1, <3>2, FitOn
    <2>3. CASE ~(Active /\ Stranded(rec))
      <3>1. GoTo("rearm", "idle", None)
        BY <1>2, <2>3 DEF Reconcile
      <3>2. QED
        BY <1>0, <2>1, <3>1, FitGo
    <2>4. QED
      BY <2>2, <2>3
  <1>3. CASE Tick
    <2>1. /\ rec' = Aged(rec) /\ UNCHANGED pc
          /\ \A p \in Thread : cur'[p] = Aged(cur[p])
          /\ \A t \in Task : sa'[t] = Aged(sa[t])
      BY <1>3 DEF Tick
    <2>2. ASSUME NEW p \in Thread, pc[p] \in Window PROVE Fits(pc[p], Copy(p), rec)'
      <3>1. Copy(p) \in Record /\ Copy(p)' = Aged(Copy(p)) /\ pc'[p] = pc[p]
        BY <2>1, <2>2 DEF Copy, TypeInv, CopyInv
      <3>2. PICK c : c = Copy(p)
        OBVIOUS
      <3>3. PICK d : d = Copy(p)'
        OBVIOUS
      <3>4. /\ d.paused = c.paused /\ d.sid = c.sid /\ d.runs = c.runs /\ d.stop = c.stop
            /\ d.ask = Older(c.ask) /\ (Asks(Older(c.ask)) => Asks(c.ask)) /\ (c.ask = None => d.ask = None)
            /\ Fits(pc[p], c, rec)
        BY <1>0, <2>2, <3>1, <3>2, <3>3, AgedKeeps, RecordFields, AskAges DEF FitInv
      <3>5. Fits(pc[p], d, rec')
        <4>1. CASE rec = None
          BY <1>0, <2>1, <3>4, <4>1 DEF Fits
        <4>2. CASE rec # None
          <5>1. rec \in Record
            BY <4>2 DEF TypeInv, TypeOK
          <5>2. /\ rec' # None /\ rec'.paused = rec.paused /\ rec'.runs = rec.runs
                /\ rec'.stop = rec.stop /\ rec'.ask = Older(rec.ask)
            BY <2>1, <5>1, AgedKeeps, RecordEdits, NoneAssumption
          <5>3. QED
            BY <3>4, <4>2, <5>2 DEF Fits
        <4>3. QED
          BY <4>1, <4>2
      <3>6. QED
        BY <3>1, <3>3, <3>5 DEF Fits
    <2>3. QED
      BY <2>1, <2>2 DEF FitInv
  <1>4. CASE Crash
    <2>1. (\A p \in Thread : pc'[p] = "idle") /\ UNCHANGED rec
      BY <1>4 DEF Crash
    <2>2. QED
      BY <1>0, <2>1 DEF FitInv
  <1>5. QED
    BY <1>1, <1>2, <1>3, <1>4

\* A fire of the schedule is under way; one that is past its count, or stops, has
\* still to replace what is queued.  Early is where a run has yet to be judged.
Busy(t) == pc[t] # "idle" /\ trig[t] = "schedule"
Early   == {"get", "count", "run", "failGet", "failSave", "judgeGet", "judgeSave"}
Late    == {"run", "failGet", "failSave", "judgeGet", "judgeSave", "parkGet", "parkUnsched",
            "parkSave", "rearm", "unsched"}
Past    == \E t \in Task : Busy(t) /\ pc[t] \in Late

\* Somebody is about to replace what is queued, or to find the limit reached.
Arms(p) == pc[p] \in {"unsched", "arm"} \/ (pc[p] = "save" /\ cur[p].paused)
Arming  == \E p \in Thread : Arms(p)

\* The record holds a time an attempt asked for.
Pending == rec # None /\ Asks(rec.ask)

\* One fire at a time, and what is queued meanwhile is due after its longest.  A
\* run the owner asked for is neither judged nor re-armed.
TimeInv ==
    /\ \A t, u \in Task : Busy(t) /\ Busy(u) => t = u
    /\ \A t, u \in Task : Busy(t) /\ Scheduled(u) => tasks[u].at + ran[t] > RunTime
    /\ \A t \in Task :
          /\ trig[t] = "manual" => pc[t] \in {"idle", "get", "run"}
          /\ pc[t] \in {"failGet", "failSave", "judgeGet", "judgeSave"} => Fallible \/ Objective
          /\ Fallible \/ Objective => /\ trig[t] = "schedule"
                                      /\ tasks[t] # None => tasks[t].trig = "schedule"

\* A handler's copies: only a judged attempt has asked for a time, one its own
\* fire will have ended by, and it pauses nothing.
AskCopies(t) ==
    /\ pc[t] \in {"failSave", "judgeSave"} /\ Asks(cur[t].ask) =>
          /\ cur[t].ask + ran[t] > RunTime
          /\ rec # None => cur[t].paused = rec.paused
    /\ Busy(t) /\ pc[t] \in {"count", "run", "judgeGet"} => ~Asks(sa[t].ask)

\* A time that is asked for is after the fire under way, which has been judged;
\* what is queued is due no sooner, unless that fire will replace it.  A schedule
\* that is paused with a task queued has met its goal in the fire before.
AskInv ==
    /\ \A t \in Task : Busy(t) /\ Pending => rec.ask + ran[t] > RunTime /\ pc[t] \notin Early
    /\ \A u \in Task : Scheduled(u) /\ Pending => Past \/ rec.ask <= tasks[u].at
    /\ \A t \in Task : AskCopies(t)
    /\ Chains # {} => /\ rec # None
                      /\ rec.paused => ~Pending /\ \A t \in Task : Busy(t) => pc[t] = "rearm"

\* The count a judged run may write back is no lower than what has started.
RunCopies(t) == MaxRuns > 0 =>
    /\ Busy(t) /\ pc[t] \in {"run", "judgeGet"} => started <= sa[t].runs
    /\ pc[t] = "judgeSave" => started <= cur[t].runs

\* A fire that is due to count, and one that is queued, is within the limit, or
\* somebody has still to replace it.
LimitInv ==
    /\ MaxRuns > 0 =>
          /\ started <= MaxRuns /\ (rec # None => started <= rec.runs)
          /\ \A t \in Task : Busy(t) /\ pc[t] \in {"get", "count"} /\ Active =>
                                rec.runs < MaxRuns \/ Arming
          /\ Chains # {} /\ Active => rec.runs < MaxRuns \/ Past \/ Arming
    /\ \A t \in Task : RunCopies(t)

FireInv == TimeInv /\ AskInv /\ LimitInv

\* The setting in which a schedule's runs are counted and kept apart: no run is
\* longer than the gaps, nor, where attempts ask for a time of their own, than
\* the time they ask for; and then the owner makes no runs beside the chain.
Steady == /\ Exclusive /\ MaxCrash = 0 /\ "recreate" \notin Ops
          /\ \A g \in Gap : RunTime < g
          /\ Fallible \/ Objective => RunTime < Backoff /\ "runnow" \notin Ops

LEMMA ChainFacts ==
    ASSUME TypeInv, ChainInv, MaxCrash = 0
    PROVE  /\ \A p \in Thread : pc[p] \in Window => Chains \subseteq {Held(p)}
           /\ \E x : Chains \subseteq {x}
           /\ None \notin Chains /\ Chains \subseteq Task
PROOF
  <1>1. crashes = 0 /\ None \notin Chains /\ Chains \subseteq Task
    BY StandingAssumption DEF TypeInv, TypeOK, Chains
  <1>2. ASSUME NEW S, Few(S, 0) PROVE S = {}
    BY <1>2, FS_EmptySet, FS_CardinalityType DEF Few
  <1>3. ASSUME NEW p \in Thread, pc[p] \in Window
        PROVE  Chains \subseteq {Held(p)}
    <2>1. Chains \ {Held(p)} = {}
      BY <1>1, <1>2, <1>3 DEF ChainInv
    <2>2. QED
      BY <2>1
  <1>4. ASSUME AtRest PROVE Chains \subseteq {Named(rec)}
    <2>1. Chains \ {Named(rec)} = {}
      BY <1>1, <1>2, <1>4 DEF ChainInv
    <2>2. QED
      BY <2>1
  <1>5. QED
    BY <1>1, <1>3, <1>4 DEF AtRest

\* A step of p that starts no fire and queues none.
Thinned == \A u \in Task : tasks'[u] # None =>
    tasks'[u] = tasks[u] \/ (tasks'[u].trig = "manual" /\ ~Fallible /\ ~Objective)
Quiet(p, q) ==
    /\ Moved(p, q) /\ UNCHANGED <<trig, ran>> /\ Thinned
    /\ \A u \in Thread \ {p} : cur'[u] = cur[u] /\ (u \in Task => sa'[u] = sa[u])

\* What the handler p does with its fire by moving to q ...
Onward(p, q) ==
    /\ pc[p] # "idle" /\ q # "get"
    /\ trig[p] = "manual" => q \in {"idle", "run"}
    /\ q \in {"failGet", "failSave", "judgeGet", "judgeSave"} => Fallible \/ Objective
    /\ q = "count" => pc[p] = "get"
    /\ q \in Early => pc[p] \in Early
    /\ Busy(p) /\ pc[p] \in Late /\ q \notin Late => Chains' = {} \/ ~Active'
    /\ AskCopies(p)' /\ RunCopies(p)'

\* ... and p with the record: a time it writes was asked for before or by this
\* fire, what it pauses has nothing queued or has met its goal, what is active is
\* counted as before, or is about to be armed.
Settles(p, q) == p \in Task /\ Busy(p) /\ q \in Late
Writes(p, q) ==
    /\ rec' = rec \/ pc[p] \in Window
    /\ Pending' => \/ Pending /\ rec'.ask = rec.ask
                   \/ Settles(p, q) /\ q \notin Early /\ rec'.ask + ran[p] > RunTime
    /\ Chains' # {} =>
          /\ rec' # None
          /\ rec'.paused =>
                \/ rec # None /\ rec.paused /\ (p \in Task /\ pc[p] = "rearm" => q = "idle")
                \/ Settles(p, q) /\ q = "rearm" /\ ~Pending'
    /\ MaxRuns > 0 /\ rec' # None => started' <= rec'.runs
    /\ Active' => \/ Arms(p)'
                  \/ Active /\ rec'.runs = rec.runs /\ ~Arms(p)
                  \/ Settles(p, q)

LEMMA QuietFacts ==
    ASSUME TypeInv, NEW p \in Thread, NEW q, Quiet(p, q)
    PROVE  /\ \A u \in Task : Scheduled(u)' => Scheduled(u) /\ tasks'[u] = tasks[u]
           /\ Chains' \subseteq Chains
           /\ \A t \in Task \ {p} : pc'[t] = pc[t] /\ (Busy(t)' <=> Busy(t))
           /\ pc'[p] = q
           /\ p \in Task /\ pc[p] # "idle" => (Busy(p)' => Busy(p))
           /\ p \in Task /\ Busy(p) /\ q # "idle" => Busy(p)'
PROOF
  <1>1. Task \subseteq Thread
    BY Threads
  <1>2. \A u \in Task : Scheduled(u)' => Scheduled(u) /\ tasks'[u] = tasks[u]
    BY DEF Quiet, Thinned, Scheduled
  <1>3. Chains' \subseteq Chains
    BY <1>2 DEF Chains
  <1>4. QED
    BY <1>1, <1>2, <1>3 DEF Quiet, Moved, Busy

LEMMA QuietGo ==
    ASSUME TypeInv, NEW p \in Thread, NEW q, NEW r, GoTo(p, q, r), UNCHANGED <<trig, ran>>, Thinned
    PROVE  Quiet(p, q)
  BY GoToMoves DEF Quiet

LEMMA TimeKept ==
    ASSUME TypeInv, TimeInv, NEW p \in Thread, NEW q, Quiet(p, q), p \in Task => Onward(p, q)
    PROVE  TimeInv'
PROOF
  <1>1. /\ \A u \in Task : Scheduled(u)' => Scheduled(u) /\ tasks'[u] = tasks[u]
        /\ \A t \in Task : Busy(t)' => Busy(t)
    BY QuietFacts DEF Onward
  <1>2. \A t, u \in Task : Busy(t)' /\ Scheduled(u)' => tasks'[u].at + ran'[t] > RunTime
    BY <1>1 DEF TimeInv, Quiet
  <1>3. ASSUME NEW t \in Task
        PROVE  /\ trig'[t] = "manual" => pc'[t] \in {"idle", "get", "run"}
               /\ pc'[t] \in {"failGet", "failSave", "judgeGet", "judgeSave"} => Fallible \/ Objective
    <2>1. CASE t = p
      BY <2>1, QuietFacts DEF Onward, Quiet
    <2>2. CASE t # p
      BY <2>2, QuietFacts DEF TimeInv, Quiet
    <2>3. QED
      BY <2>1, <2>2
  <1>4. ASSUME NEW t \in Task, Fallible \/ Objective
        PROVE  trig'[t] = "schedule" /\ (tasks'[t] # None => tasks'[t].trig = "schedule")
    BY <1>4 DEF TimeInv, Quiet, Thinned
  <1>5. QED
    BY <1>1, <1>2, <1>3, <1>4 DEF TimeInv

LEMMA AskKept ==
    ASSUME TypeInv, ExclInv, TimeInv, AskInv, NEW p \in Thread, NEW q, Quiet(p, q),
           p \in Task => Onward(p, q), Writes(p, q)
    PROVE  AskInv'
PROOF
  <1>1. /\ \A u \in Task : Scheduled(u)' => Scheduled(u) /\ tasks'[u] = tasks[u]
        /\ Chains' \subseteq Chains
        /\ \A t \in Task : Busy(t)' => Busy(t)
        /\ \A t \in Task \ {p} : pc'[t] = pc[t] /\ (Busy(t)' <=> Busy(t))
        /\ pc'[p] = q /\ UNCHANGED ran /\ Task \subseteq Thread
    BY QuietFacts, Threads DEF Onward, Quiet
  <1>2. ASSUME NEW t \in Task, Busy(t)', Pending'
        PROVE  rec'.ask + ran'[t] > RunTime /\ pc'[t] \notin Early
    <2>1. Busy(t)
      BY <1>1, <1>2
    <2>2. CASE Pending /\ rec'.ask = rec.ask
      <3>1. rec.ask + ran[t] > RunTime /\ pc[t] \notin Early
        BY <2>1, <2>2 DEF AskInv
      <3>2. pc'[t] \notin Early
        BY <1>1, <3>1 DEF Onward
      <3>3. QED
        BY <1>1, <2>2, <3>1, <3>2
    <2>3. CASE Settles(p, q) /\ q \notin Early /\ rec'.ask + ran[p] > RunTime
      <3>1. t = p
        BY <2>1, <2>3 DEF Settles, TimeInv
      <3>2. QED
        BY <1>1, <2>3, <3>1
    <2>4. QED
      BY <1>2, <2>2, <2>3 DEF Writes
  <1>3. ASSUME Chains' # {}
        PROVE  rec' # None /\ (rec'.paused => ~Pending' /\ \A t \in Task : Busy(t)' => pc'[t] = "rearm")
    <2>1. rec' # None /\ rec # None /\ Chains # {}
      BY <1>1, <1>3 DEF Writes, AskInv
    <2>2. ASSUME rec'.paused, rec.paused, p \in Task /\ pc[p] = "rearm" => q = "idle"
          PROVE  ~Pending' /\ \A t \in Task : Busy(t)' => pc'[t] = "rearm"
      <3>1. ~Pending /\ \A t \in Task : Busy(t) => pc[t] = "rearm"
        BY <2>1, <2>2 DEF AskInv
      <3>2. ~Settles(p, q)
        BY <1>1, <2>2, <3>1 DEF Settles, Late
      <3>3. ASSUME NEW t \in Task, Busy(t)' PROVE pc'[t] = "rearm"
        <4>1. t # p
          BY <1>1, <2>2, <3>1, <3>3 DEF Busy
        <4>2. QED
          BY <1>1, <3>1, <3>3, <4>1
      <3>4. QED
        BY <3>1, <3>2, <3>3 DEF Writes
    <2>3. ASSUME rec'.paused, Settles(p, q), q = "rearm", ~Pending'
          PROVE  ~Pending' /\ \A t \in Task : Busy(t)' => pc'[t] = "rearm"
      <3>1. ASSUME NEW t \in Task, Busy(t)' PROVE t = p
        BY <1>1, <2>3, <3>1 DEF Settles, TimeInv
      <3>2. QED
        BY <1>1, <2>3, <3>1
    <2>4. QED
      BY <1>3, <2>1, <2>2, <2>3 DEF Writes
  <1>4. ASSUME NEW u \in Task, Scheduled(u)', Pending'
        PROVE  Past' \/ rec'.ask <= tasks'[u].at
    <2>0. /\ Scheduled(u) /\ tasks'[u] = tasks[u] /\ u \in Chains'
      BY <1>1, <1>4 DEF Chains
    <2>1. CASE Settles(p, q)
      BY <1>1, <2>1 DEF Settles, Past, Busy, Late, Quiet
    <2>2. CASE Pending /\ rec'.ask = rec.ask /\ ~Settles(p, q)
      <3>1. Past \/ rec.ask <= tasks[u].at
        BY <2>0, <2>2 DEF AskInv
      <3>2. ASSUME NEW t \in Task, Busy(t), pc[t] \in Late PROVE Past'
        <4>1. CASE t # p
          BY <1>1, <3>2, <4>1 DEF Past
        <4>2. CASE t = p
          <5>1. q \notin Late
            BY <2>2, <3>2, <4>2 DEF Settles
          <5>2. ~Active'
            BY <2>0, <3>2, <4>2, <5>1 DEF Onward
          <5>3. QED
            BY <1>3, <1>4, <2>0, <5>2 DEF Active
        <4>3. QED
          BY <4>1, <4>2
      <3>3. QED
        BY <2>0, <2>2, <3>1, <3>2 DEF Past
    <2>3. QED
      BY <1>4, <2>1, <2>2 DEF Writes
  <1>5. ASSUME NEW t \in Task PROVE AskCopies(t)'
    <2>1. CASE t = p
      BY <2>1 DEF Onward
    <2>2. CASE t # p
      <3>1. cur'[t] = cur[t] /\ sa'[t] = sa[t] /\ AskCopies(t) /\ t \in Thread /\ pc'[t] = pc[t]
        BY <1>1, <2>2 DEF Quiet, AskInv
      <3>2. pc[t] \in {"failSave", "judgeSave"} => rec' = rec
        BY <2>2, <3>1 DEF Writes, ExclInv, Window
      <3>3. QED
        BY <1>1, <3>1, <3>2, <2>2 DEF AskCopies
    <2>3. QED
      BY <2>1, <2>2
  <1>6. QED
    BY <1>2, <1>3, <1>4, <1>5 DEF AskInv

LEMMA LimitKept ==
    ASSUME TypeInv, TimeInv, LimitInv, NEW p \in Thread, NEW q, Quiet(p, q),
           p \in Task => Onward(p, q), Writes(p, q),
           started' \in {0, started} \/ (p \in Task /\ Busy(p)),
           MaxRuns > 0 => started' <= MaxRuns
    PROVE  LimitInv'
PROOF
  <1>1. /\ Chains' \subseteq Chains
        /\ \A t \in Task : Busy(t)' => Busy(t)
        /\ \A t \in Task \ {p} : pc'[t] = pc[t] /\ (Busy(t)' <=> Busy(t))
        /\ pc'[p] = q /\ Task \subseteq Thread
    BY QuietFacts, Threads DEF Onward
  <1>2. ASSUME NEW t \in Task PROVE RunCopies(t)'
    <2>1. CASE t = p
      BY <2>1 DEF Onward
    <2>2. CASE t # p
      <3>1. cur'[t] = cur[t] /\ sa'[t] = sa[t] /\ RunCopies(t) /\ t \in Thread /\ pc'[t] = pc[t]
        BY <1>1, <2>2 DEF Quiet, LimitInv
      <3>2. CASE started' = started
        BY <1>1, <2>2, <3>1, <3>2 DEF RunCopies
      <3>3. CASE started' = 0
        <4>1. /\ pc[t] \in {"run", "judgeGet"} => sa[t] \in Record
              /\ pc[t] = "judgeSave" => cur[t] \in Record
          BY <3>1 DEF TypeInv, CopyInv, Window
        <4>2. RunCap \in Nat
          BY StandingAssumption
        <4>3. /\ pc[t] \in {"run", "judgeGet"} => 0 <= sa[t].runs
              /\ pc[t] = "judgeSave" => 0 <= cur[t].runs
          BY <4>1, <4>2, RecordFields
        <4>4. QED
          BY <3>1, <3>3, <4>3 DEF RunCopies
      <3>4. CASE p \in Task /\ Busy(p)
        <4>1. ~Busy(t)
          BY <2>2, <3>4 DEF TimeInv
        <4>2. trig[t] = "manual" \/ trig[t] = "schedule"
          BY DEF TypeInv, TypeOK
        <4>3. pc[t] # "judgeSave"
          BY <4>1, <4>2 DEF Busy, TimeInv
        <4>4. QED
          BY <1>1, <2>2, <3>1, <4>1, <4>3 DEF RunCopies
      <3>5. QED
        BY <3>2, <3>3, <3>4
    <2>3. QED
      BY <2>1, <2>2
  <1> SUFFICES ASSUME MaxRuns > 0
               PROVE  /\ started' <= MaxRuns /\ (rec' # None => started' <= rec'.runs)
                      /\ \A t \in Task : Busy(t)' /\ pc'[t] \in {"get", "count"} /\ Active' =>
                                            rec'.runs < MaxRuns \/ Arming'
                      /\ Chains' # {} /\ Active' => rec'.runs < MaxRuns \/ Past' \/ Arming'
    BY <1>2 DEF LimitInv
  <1>3. started' <= MaxRuns /\ (rec' # None => started' <= rec'.runs)
    BY DEF Writes
  <1>4. ASSUME Active, ~Arms(p), Arming PROVE Arming'
    <2>1. PICK u \in Thread : Arms(u)
      BY <1>4 DEF Arming
    <2>2. u # p /\ pc'[u] = pc[u] /\ cur'[u] = cur[u]
      BY <1>4, <2>1 DEF Quiet, Moved
    <2>3. QED
      BY <2>1, <2>2 DEF Arms, Arming
  <1>5. ASSUME NEW t \in Task, Busy(t)', pc'[t] \in {"get", "count"}, Active'
        PROVE  rec'.runs < MaxRuns \/ Arming'
    <2>1. CASE Arms(p)'
      BY <2>1 DEF Arming
    <2>2. CASE Active /\ rec'.runs = rec.runs /\ ~Arms(p)
      <3>1. Busy(t) /\ pc[t] \in {"get", "count"}
        BY <1>1, <1>5 DEF Onward
      <3>2. rec.runs < MaxRuns \/ Arming
        BY <2>2, <3>1 DEF LimitInv
      <3>3. QED
        BY <1>4, <2>2, <3>2
    <2>3. CASE Settles(p, q)
      <3>1. t = p
        BY <1>1, <1>5, <2>3 DEF Settles, TimeInv
      <3>2. QED
        BY <1>1, <1>5, <2>3, <3>1 DEF Settles, Late
    <2>4. QED
      BY <1>5, <2>1, <2>2, <2>3 DEF Writes
  <1>6. ASSUME Chains' # {}, Active'
        PROVE  rec'.runs < MaxRuns \/ Past' \/ Arming'
    <2>1. CASE Arms(p)'
      BY <2>1 DEF Arming
    <2>2. CASE Settles(p, q)
      BY <1>1, <2>2 DEF Settles, Past, Busy, Late, Quiet
    <2>3. CASE Active /\ rec'.runs = rec.runs /\ ~Arms(p) /\ ~Settles(p, q)
      <3>1. rec.runs < MaxRuns \/ Past \/ Arming
        BY <1>1, <1>6, <2>3 DEF LimitInv
      <3>2. ASSUME NEW t \in Task, Busy(t), pc[t] \in Late PROVE Past'
        <4>1. CASE t # p
          BY <1>1, <3>2, <4>1 DEF Past
        <4>2. CASE t = p
          BY <1>6, <2>3, <3>2, <4>2 DEF Settles, Onward
        <4>3. QED
          BY <4>1, <4>2
      <3>3. QED
        BY <1>4, <2>3, <3>1, <3>2 DEF Past
    <2>4. QED
      BY <1>6, <2>1, <2>2, <2>3 DEF Writes
  <1>7. QED
    BY <1>3, <1>5, <1>6

LEMMA FireKept ==
    ASSUME TypeInv, ExclInv, FireInv, NEW p \in Thread, NEW q, Quiet(p, q),
           p \in Task => Onward(p, q), Writes(p, q),
           started' \in {0, started} \/ (p \in Task /\ Busy(p)),
           MaxRuns > 0 => started' <= MaxRuns
    PROVE  FireInv'
  BY TimeKept, AskKept, LimitKept DEF FireInv

\* A step that leaves the record.
LEMMA FireAside ==
    ASSUME TypeInv, ExclInv, FireInv, NEW p \in Thread, NEW q, Quiet(p, q), UNCHANGED <<rec, started>>,
           p \in Task => Onward(p, q),
           Arms(p) => Arms(p)',
           p \in Task /\ pc[p] = "rearm" => q = "idle" \/ Active
    PROVE  FireInv'
PROOF
  <1>1. Chains' \subseteq Chains
    BY QuietFacts
  <1>2. (Pending' <=> Pending) /\ (Active' <=> Active)
    BY DEF Pending, Active
  <1>3. Chains' # {} =>
           /\ rec' # None
           /\ rec'.paused => rec # None /\ rec.paused /\ (p \in Task /\ pc[p] = "rearm" => q = "idle")
    BY <1>1 DEF FireInv, AskInv, Active
  <1>4. Writes(p, q)
    BY <1>2, <1>3 DEF Writes, FireInv, LimitInv
  <1>5. MaxRuns > 0 => started' <= MaxRuns
    BY DEF FireInv, LimitInv
  <1>6. QED
    BY <1>4, <1>5, FireKept

\* A stop, an edit or an arming writes its copy back.
LEMMA FireCopy ==
    ASSUME TypeInv, ExclInv, ChainInv, FitInv, FireInv, Steady, NEW p \in Thread, NEW q, Quiet(p, q),
           UNCHANGED <<tasks, started>>,
           pc[p] \in {"save", "parkSave", "pauseSave", "editSave"}, rec' = cur[p],
           p \in Task => Onward(p, q)
    PROVE  FireInv'
PROOF
  <1>1. /\ pc[p] \in Window /\ cur[p] \in Record /\ Fits(pc[p], cur[p], rec)
        /\ pc[p] \notin {"createSave", "judgeSave", "failSave", "resumeSave", "count",
                         "arm", "unset", "unsched", "rearm"}
    BY DEF Window, TypeInv, CopyInv, FitInv, Copy
  <1>2. rec # None /\ rec' # None /\ rec'.runs = rec.runs /\ (Asks(rec'.ask) => rec'.ask = rec.ask)
    BY <1>1, NoneAssumption DEF Fits
  <1>3. Chains' \subseteq Chains /\ Chains \subseteq {cur[p].sid} /\ None \notin Chains
    BY <1>1, QuietFacts, ChainFacts DEF Held, Steady
  <1>4. /\ rec'.paused => rec.paused \/ cur[p].sid = None
        /\ ~rec'.paused => ~rec.paused /\ ~Arms(p)
    BY <1>1 DEF Fits, Arms
  <1>5. Pending' => Pending /\ rec'.ask = rec.ask
    BY <1>2 DEF Pending
  <1>6. MaxRuns > 0 => started' <= MaxRuns /\ started' <= rec'.runs
    BY <1>2 DEF FireInv, LimitInv
  <1>7. Writes(p, q)
    BY <1>1, <1>2, <1>3, <1>4, <1>5, <1>6 DEF Writes, Active
  <1>8. QED
    BY <1>6, <1>7, FireKept

\* Cancelling thins the queue.
LEMMA CancelThins ==
    ASSUME TypeInv, NEW r \in Record, tasks' = Unscheduled(r)
    PROVE  Thinned /\ (Chains \subseteq {r.sid} => Chains' = {})
PROOF
  <1>1. \A u \in Task : tasks'[u] = IF u = r.sid THEN None ELSE tasks[u]
    BY RowFacts DEF TypeInv
  <1>2. QED
    BY <1>1 DEF Thinned, Scheduled, Chains

\* The next occurrence is queued: nothing else is, it is after the fire under way
\* and no sooner than what an attempt asked for.
LEMMA ArmFire ==
    ASSUME TypeInv, ExclInv, ChainInv, FitInv, FireInv, Steady, NEW p \in Thread, Arm(p)
    PROVE  FireInv'
PROOF
  <1>0. /\ pc[p] = "arm" /\ pc[p] \in Window /\ UNCHANGED <<rec, trig, ran, started>>
        /\ cur[p] \in Record /\ Fits("arm", cur[p], rec)
        /\ p \in Task => trig[p] # "manual"
    BY DEF Arm, Window, TypeInv, CopyInv, FitInv, Copy, FireInv, TimeInv
  <1>1. Chains = {} /\ Chains \subseteq Task /\ Task \subseteq Thread
    BY <1>0, ChainFacts, Threads DEF Steady, Held
  <1>2. CASE GoTo(p, "save", Ended(cur[p])) /\ UNCHANGED tasks
    <2>1. Quiet(p, "save") /\ Chains' = {}
      BY <1>0, <1>1, <1>2, QuietGo DEF Thinned, Chains, Scheduled
    <2>2. pc'[p] = "save" /\ cur'[p] = Ended(cur[p]) /\ Ended(cur[p]).paused
      BY <1>0, <1>2, GoToMoves, Edits DEF Moved
    <2>3. Arms(p)'
      BY <2>2 DEF Arms
    <2>4. p \in Task => Onward(p, "save")
      BY <1>0, <2>1, <2>2 DEF Onward, Early, Late, AskCopies, RunCopies
    <2>5. QED
      BY <1>0, <2>1, <2>3, <2>4, FireAside
  <1>3. ASSUME NEW gap \in Gap, Unused # {}, ~(MaxRuns > 0 /\ cur[p].runs >= MaxRuns),
               tasks' = Queued(NewId, NextRun(cur[p], gap), "schedule"),
               GoTo(p, "save", Armed(cur[p], NewId, NextRun(cur[p], gap)))
        PROVE  FireInv'
    <2> DEFINE n == NextRun(cur[p], gap)
    <2>1. /\ NewId \in Task /\ n \in 0..Far /\ RunTime < gap
          /\ gap \in Nat /\ RunTime \in Nat /\ Far \in Nat
      BY <1>0, <1>3, NewIdFacts, NextRunIs, Times, StandingAssumption DEF Steady
    <2>2. IF Pending THEN n = rec.ask ELSE n = gap
      BY <1>0 DEF NextRun, Fits, Pending, Asks
    <2> HIDE DEF n
    <2>3. /\ tasks'[NewId].at = n /\ tasks'[NewId].trig = "schedule"
          /\ \A u \in Task : Scheduled(u)' => u = NewId
          /\ \A u \in Task \ {NewId} : tasks'[u] = tasks[u]
      <3>1. tasks' = Queued(NewId, n, "schedule")
        BY <1>3 DEF n
      <3>2. /\ tasks'[NewId].at = n /\ tasks'[NewId].trig = "schedule"
            /\ \A u \in Task \ {NewId} : tasks'[u] = tasks[u]
        BY <2>1, <3>1, QueuedFacts DEF TypeInv
      <3>3. QED
        BY <1>1, <3>2 DEF Chains, Scheduled
    <2>4. /\ Moved(p, "save")
          /\ \A u \in Thread \ {p} : cur'[u] = cur[u] /\ (u \in Task => sa'[u] = sa[u])
      BY <1>3, GoToMoves
    <2>5. \A t \in Task : /\ Busy(t)' <=> Busy(t)
                          /\ t # p => pc'[t] = pc[t]
                          /\ ran[t] \in 0..RunTime
      BY <1>0, <1>1, <2>4 DEF Busy, Moved, TypeInv, TypeOK
    <2>6. \A t \in Task : Busy(t) => n + ran[t] > RunTime
      BY <2>1, <2>2, <2>5 DEF FireInv, AskInv
    <2>7. pc'[p] = "save"
      BY <2>4 DEF Moved
    <2>8. TimeInv'
      <3>1. \A t, u \in Task : Busy(t)' /\ Scheduled(u)' => tasks'[u].at + ran'[t] > RunTime
        BY <1>0, <2>3, <2>5, <2>6
      <3>2. \A t \in Task :
               /\ trig'[t] = "manual" => pc'[t] \in {"idle", "get", "run"}
               /\ pc'[t] \in {"failGet", "failSave", "judgeGet", "judgeSave"} => Fallible \/ Objective
        BY <1>0, <2>5, <2>7 DEF FireInv, TimeInv
      <3>3. \A t \in Task : Fallible \/ Objective => /\ trig'[t] = "schedule"
                                                     /\ tasks'[t] # None => tasks'[t].trig = "schedule"
        BY <1>0, <2>3 DEF FireInv, TimeInv
      <3>4. \A t, u \in Task : Busy(t)' /\ Busy(u)' => t = u
        BY <2>5 DEF FireInv, TimeInv
      <3>5. QED
        BY <3>1, <3>2, <3>3, <3>4 DEF TimeInv
    <2>9. AskInv'
      <3>1. (Pending' <=> Pending) /\ rec' = rec /\ rec # None /\ ~rec.paused
        BY <1>0 DEF Pending, Fits
      <3>2. \A t \in Task : Busy(t)' /\ Pending' => rec'.ask + ran'[t] > RunTime /\ pc'[t] \notin Early
        BY <1>0, <2>5, <2>7, <3>1 DEF FireInv, AskInv, Early
      <3>3. \A u \in Task : Scheduled(u)' /\ Pending' => rec'.ask <= tasks'[u].at
        BY <2>1, <2>2, <2>3, <3>1
      <3>4. ASSUME NEW t \in Task PROVE AskCopies(t)'
        <4>1. CASE t = p
          BY <2>7, <4>1 DEF AskCopies
        <4>2. CASE t # p
          BY <1>0, <1>1, <2>4, <2>5, <4>2 DEF AskCopies, FireInv, AskInv
        <4>3. QED
          BY <4>1, <4>2
      <3>5. QED
        BY <3>1, <3>2, <3>3, <3>4 DEF AskInv
    <2>10. LimitInv'
      <3>1. MaxRuns > 0 => rec'.runs < MaxRuns
        <4>1. cur[p].runs = rec.runs
          BY <1>0 DEF Fits
        <4>2. cur[p].runs \in 0..RunCap /\ MaxRuns \in Nat /\ RunCap \in Nat
          BY <1>0, RecordFields, StandingAssumption
        <4>3. QED
          BY <1>0, <1>3, <4>1, <4>2
      <3>2. MaxRuns > 0 => started' <= MaxRuns /\ (rec' # None => started' <= rec'.runs)
        BY <1>0 DEF FireInv, LimitInv
      <3>3. ASSUME NEW t \in Task PROVE RunCopies(t)'
        <4>1. CASE t = p
          BY <2>7, <4>1 DEF RunCopies
        <4>2. CASE t # p
          BY <1>0, <1>1, <2>4, <2>5, <4>2 DEF RunCopies, FireInv, LimitInv
        <4>3. QED
          BY <4>1, <4>2
      <3>4. QED
        BY <3>1, <3>2, <3>3 DEF LimitInv
    <2>11. QED
      BY <2>8, <2>9, <2>10 DEF FireInv
  <1>4. QED
    BY <1>2, <1>3 DEF Arm

LEMMA SharedFire ==
    ASSUME TypeInv, ExclInv, ChainInv, FitInv, FireInv, Steady, NEW p \in Thread, Shared(p)
    PROVE  FireInv'
PROOF
  <1>0. /\ pc[p] \in Window \ {"count"} => cur[p] \in Record
        /\ p \in Task /\ pc[p] \notin {"idle", "get", "run"} =>
              trig[p] # "manual" /\ Deferred(p) = "rearm"
    BY DEF TypeInv, TypeOK, CopyInv, FireInv, TimeInv, Deferred
  <1>1. CASE Unsched(p)
    <2>1. /\ pc[p] = "unsched" /\ pc[p] \in Window \ {"count"} /\ GoTo(p, "arm", cur[p])
          /\ tasks' = Unscheduled(cur[p]) /\ UNCHANGED <<rec, trig, ran, started>>
      BY <1>1 DEF Unsched, Window
    <2>2. Chains \subseteq {cur[p].sid}
      BY <2>1, ChainFacts DEF Held, Steady
    <2>3. Thinned /\ Chains' = {}
      BY <1>0, <2>1, <2>2, CancelThins
    <2>4. Quiet(p, "arm") /\ pc'[p] = "arm"
      BY <2>1, <2>3, QuietGo DEF Quiet, Moved
    <2>5. p \in Task => Onward(p, "arm")
      BY <1>0, <2>1, <2>3, <2>4 DEF Onward, Early, Late, AskCopies, RunCopies
    <2>6. QED
      BY <2>1, <2>4, <2>5, FireAside DEF Arms
  <1>2. CASE Save(p) \/ ParkSave(p)
    <2>1. PICK q \in {"idle", "rearm"} :
             /\ pc[p] \in {"save", "parkSave"} /\ GoTo(p, q, None)
             /\ rec' = cur[p] /\ UNCHANGED <<tasks, trig, ran, started>>
             /\ p \in Task => q = "rearm" \/ pc[p] = "save"
      BY <1>0, <1>2 DEF Save, ParkSave
    <2>2. Quiet(p, q) /\ pc'[p] = q
      BY <2>1, QuietGo DEF Quiet, Moved, Thinned
    <2>3. p \in Task => Onward(p, q)
      BY <1>0, <2>1, <2>2 DEF Onward, Early, Late, AskCopies, RunCopies
    <2>4. QED
      BY <2>1, <2>2, <2>3, FireCopy
  <1>3. CASE ParkGet(p)
    <2>1. PICK q \in {"idle", "rearm", "parkUnsched"} :
             /\ pc[p] = "parkGet" /\ (\E r : GoTo(p, q, r))
             /\ UNCHANGED <<rec, tasks, trig, ran, started>>
             /\ p \in Task => q # "idle"
      BY <1>0, <1>3 DEF ParkGet
    <2>2. Quiet(p, q) /\ pc'[p] = q
      BY <2>1, QuietGo DEF Quiet, Moved, Thinned
    <2>3. p \in Task => Onward(p, q)
      BY <1>0, <2>1, <2>2 DEF Onward, Early, Late, AskCopies, RunCopies
    <2>4. QED
      BY <2>1, <2>2, <2>3, FireAside DEF Arms
  <1>4. CASE ParkUnsched(p)
    <2>1. /\ pc[p] = "parkUnsched" /\ pc[p] \in Window \ {"count"}
          /\ GoTo(p, "parkSave", Parked(cur[p])) /\ tasks' = Unscheduled(cur[p])
          /\ UNCHANGED <<rec, trig, ran, started>>
      BY <1>4 DEF ParkUnsched, Window
    <2>2. Quiet(p, "parkSave") /\ pc'[p] = "parkSave"
      BY <1>0, <2>1, CancelThins, QuietGo DEF Quiet, Moved
    <2>3. p \in Task => Onward(p, "parkSave")
      BY <1>0, <2>1, <2>2 DEF Onward, Early, Late, AskCopies, RunCopies
    <2>4. QED
      BY <2>1, <2>2, <2>3, FireAside DEF Arms
  <1>5. QED
    BY <1>1, <1>2, <1>3, <1>4, ArmFire DEF Shared

\* What is queued comes due when no fire is under way, within the limit, and when
\* no time is asked for.
LEMMA LaunchFire ==
    ASSUME TypeInv, ChainInv, FireInv, Steady, NEW t \in Task, Fire(t)
    PROVE  FireInv'
PROOF
  <1>0. /\ pc[t] = "idle" /\ tasks[t] # None /\ tasks[t].at = 0
        /\ Moved(t, "get") /\ UNCHANGED <<rec, started>> /\ Task \subseteq Thread /\ t \in Thread
        /\ \A u \in Task : /\ tasks'[u] = IF u = t THEN None ELSE tasks[u]
                           /\ trig'[u] = IF u = t THEN tasks[t].trig ELSE trig[u]
                           /\ ran'[u] = IF u = t THEN 0 ELSE ran[u]
        /\ \A u \in Thread \ {t} : cur'[u] = cur[u] /\ (u \in Task => sa'[u] = sa[u])
    BY GoToMoves, Threads DEF Fire, TypeInv, TypeOK
  <1>1. \A u \in Task : ran[u] \in 0..RunTime /\ RunTime \in Nat
    BY StandingAssumption DEF TypeInv, TypeOK
  <1>2. /\ \A u \in Task \ {t} : (Busy(u)' <=> Busy(u)) /\ pc'[u] = pc[u]
        /\ Busy(t)' <=> tasks[t].trig = "schedule"
        /\ \A u \in Task : Scheduled(u)' <=> u # t /\ Scheduled(u)
        /\ ~Busy(t) /\ pc'[t] = "get"
    BY <1>0 DEF Busy, Moved, Scheduled
  <1>3. Scheduled(t) => (\A u \in Task : ~Busy(u)) /\ Chains' = {} /\ rec # None /\ ~Pending
    <2>1. ASSUME Scheduled(t), NEW u \in Task PROVE ~Busy(u)
      BY <1>0, <1>1, <2>1 DEF FireInv, TimeInv
    <2>2. ASSUME Scheduled(t) PROVE Chains' = {} /\ rec # None
      <3>1. t \in Chains /\ (\E x : Chains \subseteq {x}) /\ rec # None
        BY <2>2, ChainFacts DEF Chains, Steady, FireInv, AskInv
      <3>2. Chains = {t}
        BY <3>1
      <3>3. QED
        BY <1>2, <3>1, <3>2 DEF Chains
    <2>3. ASSUME Scheduled(t), Pending PROVE FALSE
      <3>1. rec.ask <= 0
        BY <1>0, <2>1, <2>3 DEF FireInv, AskInv, Past
      <3>2. rec.ask > 0 /\ rec.ask \in Int
        <4>1. rec \in Record
          BY <2>3 DEF Pending, TypeInv, TypeOK
        <4>2. QED
          BY <2>3, <4>1, RecordFields, AskAges, Times DEF Pending, Asks, Rel
      <3>3. QED
        BY <3>1, <3>2
    <2>4. QED
      BY <2>1, <2>2, <2>3
  <1>4. tasks[t].trig = "schedule" <=> Scheduled(t)
    BY <1>0 DEF Scheduled
  <1>5. (Pending' <=> Pending) /\ (Active' <=> Active)
    BY <1>0 DEF Pending, Active
  <1>6. Past => Past'
    BY <1>2 DEF Past
  <1>7. TimeInv'
    <2>1. \A u, v \in Task : Busy(u)' /\ Busy(v)' => u = v
      BY <1>2, <1>3, <1>4 DEF FireInv, TimeInv
    <2>2. \A u, v \in Task : Busy(u)' /\ Scheduled(v)' => tasks'[v].at + ran'[u] > RunTime
      <3>1. CASE Scheduled(t)
        BY <1>3, <3>1 DEF Chains
      <3>2. CASE ~Scheduled(t)
        BY <1>0, <1>2, <1>4, <3>2 DEF FireInv, TimeInv
      <3>3. QED
        BY <3>1, <3>2
    <2>3. \A u \in Task :
             /\ trig'[u] = "manual" => pc'[u] \in {"idle", "get", "run"}
             /\ pc'[u] \in {"failGet", "failSave", "judgeGet", "judgeSave"} => Fallible \/ Objective
      BY <1>0, <1>2 DEF FireInv, TimeInv
    <2>4. \A u \in Task : Fallible \/ Objective => /\ trig'[u] = "schedule"
                                                   /\ tasks'[u] # None => tasks'[u].trig = "schedule"
      BY <1>0 DEF FireInv, TimeInv
    <2>5. QED
      BY <2>1, <2>2, <2>3, <2>4 DEF TimeInv
  <1>8. AskInv'
    <2>1. ASSUME NEW u \in Task, Busy(u)', Pending'
          PROVE  rec'.ask + ran'[u] > RunTime /\ pc'[u] \notin Early
      BY <1>0, <1>2, <1>3, <1>4, <1>5, <2>1 DEF FireInv, AskInv
    <2>2. ASSUME NEW u \in Task, Scheduled(u)', Pending'
          PROVE  Past' \/ rec'.ask <= tasks'[u].at
      BY <1>0, <1>2, <1>5, <1>6, <2>2 DEF FireInv, AskInv
    <2>3. ASSUME NEW u \in Task PROVE AskCopies(u)'
      <3>1. CASE u = t
        BY <1>2, <3>1 DEF AskCopies
      <3>2. CASE u # t
        BY <1>0, <1>2, <3>2 DEF AskCopies, FireInv, AskInv
      <3>3. QED
        BY <3>1, <3>2
    <2>4. ASSUME Chains' # {}
          PROVE  rec' # None /\ (rec'.paused => ~Pending' /\ \A u \in Task : Busy(u)' => pc'[u] = "rearm")
      <3>1. ~Scheduled(t) /\ Chains # {}
        BY <1>2, <1>3, <2>4 DEF Chains
      <3>2. QED
        BY <1>0, <1>2, <1>4, <1>5, <3>1 DEF FireInv, AskInv
    <2>5. QED
      BY <2>1, <2>2, <2>3, <2>4 DEF AskInv
  <1>9. LimitInv'
    <2>1. ASSUME NEW u \in Task PROVE RunCopies(u)'
      <3>1. CASE u = t
        BY <1>2, <3>1 DEF RunCopies
      <3>2. CASE u # t
        BY <1>0, <1>2, <3>2 DEF RunCopies, FireInv, LimitInv
      <3>3. QED
        BY <3>1, <3>2
    <2> SUFFICES ASSUME MaxRuns > 0 PROVE LimitInv'
      BY <2>1 DEF LimitInv
    <2>2. started' <= MaxRuns /\ (rec' # None => started' <= rec'.runs)
      BY <1>0 DEF FireInv, LimitInv
    <2>3. Arming => Arming'
      <3>1. ASSUME NEW p \in Thread, Arms(p) PROVE Arms(p)'
        BY <1>0, <3>1 DEF Arms, Moved
      <3>2. QED
        BY <3>1 DEF Arming
    <2>4. ASSUME NEW u \in Task, Busy(u)', pc'[u] \in {"get", "count"}, Active'
          PROVE  rec'.runs < MaxRuns \/ Arming'
      <3>1. CASE u = t
        <4>1. Scheduled(t) /\ t \in Chains /\ ~Past
          BY <1>2, <1>3, <1>4, <2>4, <3>1 DEF Chains, Past
        <4>2. QED
          BY <1>0, <1>5, <2>3, <2>4, <4>1 DEF FireInv, LimitInv
      <3>2. CASE u # t
        BY <1>0, <1>2, <1>5, <2>3, <2>4, <3>2 DEF FireInv, LimitInv
      <3>3. QED
        BY <3>1, <3>2
    <2>5. ASSUME Chains' # {}, Active' PROVE rec'.runs < MaxRuns \/ Past' \/ Arming'
      <3>1. Chains # {}
        BY <1>2, <2>5 DEF Chains
      <3>2. QED
        BY <1>0, <1>5, <1>6, <2>3, <2>5, <3>1 DEF FireInv, LimitInv
    <2>6. QED
      BY <2>1, <2>2, <2>4, <2>5 DEF LimitInv
  <1>10. QED
    BY <1>7, <1>8, <1>9 DEF FireInv

\* A judged or failed attempt's save: the fire it ends is the one under way.
LEMMA JudgedFire ==
    ASSUME TypeInv, ExclInv, FitInv, FireInv, NEW t \in Task, FailSave(t) \/ JudgeSave(t)
    PROVE  FireInv'
PROOF
  <1>0. /\ t \in Thread /\ pc[t] \in {"failSave", "judgeSave"} /\ pc[t] \in Window
        /\ cur[t] \in Record /\ cur[t] # None /\ Fits(pc[t], cur[t], rec)
        /\ trig[t] = "schedule" /\ Busy(t) /\ Deferred(t) = "rearm"
        /\ UNCHANGED <<tasks, trig, ran, started>> /\ rec' = cur[t]
    BY Threads, NoneAssumption
       DEF FailSave, JudgeSave, Window, TypeInv, TypeOK, CopyInv, FitInv, Copy, FireInv, TimeInv,
           Busy, Deferred
  <1>1. PICK q \in {"rearm", "parkGet"} :
           GoTo(t, q, None) /\ (q = "parkGet" => pc[t] = "judgeSave" /\ cur[t].stop # "met")
    BY <1>0 DEF FailSave, JudgeSave
  <1>2. Quiet(t, q) /\ pc'[t] = q /\ Chains' = Chains
    BY <1>0, <1>1, QuietGo DEF Quiet, Moved, Thinned, Chains, Scheduled
  <1>3. Settles(t, q) /\ q \notin Early
    BY <1>0 DEF Settles, Late, Early
  <1>4. Onward(t, q)
    BY <1>0, <1>2, <1>3 DEF Onward, Settles, AskCopies, RunCopies
  <1>5. AskCopies(t) /\ RunCopies(t)
    BY DEF FireInv, AskInv, LimitInv
  <1>6. Pending' => rec'.ask + ran[t] > RunTime
    BY <1>0, <1>5 DEF Pending, AskCopies
  <1>7. ASSUME Chains # {}, rec'.paused PROVE q = "rearm" /\ ~Pending'
    <2>1. rec # None /\ ~rec.paused
      BY <1>0, <1>7 DEF FireInv, AskInv
    <2>2. ~Asks(cur[t].ask) /\ pc[t] = "judgeSave" /\ cur[t].stop = "met"
      BY <1>0, <1>5, <1>7, <2>1 DEF AskCopies, Fits
    <2>3. QED
      BY <1>0, <1>1, <2>2 DEF Pending
  <1>8. MaxRuns > 0 => started' <= rec'.runs
    <2>1. CASE pc[t] = "judgeSave"
      BY <1>0, <1>5, <2>1 DEF RunCopies
    <2>2. CASE pc[t] = "failSave"
      <3>1. rec # None /\ cur[t].runs = rec.runs
        BY <1>0, <2>2 DEF Fits
      <3>2. QED
        BY <1>0, <3>1 DEF FireInv, LimitInv
    <2>3. QED
      BY <1>0, <2>1, <2>2
  <1>9. Writes(t, q)
    BY <1>0, <1>2, <1>3, <1>6, <1>7, <1>8 DEF Writes
  <1>10. MaxRuns > 0 => started' <= MaxRuns
    BY <1>0 DEF FireInv, LimitInv
  <1>11. QED
    BY <1>0, <1>2, <1>4, <1>9, <1>10, FireKept

LEMMA CountFire ==
    ASSUME TypeInv, ExclInv, FitInv, FireInv, Steady, NEW t \in Task, HandlerCount(t)
    PROVE  FireInv'
PROOF
  <1>0. /\ t \in Thread /\ pc[t] = "count" /\ pc[t] \in Window
        /\ sa[t] \in Record /\ sa[t] # None /\ Fits("count", sa[t], rec)
        /\ trig[t] = "schedule" /\ Busy(t)
        /\ UNCHANGED <<tasks, cur, sa, trig, ran>> /\ rec' = sa[t]
        /\ started' = AtMost(started + 1, RunCap)
    BY Threads, NoneAssumption
       DEF HandlerCount, Window, TypeInv, TypeOK, CopyInv, FitInv, Copy, FireInv, TimeInv, Busy
  <1>1. Quiet(t, "run") /\ pc'[t] = "run" /\ Chains' = Chains
    BY <1>0 DEF HandlerCount, Quiet, Moved, Thinned, Chains, Scheduled, TypeInv, TypeOK
  <1>2. /\ rec # None /\ ~rec.paused /\ ~sa[t].paused
        /\ sa[t].runs = AtMost(rec.runs + 1, RunCap)
    BY <1>0 DEF Fits
  <1>3. Settles(t, "run") /\ ~Pending'
    BY <1>0 DEF Settles, Late, Pending, FireInv, AskInv, AskCopies
  <1>4. ASSUME MaxRuns > 0
        PROVE  started' <= MaxRuns /\ started' <= rec'.runs
    <2>1. ~Arming
      <3>1. ASSUME NEW u \in Thread, Arms(u) PROVE FALSE
        <4>1. pc[u] \in Window /\ pc[u] # "count"
          BY <3>1 DEF Arms, Window
        <4>2. QED
          BY <1>0, <4>1 DEF ExclInv
      <3>2. QED
        BY <3>1 DEF Arming
    <2>2. rec.runs < MaxRuns /\ started <= rec.runs
      BY <1>0, <1>2, <1>4, <2>1 DEF FireInv, LimitInv, Active
    <2>3. /\ rec.runs \in 0..RunCap /\ started \in 0..RunCap /\ MaxRuns \in Nat /\ RunCap \in Nat
          /\ MaxRuns < RunCap
      BY <1>2, RecordFields, StandingAssumption DEF TypeInv, TypeOK
    <2>4. rec'.runs = rec.runs + 1 /\ started' = started + 1
      BY <1>0, <1>2, <2>2, <2>3 DEF AtMost
    <2>5. QED
      BY <2>2, <2>3, <2>4
  <1>5. Onward(t, "run")
    <2>1. AskCopies(t)'
      BY <1>0, <1>1 DEF AskCopies, FireInv, AskInv
    <2>2. RunCopies(t)'
      BY <1>0, <1>1, <1>4 DEF RunCopies
    <2>3. QED
      BY <1>0, <1>1, <2>1, <2>2 DEF Onward, Early, Late
  <1>6. Writes(t, "run")
    BY <1>0, <1>2, <1>3, <1>4 DEF Writes
  <1>7. QED
    BY <1>0, <1>1, <1>4, <1>5, <1>6, FireKept

LEMMA HandlerFire ==
    ASSUME TypeInv, ExclInv, FitInv, FireInv, Steady, NEW t \in Task, Handler(t)
    PROVE  FireInv'
PROOF
  <1>0. /\ t \in Thread /\ trig[t] \in {"schedule", "manual"}
        /\ trig[t] = "manual" => /\ pc[t] \in {"idle", "get", "run"} /\ Deferred(t) = "idle"
                                 /\ ~Fallible /\ ~Objective
        /\ trig[t] # "manual" => Deferred(t) = "rearm"
        /\ rec # None => rec \in Record
        /\ pc[t] \in {"failGet", "judgeGet"} => Fallible \/ Objective
    BY Threads DEF FireInv, TimeInv, Deferred, TypeInv, TypeOK
  <1>1. ASSUME NEW q, NEW r, GoTo(t, q, r), UNCHANGED <<rec, tasks, trig, ran, started>>,
               q \in {"idle", "rearm", "unsched", "parkGet", "failGet"},
               pc[t] \in {"get", "run", "failGet", "judgeGet", "rearm"},
               trig[t] = "manual" => q = "idle",
               q = "idle" => trig[t] = "manual" \/ (pc[t] = "rearm" /\ ~Active),
               q = "failGet" => pc[t] = "run" /\ Fallible,
               pc[t] = "rearm" => q = "idle" \/ Active
        PROVE  FireInv'
    <2>1. Quiet(t, q) /\ pc'[t] = q
      BY <1>0, <1>1, QuietGo DEF Quiet, Moved, Thinned
    <2>2. Onward(t, q)
      BY <1>0, <1>1, <2>1 DEF Onward, Early, Late, AskCopies, RunCopies, Busy, Active
    <2>3. QED
      BY <1>0, <1>1, <2>1, <2>2, FireAside DEF Arms
  <1>2. CASE HandlerGet(t)
    <2>1. pc[t] = "get" /\ UNCHANGED <<rec, tasks, trig, ran, started>>
      BY <1>2 DEF HandlerGet
    <2>2. CASE GoTo(t, Deferred(t), None) \/ (Fallible /\ GoTo(t, "parkGet", None))
      BY <1>0, <1>1, <2>1, <2>2
    <2>3. ASSUME NEW q \in {"run", "count"}, NEW r \in {rec, Counted(rec)}, Active,
                 pc' = [pc EXCEPT ![t] = q], sa' = [sa EXCEPT ![t] = r], UNCHANGED cur,
                 q = "run" <=> trig[t] = "manual"
          PROVE  FireInv'
      <3>1. Quiet(t, q) /\ pc'[t] = q /\ sa'[t] = r
        BY <1>0, <2>1, <2>3 DEF Quiet, Moved, Thinned, TypeInv, TypeOK
      <3>2. r.ask = rec.ask
        BY <1>0, <2>3, Edits DEF Active
      <3>3. AskCopies(t)'
        <4>1. Busy(t)' => Busy(t)
          BY <2>1, <3>1 DEF Busy
        <4>2. Busy(t) => ~Asks(rec.ask)
          BY <2>1, <2>3 DEF FireInv, AskInv, Early, Pending, Active
        <4>3. QED
          BY <3>1, <3>2, <4>1, <4>2 DEF AskCopies
      <3>4. RunCopies(t)'
        BY <2>1, <2>3, <3>1 DEF RunCopies, Busy
      <3>5. Onward(t, q)
        BY <1>0, <2>1, <2>3, <3>1, <3>3, <3>4 DEF Onward, Early, Late
      <3>6. QED
        BY <1>0, <2>1, <3>1, <3>5, FireAside DEF Arms
    <2>4. QED
      BY <1>0, <1>2, <2>2, <2>3 DEF HandlerGet
  <1>3. CASE RunEnds(t)
    <2>1. pc[t] = "run" /\ UNCHANGED <<rec, tasks, trig, ran, started>>
      BY <1>3 DEF RunEnds
    <2>2. CASE GoTo(t, Deferred(t), None) \/ (Fallible /\ GoTo(t, "failGet", None))
      BY <1>0, <1>1, <2>1, <2>2
    <2>3. CASE Objective /\ GoTo(t, "judgeGet", None)
      <3>1. Quiet(t, "judgeGet") /\ pc'[t] = "judgeGet" /\ sa'[t] = sa[t]
        BY <1>0, <2>1, <2>3, GoToMoves, QuietGo DEF Quiet, Moved, Thinned
      <3>2. AskCopies(t) /\ RunCopies(t) /\ trig[t] = "schedule" /\ Busy(t)
        BY <1>0, <2>1, <2>3 DEF FireInv, AskInv, LimitInv, Busy
      <3>3. AskCopies(t)' /\ RunCopies(t)'
        BY <2>1, <3>1, <3>2 DEF AskCopies, RunCopies
      <3>4. Onward(t, "judgeGet")
        BY <1>0, <2>1, <2>3, <3>1, <3>2, <3>3 DEF Onward, Early, Late
      <3>5. QED
        BY <1>0, <2>1, <3>1, <3>4, FireAside DEF Arms
    <2>4. QED
      BY <1>3, <2>2, <2>3 DEF RunEnds
  <1>4. ASSUME NEW r \in Record, NEW c \in Record, r \in {Met(c), c, Delayed(c)},
               NEW q, \/ q = "failSave" /\ pc[t] = "failGet" /\ rec # None
                      \/ q = "judgeSave" /\ pc[t] = "judgeGet",
               IF rec = None THEN c = sa[t] ELSE c = rec,
               GoTo(t, q, r), UNCHANGED <<rec, tasks, trig, ran, started>>
        PROVE  FireInv'
    <2>1. Quiet(t, q) /\ pc'[t] = q /\ cur'[t] = r
      BY <1>0, <1>4, GoToMoves, QuietGo DEF Quiet, Moved, Thinned
    <2>2. Busy(t) /\ trig[t] = "schedule" /\ RunTime < Backoff
      BY <1>0, <1>4 DEF Busy, Steady
    <2>3. ~Asks(c.ask)
      <3>1. CASE rec = None
        BY <1>4, <2>2, <3>1 DEF FireInv, AskInv, AskCopies
      <3>2. CASE rec # None
        BY <1>4, <2>2, <3>2 DEF FireInv, AskInv, Early, Pending
      <3>3. QED
        BY <3>1, <3>2
    <2>4. AskCopies(t)'
      <3>1. Asks(r.ask) => r = Delayed(c) /\ r.ask = Backoff /\ r.paused = c.paused
        BY <1>4, <2>3, Edits
      <3>2. ran[t] \in Nat /\ Backoff \in Nat /\ RunTime \in Nat
        BY StandingAssumption DEF TypeInv, TypeOK
      <3>3. Asks(r.ask) => r.ask + ran[t] > RunTime
        BY <2>2, <3>1, <3>2
      <3>4. QED
        BY <1>4, <2>1, <3>1, <3>3 DEF AskCopies
    <2>5. RunCopies(t)'
      <3>1. r.runs = c.runs
        BY <1>4, Edits
      <3>2. MaxRuns > 0 /\ pc[t] = "judgeGet" => started <= c.runs
        BY <1>4, <2>2 DEF FireInv, LimitInv, RunCopies
      <3>3. QED
        BY <1>4, <2>1, <3>1, <3>2 DEF RunCopies
    <2>6. Onward(t, q)
      BY <1>0, <1>4, <2>1, <2>2, <2>4, <2>5 DEF Onward, Early, Late
    <2>7. QED
      BY <1>0, <1>4, <2>1, <2>6, FireAside DEF Arms
  <1>5. CASE FailGet(t)
    <2>1. pc[t] = "failGet" /\ UNCHANGED <<rec, tasks, trig, ran, started>>
      BY <1>5 DEF FailGet
    <2>2. CASE rec = None
      BY <1>0, <1>1, <1>5, <2>1, <2>2 DEF FailGet
    <2>3. CASE rec # None
      <3>1. PICK r \in {Delayed(rec), rec} : GoTo(t, "failSave", r)
        BY <1>5, <2>3 DEF FailGet
      <3>2. r \in Record /\ rec \in Record
        BY <1>0, <2>3, RecordEdits
      <3>3. QED
        BY <1>4, <2>1, <2>3, <3>1, <3>2
    <2>4. QED
      BY <2>2, <2>3
  <1>6. CASE JudgeGet(t)
    <2> DEFINE c == IF rec = None THEN sa[t] ELSE rec
    <2>1. pc[t] = "judgeGet" /\ UNCHANGED <<rec, tasks, trig, ran, started>>
      BY <1>6 DEF JudgeGet
    <2>2. c \in Record
      BY <1>0, <2>1 DEF TypeInv, CopyInv
    <2>3. PICK r \in {Met(c), c, Delayed(c)} : GoTo(t, "judgeSave", r)
      BY <1>6 DEF JudgeGet
    <2>4. r \in Record
      BY <2>2, RecordEdits
    <2>5. QED
      BY <1>4, <2>1, <2>2, <2>3, <2>4
  <1>7. CASE Rearm(t)
    <2>1. pc[t] = "rearm" /\ UNCHANGED <<rec, tasks, trig, ran, started>> /\ trig[t] # "manual"
      BY <1>0, <1>7 DEF Rearm
    <2>2. IF Active THEN GoTo(t, "unsched", rec) ELSE GoTo(t, "idle", None)
      BY <1>7 DEF Rearm
    <2>3. QED
      BY <1>0, <1>1, <2>1, <2>2
  <1>8. QED
    BY <1>2, <1>3, <1>5, <1>6, <1>7, CountFire, JudgedFire DEF Handler

LEMMA OwnerFire ==
    ASSUME TypeInv, ExclInv, ChainInv, FitInv, FireInv, Steady, NEW o \in Owner,
           Served(o) \/ \E k \in Ops : Request(o, k)
    PROVE  FireInv'
PROOF
  <1>0. /\ o \in Thread \ Task /\ "recreate" \notin Ops /\ Task \subseteq Thread
        /\ pc[o] \in Window \ {"count"} => cur[o] \in Record /\ Fits(pc[o], cur[o], rec)
        /\ op[o] \in Ops \cup {"create"}
    BY Threads DEF TypeInv, CopyInv, FitInv, Copy, Steady, ChainInv
  <1>1. CASE Serve(o) \/ \E k \in Ops : Request(o, k)
    <2>1. /\ UNCHANGED <<rec, tasks, trig, ran, started>> /\ pc[o] \in {"serve", "idle"}
          /\ \E q, r : GoTo(o, q, r)
      BY <1>1 DEF Serve, Request, CreateGet, PauseGet, ResumeGet, EditGet, DeleteGet, BreakGet
    <2>2. \E q : Quiet(o, q)
      BY <1>0, <2>1, QuietGo DEF Thinned
    <2>3. QED
      BY <1>0, <2>1, <2>2, FireAside DEF Arms
  <1>2. CASE RunStandingNow(o)
    <2>1. /\ UNCHANGED <<rec, trig, ran, started>> /\ GoTo(o, "idle", None) /\ pc[o] = "serve"
          /\ "runnow" \in Ops
      BY <1>0, <1>2 DEF RunStandingNow
    <2>2. Thinned
      <3>1. CASE UNCHANGED tasks
        BY <3>1 DEF Thinned
      <3>2. CASE Unused # {} /\ tasks' = Queued(NewId, 0, "manual")
        <4>1. NewId \in Task /\ 0 \in 0..Far
          BY <3>2, NewIdFacts, Times
        <4>2. /\ tasks'[NewId].trig = "manual"
              /\ \A u \in Task \ {NewId} : tasks'[u] = tasks[u]
          BY <3>2, <4>1, QueuedFacts DEF TypeInv
        <4>3. QED
          BY <2>1, <4>2 DEF Thinned, Steady
      <3>3. QED
        BY <1>2, <3>1, <3>2 DEF RunStandingNow
    <2>3. Quiet(o, "idle")
      BY <1>0, <2>1, <2>2, QuietGo
    <2>4. QED
      BY <1>0, <2>1, <2>3, FireAside DEF Arms
  <1>3. CASE PauseUnsched(o) \/ DeleteUnsched(o)
    <2>1. /\ UNCHANGED <<rec, trig, ran, started>> /\ (\E q, r : GoTo(o, q, r))
          /\ cur[o] \in Record /\ tasks' = Unscheduled(cur[o])
          /\ pc[o] \in {"pauseUnsched", "deleteUnsched"}
      BY <1>0, <1>3 DEF PauseUnsched, DeleteUnsched, Window
    <2>2. \E q : Quiet(o, q)
      BY <1>0, <2>1, CancelThins, QuietGo
    <2>3. QED
      BY <1>0, <2>1, <2>2, FireAside DEF Arms
  <1>4. CASE PauseSave(o) \/ EditSave(o)
    <2>1. /\ pc[o] \in {"pauseSave", "editSave"} /\ rec' = cur[o] /\ GoTo(o, "idle", None)
          /\ UNCHANGED <<tasks, trig, ran, started>>
      BY <1>4 DEF PauseSave, EditSave
    <2>2. Quiet(o, "idle")
      BY <1>0, <2>1, QuietGo DEF Thinned
    <2>3. QED
      BY <1>0, <2>1, <2>2, FireCopy
  <1>5. CASE DeleteUnset(o)
    <2>1. /\ pc[o] = "unset" /\ pc[o] \in Window /\ rec' = None /\ GoTo(o, "idle", None)
          /\ UNCHANGED <<tasks, trig, ran, started>>
      BY <1>5 DEF DeleteUnset, Window
    <2>2. Quiet(o, "idle")
      BY <1>0, <2>1, QuietGo DEF Thinned
    <2>3. Chains' = {}
      BY <1>0, <2>1, ChainFacts DEF Held, Steady, Chains, Scheduled
    <2>4. Writes(o, "idle")
      BY <2>1, <2>3 DEF Writes, Pending, Active
    <2>5. MaxRuns > 0 => started' <= MaxRuns
      BY <2>1 DEF FireInv, LimitInv
    <2>6. QED
      BY <1>0, <2>1, <2>2, <2>4, <2>5, FireKept
  <1>6. CASE CreateSave(o) \/ ResumeSave(o)
    <2>1. /\ pc[o] \in {"createSave", "resumeSave"} /\ rec' = cur[o] /\ GoTo(o, "unsched", cur[o])
          /\ UNCHANGED <<tasks, trig, ran>>
          /\ started' = IF pc[o] = "createSave" \/ (rec # None /\ rec.stop = "ended") THEN 0 ELSE started
      BY <1>6 DEF CreateSave, ResumeSave
    <2>2. /\ pc[o] \in Window /\ cur[o] \in Record /\ cur[o] # None /\ Fits(pc[o], cur[o], rec)
      BY <1>0, <2>1, NoneAssumption DEF Window
    <2>3. Quiet(o, "unsched") /\ pc'[o] = "unsched" /\ Arms(o)'
      BY <1>0, <2>1, QuietGo DEF Quiet, Moved, Thinned, Arms
    <2>4. Chains' = Chains /\ (Chains # {} => rec # None) /\ ~rec'.paused
      BY <2>1, <2>2 DEF Chains, Scheduled, FireInv, AskInv, Fits
    <2>5. Pending' => Pending /\ rec'.ask = rec.ask
      BY <2>1, <2>2 DEF Pending, Fits
    <2>6. /\ MaxRuns > 0 => started' <= MaxRuns /\ started' <= rec'.runs
          /\ started' \in {0, started}
      <3>1. MaxRuns \in Nat /\ cur[o].runs \in 0..RunCap /\ RunCap \in Nat
        BY <2>2, RecordFields, StandingAssumption
      <3>2. CASE started' = 0
        BY <2>1, <3>1, <3>2
      <3>3. CASE pc[o] = "resumeSave" /\ started' = started /\ ~(rec # None /\ rec.stop = "ended")
        <4>1. rec # None /\ rec'.runs = rec.runs
          BY <2>1, <2>2, <3>3 DEF Fits
        <4>2. QED
          BY <3>3, <4>1 DEF FireInv, LimitInv
      <3>4. QED
        BY <2>1, <3>2, <3>3
    <2>7. Writes(o, "unsched")
      BY <2>1, <2>2, <2>3, <2>4, <2>5, <2>6 DEF Writes
    <2>8. QED
      BY <1>0, <2>3, <2>6, <2>7, FireKept
  <1>7. QED
    BY <1>1, <1>2, <1>3, <1>4, <1>5, <1>6 DEF Served

\* Time passes for a fire, for what is queued and for what is asked for alike.
LEMMA TickFire ==
    ASSUME TypeInv, FireInv, Tick
    PROVE  FireInv'
PROOF
  <1>0. Aged(None) = None
    BY DEF Aged, Unless
  <1>1. /\ rec' = Aged(rec) /\ UNCHANGED <<pc, trig, started>> /\ Task \subseteq Thread
        /\ \A p \in Thread : cur'[p] = Aged(cur[p])
        /\ \A t \in Task : /\ sa'[t] = Aged(sa[t])
                           /\ ran[t] \in 0..RunTime /\ RunTime \in Nat
                           /\ ran'[t] = IF pc[t] = "idle" THEN 0 ELSE ran[t] + 1
    BY Threads, StandingAssumption DEF Tick, TypeInv, TypeOK
  <1>2. \A t \in Task : /\ Busy(t)' <=> Busy(t)
                        /\ Busy(t) => ran'[t] = ran[t] + 1
    BY <1>1 DEF Busy
  <1>3. \A u \in Task : /\ Scheduled(u)' <=> Scheduled(u)
                        /\ tasks'[u] # None => tasks[u] # None /\ tasks'[u].trig = tasks[u].trig
                        /\ Scheduled(u) => /\ tasks'[u].at = IF tasks[u].at > 0 THEN tasks[u].at - 1 ELSE 0
                                           /\ tasks[u].at \in Nat
    <2>1. \A u \in Task : tasks[u] # None => tasks[u].at \in Nat
      BY Times DEF TypeInv, TypeOK, TaskRow
    <2>2. RestOK
      BY TypeParts
    <2>3. QED
      BY <2>1, <2>2, TickRows DEF Scheduled
  <1>4. Chains' = Chains /\ (Past' <=> Past)
    BY <1>1, <1>2, <1>3 DEF Chains, Past
  <1>5. ASSUME NEW r \in Record
        PROVE  /\ Aged(r) # None /\ Aged(r).paused = r.paused /\ Aged(r).runs = r.runs
               /\ Asks(Aged(r).ask) => Asks(r.ask) /\ r.ask \in Nat /\ Aged(r).ask = r.ask - 1
    <2>1. Aged(r).paused = r.paused /\ Aged(r).runs = r.runs /\ Aged(r).ask = Older(r.ask)
      BY AgedKeeps
    <2>2. Aged(r) # None
      BY RecordEdits, NoneAssumption
    <2>3. Asks(Older(r.ask)) => Asks(r.ask) /\ r.ask \in Nat /\ Older(r.ask) = r.ask - 1
      BY RecordFields, AskAges
    <2>4. QED
      BY <2>1, <2>2, <2>3
  <1>6. /\ rec' = None <=> rec = None
        /\ rec # None => rec'.paused = rec.paused /\ rec'.runs = rec.runs
        /\ Pending' => Pending /\ rec.ask \in Nat /\ rec'.ask = rec.ask - 1
    <2>1. CASE rec = None
      BY <1>0, <1>1, <2>1 DEF Pending
    <2>2. CASE rec # None
      <3>1. rec \in Record
        BY <2>2 DEF TypeInv, TypeOK
      <3>2. QED
        BY <1>1, <1>5, <2>2, <3>1 DEF Pending
    <2>3. QED
      BY <2>1, <2>2
  <1>7. (Active' <=> Active) /\ (Arming' <=> Arming)
    <2>1. ASSUME NEW p \in Thread PROVE Arms(p)' <=> Arms(p)
      <3>1. pc[p] = "save" => cur[p] \in Record
        BY DEF TypeInv, CopyInv, Window
      <3>2. pc[p] = "save" => cur'[p].paused = cur[p].paused
        BY <1>1, <1>5, <3>1
      <3>3. QED
        BY <1>1, <3>2 DEF Arms
    <2>2. QED
      BY <1>6, <2>1 DEF Active, Arming
  <1>8. TimeInv'
    <2>1. ASSUME NEW t \in Task, NEW u \in Task, Busy(t)', Scheduled(u)'
          PROVE  tasks'[u].at + ran'[t] > RunTime
      <3>1. tasks[u].at + ran[t] > RunTime
        BY <1>2, <1>3, <2>1 DEF FireInv, TimeInv
      <3>2. QED
        BY <1>1, <1>2, <1>3, <2>1, <3>1
    <2>2. QED
      BY <1>1, <1>2, <1>3, <2>1 DEF FireInv, TimeInv
  <1>9. AskInv'
    <2>1. ASSUME NEW t \in Task, Busy(t)', Pending'
          PROVE  rec'.ask + ran'[t] > RunTime /\ pc'[t] \notin Early
      <3>1. rec.ask + ran[t] > RunTime /\ pc[t] \notin Early
        BY <1>2, <1>6, <2>1 DEF FireInv, AskInv
      <3>2. QED
        BY <1>1, <1>2, <1>6, <2>1, <3>1
    <2>2. ASSUME NEW u \in Task, Scheduled(u)', Pending'
          PROVE  Past' \/ rec'.ask <= tasks'[u].at
      <3>1. Past \/ rec.ask <= tasks[u].at
        BY <1>3, <1>6, <2>2 DEF FireInv, AskInv
      <3>2. rec.ask > 0
        BY <1>6, <2>2 DEF Pending, Asks
      <3>3. QED
        BY <1>3, <1>4, <1>6, <2>2, <3>1, <3>2
    <2>3. ASSUME NEW t \in Task PROVE AskCopies(t)'
      <3>1. AskCopies(t)
        BY DEF FireInv, AskInv
      <3>2. ASSUME pc'[t] \in {"failSave", "judgeSave"}, Asks(cur'[t].ask)
            PROVE  /\ cur'[t].ask + ran'[t] > RunTime
                   /\ rec' # None => cur'[t].paused = rec'.paused
        <4>1. cur[t] \in Record /\ cur'[t] = Aged(cur[t]) /\ pc[t] = pc'[t]
          BY <1>1, <3>2 DEF TypeInv, CopyInv, Window
        <4>2. /\ Asks(cur[t].ask) /\ cur[t].ask \in Nat /\ cur'[t].ask = cur[t].ask - 1
              /\ cur'[t].paused = cur[t].paused
          BY <1>5, <3>2, <4>1
        <4>3. cur[t].ask + ran[t] > RunTime /\ (rec # None => cur[t].paused = rec.paused)
          BY <3>1, <3>2, <4>1, <4>2 DEF AskCopies
        <4>4. QED
          BY <1>1, <1>6, <3>2, <4>1, <4>2, <4>3
      <3>3. ASSUME Busy(t)', pc'[t] \in {"count", "run", "judgeGet"}
            PROVE  ~Asks(sa'[t].ask)
        <4>1. sa[t] \in Record /\ sa'[t] = Aged(sa[t]) /\ pc[t] = pc'[t]
          BY <1>1, <3>3 DEF TypeInv, CopyInv
        <4>2. QED
          BY <1>2, <1>5, <3>1, <3>3, <4>1 DEF AskCopies
      <3>4. QED
        BY <3>2, <3>3 DEF AskCopies
    <2>4. Chains' # {} => /\ rec' # None
                          /\ rec'.paused => ~Pending' /\ \A t \in Task : Busy(t)' => pc'[t] = "rearm"
      BY <1>1, <1>2, <1>4, <1>6 DEF FireInv, AskInv
    <2>5. QED
      BY <2>1, <2>2, <2>3, <2>4 DEF AskInv
  <1>10. LimitInv'
    <2>1. ASSUME NEW t \in Task PROVE RunCopies(t)'
      <3>1. /\ pc[t] \in {"run", "judgeGet"} => sa'[t].runs = sa[t].runs
            /\ pc[t] = "judgeSave" => cur'[t].runs = cur[t].runs
        BY <1>1, <1>5 DEF TypeInv, CopyInv, Window
      <3>2. QED
        BY <1>1, <1>2, <3>1 DEF RunCopies, FireInv, LimitInv
    <2>2. MaxRuns > 0 =>
             /\ started' <= MaxRuns /\ (rec' # None => started' <= rec'.runs)
             /\ \A t \in Task : Busy(t)' /\ pc'[t] \in {"get", "count"} /\ Active' =>
                                   rec'.runs < MaxRuns \/ Arming'
             /\ Chains' # {} /\ Active' => rec'.runs < MaxRuns \/ Past' \/ Arming'
      BY <1>1, <1>2, <1>4, <1>6, <1>7 DEF FireInv, LimitInv, Active
    <2>3. QED
      BY <2>1, <2>2 DEF LimitInv
  <1>11. QED
    BY <1>8, <1>9, <1>10 DEF FireInv

LEMMA WorldFire ==
    ASSUME TypeInv, ExclInv, FireInv, Steady, ListTasks \/ Reconcile \/ Tick \/ Crash
    PROVE  FireInv'
PROOF
  <1>1. CASE ListTasks \/ Reconcile
    <2>1. /\ UNCHANGED <<rec, tasks, trig, ran, started>> /\ pc["rearm"] \in {"idle", "read"}
          /\ \E q, r : GoTo("rearm", q, r)
      BY <1>1 DEF ListTasks, Reconcile
    <2>2. "rearm" \in Thread \ Task /\ \E q : Quiet("rearm", q)
      BY <2>1, QuietGo, Threads DEF Thinned
    <2>3. QED
      BY <2>1, <2>2, FireAside DEF Arms
  <1>2. CASE Crash
    BY <1>2 DEF Crash, Steady, TypeInv, TypeOK
  <1>3. QED
    BY <1>1, <1>2, TickFire

SteadyInv == TypeInv /\ ExclInv /\ ChainInv /\ FitInv /\ FireInv

LEMMA InitSteady == Init => SteadyInv
PROOF
  <1> SUFFICES ASSUME Init PROVE SteadyInv
    OBVIOUS
  <1>1. /\ rec = None /\ started = 0 /\ Chains = {} /\ crashes = 0
        /\ (\A p \in Thread : pc[p] = "idle")
        /\ (\A t \in Task : trig[t] = "schedule" /\ tasks[t] = None)
        /\ \A o \in Owner : op[o] = "create"
    BY Threads DEF Init, Chains, Scheduled
  <1>2. "idle" \notin Window /\ Task \subseteq Thread /\ MaxRuns \in Nat
    BY Threads, StandingAssumption DEF Window
  <1>3. ChainInv
    <2>1. Few(Chains \ {Named(rec)}, 0)
      BY <1>1, FS_EmptySet DEF Few
    <2>2. QED
      BY <1>1, <1>2, <2>1 DEF ChainInv
  <1>4. FitInv /\ TimeInv
    BY <1>1, <1>2 DEF FitInv, TimeInv, Busy
  <1>5. AskInv /\ LimitInv
    BY <1>1, <1>2 DEF AskInv, AskCopies, LimitInv, RunCopies, Busy, Pending, Active, Scheduled
  <1>6. QED
    BY <1>3, <1>4, <1>5, InitTypes, InitApart DEF SteadyInv, FireInv

LEMMA SteadyStep == Steady /\ SteadyInv /\ [Next]_vars => SteadyInv'
PROOF
  <1> SUFFICES ASSUME Steady, SteadyInv, [Next]_vars PROVE SteadyInv'
    OBVIOUS
  <1> USE DEF SteadyInv
  <1>0. Exclusive /\ "recreate" \notin Ops
    BY DEF Steady
  <1>1. TypeInv' /\ ExclInv'
    BY <1>0, TypeStep, ApartStep
  <1>2. CASE UNCHANGED vars
    <2>1. ChainInv' /\ FitInv'
      BY <1>2 DEF vars, ChainInv, AtRest, Chains, Scheduled, Named, Held, FitInv, Fits, Copy
    <2>2. TimeInv'
      BY <1>2 DEF vars, FireInv, TimeInv, Busy, Scheduled
    <2>3. AskInv'
      BY <1>2 DEF vars, FireInv, AskInv, AskCopies, Busy, Past, Pending, Chains, Scheduled
    <2>4. LimitInv'
      BY <1>2 DEF vars, FireInv, LimitInv, RunCopies, Busy, Past, Active, Arming, Arms, Chains, Scheduled
    <2>5. QED
      BY <1>1, <2>1, <2>2, <2>3, <2>4 DEF FireInv
  <1>3. ASSUME NEW o \in Owner, Served(o) \/ \E k \in Ops : Request(o, k)
        PROVE  ChainInv' /\ FitInv' /\ FireInv'
    BY <1>0, <1>3, OwnerChain, OwnerFit, OwnerFire
  <1>4. ASSUME NEW p \in Thread, Shared(p) PROVE ChainInv' /\ FitInv' /\ FireInv'
    BY <1>0, <1>4, SharedChain, SharedFit, SharedFire
  <1>5. ASSUME NEW t \in Task, Fire(t) \/ Handler(t) PROVE ChainInv' /\ FitInv' /\ FireInv'
    BY <1>0, <1>5, HandlerChain, HandlerFit, HandlerFire, LaunchFire
  <1>6. ASSUME ListTasks \/ Reconcile \/ Tick \/ Crash PROVE ChainInv' /\ FitInv' /\ FireInv'
    BY <1>0, <1>6, WorldChain, WorldFit, WorldFire
  <1>7. QED
    BY <1>1, <1>2, <1>3, <1>4, <1>5, <1>6 DEF Next

\* For any number of owners and tasks, and any timing whose gaps are longer than
\* a run: no two scheduled runs are under way together, although the reconciler,
\* an edit and a resume re-arm mid-fire.  Runs may fail, targets be lost and goals
\* judged, as long as what an attempt asks for is later than its own fire can last
\* and the owner makes no runs beside the chain.
THEOREM RunsDoNotOverlap == Steady => (Spec => []NoOverlap)
PROOF
  <1> SUFFICES ASSUME Steady PROVE Spec => []NoOverlap
    OBVIOUS
  <1>1. SteadyInv => NoOverlap
    <2> SUFFICES ASSUME SteadyInv PROVE NoOverlap
      OBVIOUS
    <2> DEFINE R == {t \in Task : pc[t] = "run" /\ trig[t] = "schedule"}
    <2>1. \A t, u \in R : t = u
      BY DEF SteadyInv, FireInv, TimeInv, Busy
    <2>2. Cardinality(R) <= 1
      <3>1. CASE R = {}
        BY <3>1, FS_EmptySet
      <3>2. CASE R # {}
        <4>1. PICK t : R = {t}
          BY <2>1, <3>2
        <4>2. QED
          BY <4>1, FS_Singleton
      <3>3. QED
        BY <3>1, <3>2
    <2>3. QED
      BY <2>2 DEF NoOverlap
  <1>2. QED
    BY <1>1, InitSteady, SteadyStep, PTL DEF Spec

\* In the same setting a schedule with MaxRuns gets that many scheduled runs and
\* no more, whatever its owner pauses, resumes, edits, deletes and creates again,
\* and whatever a judged run writes back: every path that arms the next one reads
\* a count the run before it is in.
THEOREM RunsStayWithinLimit == Steady => (Spec => []RunsWithinLimit)
PROOF
  <1> SUFFICES ASSUME Steady PROVE Spec => []RunsWithinLimit
    OBVIOUS
  <1>1. SteadyInv => RunsWithinLimit
    BY DEF SteadyInv, FireInv, LimitInv, RunsWithinLimit
  <1>2. QED
    BY <1>1, InitSteady, SteadyStep, PTL DEF Spec

=============================================================================
