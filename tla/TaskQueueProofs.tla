--------------------------- MODULE TaskQueueProofs ---------------------------
(***************************************************************************)
(* Proofs about TaskQueue for every finite set of runs, every number of    *)
(* slots and any number of crashes: the slot counter bounds the runs that  *)
(* work, nobody waits while a slot is free, nobody is overtaken, an        *)
(* accepted run keeps its entry until it is settled, and the types.        *)
(***************************************************************************)
EXTENDS TaskQueue, SequenceTheorems, FiniteSetTheorems, TLAPS

\* Where a run can be while it is in the queue or just promoted.
Waiter(r) == pc[r] \in {"enqueued", "waiting", "leaving"}

\* The queue holds each waiting run once, and no promoted one; a promoted run
\* has not started yet.
QueueInv ==
    /\ queue \in Seq(Run) /\ ready \in SUBSET Run
    /\ \A i \in 1..Len(queue) : Waiter(queue[i]) /\ queue[i] \notin ready
    /\ \A i, j \in 1..Len(queue) : queue[i] = queue[j] => i = j
    /\ \A r \in ready : Waiter(r)
    /\ pc \in [Run -> Pc]
    /\ ~up => /\ queue = <<>> /\ ready = {} /\ active = 0
              /\ \A r \in Run : pc[r] \in {"idle", "ended"}

SlotInv == active \in Nat /\ SlotBound /\ NoIdleSlot

\* append(s[:k], s[k+1:]...) drops the k-th element and shifts the later ones.
LEMMA RemoveAtFacts ==
    ASSUME NEW S, NEW s \in Seq(S), NEW k \in 1..Len(s)
    PROVE  /\ RemoveAt(s, k) \in Seq(S)
           /\ Len(RemoveAt(s, k)) = Len(s) - 1
           /\ \A i \in 1..(Len(s) - 1) :
                RemoveAt(s, k)[i] = IF i < k THEN s[i] ELSE s[i + 1]
  <1> DEFINE a == SubSeq(s, 1, k - 1)
             b == SubSeq(s, k + 1, Len(s))
  <1>1. /\ a \in Seq(S) /\ Len(a) = k - 1
        /\ \A i \in 1..(k - 1) : a[i] = s[i]
    BY SubSeqProperties
  <1>2. /\ b \in Seq(S) /\ Len(b) = Len(s) - k
        /\ \A i \in 1..(Len(s) - k) : b[i] = s[k + i]
    <2>1. \A i \in (k + 1)..Len(s) : i \in 1..Len(s)
      OBVIOUS
    <2>2. CASE k = Len(s)
      BY <2>2, SubSeqEmpty
    <2>3. CASE k # Len(s)
      BY <2>3, SubSeqProperties
    <2>4. QED
      BY <2>2, <2>3
  <1>3. RemoveAt(s, k) = a \o b
    BY DEF RemoveAt
  <1> HIDE DEF a, b
  <1>4. /\ a \o b \in Seq(S) /\ Len(a \o b) = Len(a) + Len(b)
        /\ \A i \in 1..(Len(a) + Len(b)) :
             (a \o b)[i] = IF i <= Len(a) THEN a[i] ELSE b[i - Len(a)]
    BY <1>1, <1>2, ConcatProperties
  <1> DEFINE t == RemoveAt(s, k)
  <1>5. t \in Seq(S) /\ Len(t) = Len(s) - 1
    BY <1>1, <1>2, <1>3, <1>4
  <1>6. ASSUME NEW i \in 1..(Len(s) - 1)
        PROVE  t[i] = IF i < k THEN s[i] ELSE s[i + 1]
    <2>1. t[i] = IF i <= k - 1 THEN a[i] ELSE b[i - (k - 1)]
      BY <1>1, <1>2, <1>3, <1>4
    <2>2. CASE i < k
      BY <2>1, <2>2, <1>1
    <2>3. CASE i >= k
      <3>1. i - (k - 1) \in 1..(Len(s) - k) /\ k + (i - (k - 1)) = i + 1
        BY <2>3
      <3>2. b[i - (k - 1)] = s[i + 1]
        BY <3>1, <1>2
      <3>3. QED
        BY <2>1, <2>3, <3>2
    <2>4. QED
      BY <2>2, <2>3
  <1>7. QED
    BY <1>5, <1>6

\* Removing one run from the queue leaves the others, in order.
LEMMA WithoutFacts ==
    ASSUME QueueInv, NEW r \in Run
    PROVE  /\ Without(r) \in Seq(Run)
           /\ \A i \in 1..Len(Without(r)) :
                Without(r)[i] # r /\ \E j \in 1..Len(queue) : Without(r)[i] = queue[j]
           /\ \A i, j \in 1..Len(Without(r)) : Without(r)[i] = Without(r)[j] => i = j
           /\ queue = <<>> => Without(r) = <<>>
  <1>1. CASE r \notin Queued
    BY <1>1 DEF QueueInv, Without, Queued, ToSet
  <1>2. CASE r \in Queued
    <2>1. PICK k \in 1..Len(queue) : queue[k] = r
      BY <1>2 DEF Queued, ToSet, QueueInv
    <2>2. {i \in 1..Len(queue) : queue[i] = r} = {k}
      BY <2>1 DEF QueueInv
    <2>3. Index(r) = k
      BY <2>1, <2>2 DEF Index, SelectInSeq, Min
    <2>4. Without(r) = RemoveAt(queue, k)
      BY <1>2, <2>3 DEF Without
    <2>5. queue \in Seq(Run)
      BY DEF QueueInv
    <2>6. /\ Without(r) \in Seq(Run) /\ Len(Without(r)) = Len(queue) - 1
          /\ \A i \in 1..(Len(queue) - 1) :
               Without(r)[i] = IF i < k THEN queue[i] ELSE queue[i + 1]
      BY <2>4, <2>5, RemoveAtFacts
    <2> DEFINE w == Without(r)
               at(i) == IF i < k THEN i ELSE i + 1
    <2>7. ASSUME NEW i \in 1..Len(w)
          PROVE  at(i) \in 1..Len(queue) /\ at(i) # k /\ w[i] = queue[at(i)]
      BY <2>5, <2>6
    <2>8. ASSUME NEW i \in 1..Len(w), NEW j \in 1..Len(w), at(i) = at(j)
          PROVE  i = j
      BY <2>8, <2>6, <2>5
    <2>9. queue # <<>>
      BY <2>1
    <2> HIDE DEF w, at
    <2>10. QED
      BY <2>1, <2>5, <2>6, <2>7, <2>8, <2>9 DEF QueueInv, w
  <1>3. QED
    BY <1>1, <1>2

\* The queue stays a list of distinct waiting runs: only a run that is not a
\* waiter joins it, and a run leaves it before it starts or gives up for good.
LEMMA QueueStep ==
    ASSUME QueueInv, [Next]_vars
    PROVE  QueueInv'
  <1> USE DEF QueueInv, Waiter, Goto, Pc
  <1>1. ASSUME NEW r \in Run, RunPipelineAsync(r) PROVE QueueInv'
    BY <1>1 DEF RunPipelineAsync
  <1>2. ASSUME NEW r \in Run, QueueAddScan(r) PROVE QueueInv'
    BY <1>2 DEF QueueAddScan
  <1>3. ASSUME NEW r \in Run, QueueAddSet(r) PROVE QueueInv'
    BY <1>3 DEF QueueAddSet
  <1>4. ASSUME NEW r \in Run, Acquire(r) PROVE QueueInv'
    <2>1. CASE active < MaxConcurrentTasks
      BY <1>4, <2>1 DEF Acquire
    <2>2. CASE ~(active < MaxConcurrentTasks)
      <3>1. /\ queue' = Append(queue, r) /\ ready' = ready /\ up' = up
            /\ pc' = [pc EXCEPT ![r] = "enqueued"] /\ pc[r] = "acquire"
        BY <1>4, <2>2 DEF Acquire
      <3>2. /\ queue' \in Seq(Run) /\ Len(queue') = Len(queue) + 1
            /\ \A i \in 1..Len(queue) : queue'[i] = queue[i]
            /\ queue'[Len(queue) + 1] = r
        BY <3>1, AppendProperties
      <3>3. \A i \in 1..Len(queue) : queue[i] # r /\ queue[i] \in Run
        BY <3>1
      <3>4. r \notin ready /\ up
        BY <3>1
      <3>5. QED
        BY <3>1, <3>2, <3>3, <3>4
    <2>3. QED
      BY <2>1, <2>2
  <1>5. ASSUME NEW r \in Run, OnQueue(r) PROVE QueueInv'
    BY <1>5 DEF OnQueue
  <1>6. ASSUME NEW r \in Run, SelectReady(r) PROVE QueueInv'
    <2>1. \A i \in 1..Len(queue) : queue[i] # r
      BY <1>6 DEF SelectReady
    <2>2. QED
      BY <1>6, <2>1 DEF SelectReady
  <1>7. ASSUME NEW r \in Run, SelectDone(r) PROVE QueueInv'
    BY <1>7 DEF SelectDone
  <1>8. ASSUME NEW r \in Run, LeaveQueue(r) PROVE QueueInv'
    <2>1. /\ queue' = Without(r) /\ ready' = ready \ {r} /\ up' = up
          /\ pc' = [pc EXCEPT ![r] = "dropping"] /\ pc[r] = "leaving"
      BY <1>8 DEF LeaveQueue
    <2> DEFINE w == Without(r)
    <2>2. /\ w \in Seq(Run)
          /\ \A i \in 1..Len(w) : w[i] # r /\ \E j \in 1..Len(queue) : w[i] = queue[j]
          /\ \A i, j \in 1..Len(w) : w[i] = w[j] => i = j
          /\ queue = <<>> => w = <<>>
      BY WithoutFacts
    <2> HIDE DEF w
    <2>3. \A i \in 1..Len(w) : Waiter(w[i]) /\ w[i] \notin ready
      BY <2>2
    <2>4. QED
      BY <2>1, <2>2, <2>3 DEF w
  <1>9. ASSUME NEW r \in Run, SelectNotify(r) PROVE QueueInv'
    BY <1>9 DEF SelectNotify
  <1>10. ASSUME NEW r \in Run, WorkReturns(r) PROVE QueueInv'
    BY <1>10 DEF WorkReturns
  <1>11. ASSUME NEW r \in Run, WorkPanics(r) PROVE QueueInv'
    BY <1>11 DEF WorkPanics
  <1>12. ASSUME NEW r \in Run, Release(r) PROVE QueueInv'
    <2>1. /\ pc[r] \in {"finishing", "panicking"} /\ up' = up /\ up
          /\ \A i \in 1..Len(queue) : queue[i] # r
          /\ r \notin ready
          /\ pc' = [pc EXCEPT ![r] = IF pc[r] = "panicking" THEN "ended" ELSE "removing"]
      BY <1>12 DEF Release
    <2>2. CASE queue = <<>>
      BY <1>12, <2>1, <2>2 DEF Release
    <2>3. CASE queue # <<>>
      <3>1. queue' = Tail(queue) /\ ready' = ready \cup {Head(queue)}
        BY <1>12, <2>3 DEF Release
      <3>2. /\ Tail(queue) \in Seq(Run) /\ Len(Tail(queue)) = Len(queue) - 1
            /\ \A i \in 1..Len(Tail(queue)) : Tail(queue)[i] = queue[i + 1]
            /\ Head(queue) = queue[1] /\ 1 \in 1..Len(queue)
        BY <2>3, HeadTailProperties
      <3>3. QED
        BY <2>1, <3>1, <3>2
    <2>4. QED
      BY <2>2, <2>3
  <1>13. ASSUME NEW r \in Run, QueueRemove(r) PROVE QueueInv'
    BY <1>13 DEF QueueRemove
  <1>14. ASSUME NEW r \in Run, CancelSession(r) PROVE QueueInv'
    BY <1>14 DEF CancelSession
  <1>15. ASSUME NEW r \in Run, CancelQueued(r) PROVE QueueInv'
    <2>1. queue' = Without(r) /\ UNCHANGED <<ready, up, pc, active>>
      BY <1>15 DEF CancelQueued
    <2> DEFINE w == Without(r)
    <2>2. /\ w \in Seq(Run)
          /\ \A i \in 1..Len(w) : w[i] # r /\ \E j \in 1..Len(queue) : w[i] = queue[j]
          /\ \A i, j \in 1..Len(w) : w[i] = w[j] => i = j
          /\ queue = <<>> => w = <<>>
      BY WithoutFacts
    <2> HIDE DEF w
    <2>3. \A i \in 1..Len(w) : Waiter(w[i]) /\ w[i] \notin ready
      BY <2>2
    <2>4. QED
      BY <2>1, <2>2, <2>3 DEF w
  <1>16. ASSUME NEW r \in Run, RestorePipeline(r) PROVE QueueInv'
    BY <1>16 DEF RestorePipeline
  <1>17. ASSUME NEW r \in Run, RestoreGone(r) PROVE QueueInv'
    BY <1>17 DEF RestoreGone
  <1>18. CASE Crash
    BY <1>18 DEF Crash
  <1>19. CASE QueueRestore
    BY <1>19 DEF QueueRestore
  <1>20. CASE UNCHANGED vars
    BY <1>20 DEF vars
  <1>21. QED
    BY <1>1, <1>2, <1>3, <1>4, <1>5, <1>6, <1>7, <1>8, <1>9, <1>10, <1>11,
       <1>12, <1>13, <1>14, <1>15, <1>16, <1>17, <1>18, <1>19, <1>20
    DEF Next, RunStep

\* Fewer holders count no more.
LEMMA HoldingShrinks ==
    ASSUME QueueInv, SlotInv, Holding' \subseteq Holding
    PROVE  Cardinality(Holding') <= active
  <1>1. IsFiniteSet(Holding) /\ Cardinality(Holding) \in Nat
    <2>1. Holding \in SUBSET Run
      BY DEF Holding, QueueInv
    <2>2. QED
      BY <2>1, TaskQueueAssumption, FS_Subset, FS_CardinalityType
  <1>2. Cardinality(Holding') <= Cardinality(Holding) /\ Cardinality(Holding') \in Nat
    BY <1>1, FS_Subset, FS_CardinalityType
  <1>3. QED
    BY <1>1, <1>2 DEF SlotInv, SlotBound

\* The counter keeps counting every holder: a slot is taken with a step of the
\* counter, passed on without one, and given back only when nobody waits.
LEMMA SlotStep ==
    ASSUME QueueInv, SlotInv, [Next]_vars
    PROVE  SlotInv'
  <1> USE TaskQueueAssumption DEF SlotInv, NoIdleSlot, Goto
  <1>a. /\ Holding \in SUBSET Run /\ IsFiniteSet(Holding)
        /\ Cardinality(Holding) \in Nat
    <2>1. Holding \in SUBSET Run
      BY DEF Holding, QueueInv
    <2>2. QED
      BY <2>1, FS_Subset, FS_CardinalityType
  <1>1. ASSUME NEW r \in Run, RunPipelineAsync(r) PROVE SlotInv'
    <2>1. Holding' \subseteq Holding /\ UNCHANGED <<active, queue>>
      BY <1>1 DEF RunPipelineAsync, Holding, QueueInv, Pc
    <2>2. QED
      BY <2>1, HoldingShrinks DEF SlotBound
  <1>2. ASSUME NEW r \in Run, QueueAddScan(r) PROVE SlotInv'
    <2>1. Holding' \subseteq Holding /\ UNCHANGED <<active, queue>>
      BY <1>2 DEF QueueAddScan, Holding, QueueInv, Pc
    <2>2. QED
      BY <2>1, HoldingShrinks DEF SlotBound
  <1>3. ASSUME NEW r \in Run, QueueAddSet(r) PROVE SlotInv'
    <2>1. Holding' \subseteq Holding /\ UNCHANGED <<active, queue>>
      BY <1>3 DEF QueueAddSet, Holding, QueueInv, Pc
    <2>2. QED
      BY <2>1, HoldingShrinks DEF SlotBound
  <1>4. ASSUME NEW r \in Run, Acquire(r) PROVE SlotInv'
    <2>1. CASE active < MaxConcurrentTasks
      <3>1. /\ active' = active + 1 /\ queue' = queue /\ ready' = ready
            /\ pc' = [pc EXCEPT ![r] = "running"]
        BY <1>4, <2>1 DEF Acquire
      <3>2. Holding' \subseteq Holding \cup {r}
        BY <3>1 DEF Holding, QueueInv
      <3>3. /\ IsFiniteSet(Holding \cup {r})
            /\ Cardinality(Holding \cup {r}) <= Cardinality(Holding) + 1
            /\ Cardinality(Holding \cup {r}) \in Nat
        BY <1>a, FS_AddElement, FS_CardinalityType
      <3>4. Cardinality(Holding') <= Cardinality(Holding \cup {r}) /\ Cardinality(Holding') \in Nat
        BY <3>2, <3>3, FS_Subset, FS_CardinalityType
      <3>5. QED
        BY <1>a, <2>1, <3>1, <3>3, <3>4 DEF SlotBound
    <2>2. CASE ~(active < MaxConcurrentTasks)
      <3>1. Holding' \subseteq Holding /\ active' = active
        BY <1>4, <2>2 DEF Acquire, Holding, QueueInv, Pc
      <3>2. QED
        BY <3>1, <2>2, HoldingShrinks DEF SlotBound
    <2>3. QED
      BY <2>1, <2>2
  <1>5. ASSUME NEW r \in Run, OnQueue(r) PROVE SlotInv'
    <2>1. Holding' \subseteq Holding /\ UNCHANGED <<active, queue>>
      BY <1>5 DEF OnQueue, Holding, QueueInv, Pc
    <2>2. QED
      BY <2>1, HoldingShrinks DEF SlotBound
  <1>6. ASSUME NEW r \in Run, SelectReady(r) PROVE SlotInv'
    <2>1. Holding' \subseteq Holding /\ UNCHANGED <<active, queue>>
      BY <1>6 DEF SelectReady, Waiter, Holding, QueueInv, Pc
    <2>2. QED
      BY <2>1, HoldingShrinks DEF SlotBound
  <1>7. ASSUME NEW r \in Run, SelectDone(r) PROVE SlotInv'
    <2>1. Holding' \subseteq Holding /\ UNCHANGED <<active, queue>>
      BY <1>7 DEF SelectDone, Holding, QueueInv, Pc
    <2>2. QED
      BY <2>1, HoldingShrinks DEF SlotBound
  <1>8. ASSUME NEW r \in Run, LeaveQueue(r) PROVE SlotInv'
    <2>1. Holding' \subseteq Holding /\ active' = active /\ queue' = Without(r)
      BY <1>8 DEF LeaveQueue, Holding, QueueInv, Pc
    <2>2. QED
      BY <2>1, HoldingShrinks, WithoutFacts DEF SlotBound
  <1>9. ASSUME NEW r \in Run, SelectNotify(r) PROVE SlotInv'
    <2>1. Holding' \subseteq Holding /\ UNCHANGED <<active, queue>>
      BY <1>9 DEF SelectNotify, Holding, QueueInv, Pc
    <2>2. QED
      BY <2>1, HoldingShrinks DEF SlotBound
  <1>10. ASSUME NEW r \in Run, WorkReturns(r) PROVE SlotInv'
    <2>1. Holding' \subseteq Holding /\ UNCHANGED <<active, queue>>
      BY <1>10 DEF WorkReturns, Holding, QueueInv, Pc
    <2>2. QED
      BY <2>1, HoldingShrinks DEF SlotBound
  <1>11. ASSUME NEW r \in Run, WorkPanics(r) PROVE SlotInv'
    <2>1. Holding' \subseteq Holding /\ UNCHANGED <<active, queue>>
      BY <1>11 DEF WorkPanics, Holding, QueueInv, Pc
    <2>2. QED
      BY <2>1, HoldingShrinks DEF SlotBound
  <1>12. ASSUME NEW r \in Run, Release(r) PROVE SlotInv'
    <2>1. /\ r \in Holding /\ r \notin ready
          /\ pc' = [pc EXCEPT ![r] = IF pc[r] = "panicking" THEN "ended" ELSE "removing"]
      BY <1>12 DEF Release, Holding, QueueInv, Waiter
    <2>2. /\ IsFiniteSet(Holding \ {r})
          /\ Cardinality(Holding \ {r}) = Cardinality(Holding) - 1
      BY <1>a, <2>1, FS_RemoveElement
    <2>3. CASE queue = <<>>
      <3>1. active' = active - 1 /\ queue' = queue /\ ready' = ready
        BY <1>12, <2>3 DEF Release
      <3>2. Holding' \subseteq Holding \ {r}
        BY <2>1, <3>1 DEF Holding, QueueInv
      <3>3. Cardinality(Holding') <= Cardinality(Holding) - 1 /\ Cardinality(Holding') \in Nat
        BY <2>2, <3>2, FS_Subset, FS_CardinalityType
      <3>4. QED
        BY <1>a, <2>3, <3>1, <3>3 DEF SlotBound
    <2>4. CASE queue # <<>>
      <3>1. active' = active /\ queue' = Tail(queue) /\ ready' = ready \cup {Head(queue)}
        BY <1>12, <2>4 DEF Release
      <3>2. Holding' \subseteq (Holding \ {r}) \cup {Head(queue)}
        BY <2>1, <3>1 DEF Holding, QueueInv
      <3>3. /\ IsFiniteSet((Holding \ {r}) \cup {Head(queue)})
            /\ Cardinality((Holding \ {r}) \cup {Head(queue)}) <= Cardinality(Holding)
            /\ Cardinality((Holding \ {r}) \cup {Head(queue)}) \in Nat
        <4> DEFINE H == Holding \ {r}
        <4>1. IsFiniteSet(H) /\ Cardinality(H) = Cardinality(Holding) - 1
          BY <2>2
        <4> HIDE DEF H
        <4>2. /\ IsFiniteSet(H \cup {Head(queue)})
              /\ Cardinality(H \cup {Head(queue)}) =
                   IF Head(queue) \in H THEN Cardinality(H) ELSE Cardinality(H) + 1
          BY <4>1, FS_AddElement
        <4>3. QED
          BY <1>a, <4>1, <4>2, FS_CardinalityType DEF H
      <3>4. /\ Cardinality(Holding') <= Cardinality((Holding \ {r}) \cup {Head(queue)})
            /\ Cardinality(Holding') \in Nat
        BY <3>2, <3>3, FS_Subset, FS_CardinalityType
      <3>5. QED
        BY <1>a, <2>4, <3>1, <3>3, <3>4 DEF SlotBound
    <2>5. QED
      BY <2>3, <2>4
  <1>13. ASSUME NEW r \in Run, QueueRemove(r) PROVE SlotInv'
    <2>1. Holding' \subseteq Holding /\ UNCHANGED <<active, queue>>
      BY <1>13 DEF QueueRemove, Holding, QueueInv, Pc
    <2>2. QED
      BY <2>1, HoldingShrinks DEF SlotBound
  <1>14. ASSUME NEW r \in Run, CancelSession(r) PROVE SlotInv'
    <2>1. Holding' \subseteq Holding /\ UNCHANGED <<active, queue>>
      BY <1>14 DEF CancelSession, Holding, QueueInv, Pc
    <2>2. QED
      BY <2>1, HoldingShrinks DEF SlotBound
  <1>15. ASSUME NEW r \in Run, CancelQueued(r) PROVE SlotInv'
    <2>1. Holding' \subseteq Holding /\ active' = active /\ queue' = Without(r)
      BY <1>15 DEF CancelQueued, Holding
    <2>2. QED
      BY <2>1, HoldingShrinks, WithoutFacts DEF SlotBound
  <1>16. ASSUME NEW r \in Run, RestorePipeline(r) PROVE SlotInv'
    <2>1. Holding' \subseteq Holding /\ UNCHANGED <<active, queue>>
      BY <1>16 DEF RestorePipeline, Holding, QueueInv, Pc
    <2>2. QED
      BY <2>1, HoldingShrinks DEF SlotBound
  <1>17. ASSUME NEW r \in Run, RestoreGone(r) PROVE SlotInv'
    <2>1. Holding' \subseteq Holding /\ UNCHANGED <<active, queue>>
      BY <1>17 DEF RestoreGone, Holding, QueueInv, Pc
    <2>2. QED
      BY <2>1, HoldingShrinks DEF SlotBound
  <1>18. CASE Crash
    <2>1. Holding' = {} /\ active' = 0 /\ queue' = <<>>
      BY <1>18 DEF Crash, Holding
    <2>2. QED
      BY <2>1, FS_EmptySet DEF SlotBound
  <1>19. CASE QueueRestore
    <2>1. Holding' \subseteq Holding /\ UNCHANGED <<active, queue>>
      BY <1>19 DEF QueueRestore, Holding, QueueInv, Pc
    <2>2. QED
      BY <2>1, HoldingShrinks DEF SlotBound
  <1>20. CASE UNCHANGED vars
    <2>1. Holding' \subseteq Holding /\ UNCHANGED <<active, queue>>
      BY <1>20 DEF vars, Holding
    <2>2. QED
      BY <2>1, HoldingShrinks DEF SlotBound
  <1>21. QED
    BY <1>1, <1>2, <1>3, <1>4, <1>5, <1>6, <1>7, <1>8, <1>9, <1>10, <1>11,
       <1>12, <1>13, <1>14, <1>15, <1>16, <1>17, <1>18, <1>19, <1>20
    DEF Next, RunStep

\* The initial state satisfies both invariants.
LEMMA QueueInit == Init => QueueInv /\ SlotInv
  <1> SUFFICES ASSUME Init PROVE QueueInv /\ SlotInv
    OBVIOUS
  <1>1. QueueInv
    BY DEF Init, QueueInv, Pc
  <1>2. Holding = {}
    BY DEF Init, Holding
  <1>3. QED
    BY <1>1, <1>2, FS_EmptySet, TaskQueueAssumption
    DEF Init, SlotInv, SlotBound, NoIdleSlot

\* The queue and the slot counter stay consistent in every reachable state.
THEOREM QueueInvariance == Spec => [](QueueInv /\ SlotInv)
  <1>1. QueueInv /\ SlotInv /\ [Next]_vars => (QueueInv /\ SlotInv)'
    BY QueueStep, SlotStep
  <1>2. QED
    BY <1>1, QueueInit, PTL DEF Spec

\* TaskQueue never lets more pipelines work than MaxConcurrentTasks, whatever
\* is cancelled, promoted, panics or crashes, for any number of runs and slots.
THEOREM ConcurrencyBounded == Spec => []SlotBound
  <1>1. QueueInv /\ SlotInv => SlotBound
    BY DEF SlotInv
  <1>2. QED
    BY <1>1, QueueInvariance, PTL

\* Nobody waits in TaskQueue.queue while Acquire would find a slot free.
THEOREM NobodyWaitsForFreeSlot == Spec => []NoIdleSlot
  <1>1. QueueInv /\ SlotInv => NoIdleSlot
    BY DEF SlotInv
  <1>2. QED
    BY <1>1, QueueInvariance, PTL

-----------------------------------------------------------------------------
(* FIFO *)

\* Removing one run from the queue keeps the order of the others.
LEMMA WithoutOrder ==
    ASSUME QueueInv, NEW r \in Run,
           NEW i \in 1..Len(Without(r)), NEW j \in 1..Len(Without(r))
    PROVE  \E k, l \in 1..Len(queue) :
              /\ Without(r)[i] = queue[k] /\ Without(r)[j] = queue[l]
              /\ k < l => i < j
  <1>1. CASE r \notin Queued
    BY <1>1 DEF Without
  <1>2. CASE r \in Queued
    <2>1. PICK m \in 1..Len(queue) : queue[m] = r
      BY <1>2 DEF Queued, ToSet, QueueInv
    <2>2. {n \in 1..Len(queue) : queue[n] = r} = {m}
      BY <2>1 DEF QueueInv
    <2>3. Index(r) = m
      BY <2>1, <2>2 DEF Index, SelectInSeq, Min
    <2>4. queue \in Seq(Run)
      BY DEF QueueInv
    <2>5. /\ Len(Without(r)) = Len(queue) - 1
          /\ \A n \in 1..(Len(queue) - 1) :
               Without(r)[n] = IF n < m THEN queue[n] ELSE queue[n + 1]
      BY <1>2, <2>3, <2>4, RemoveAtFacts DEF Without
    <2> DEFINE at(n) == IF n < m THEN n ELSE n + 1
    <2>6. /\ at(i) \in 1..Len(queue) /\ at(j) \in 1..Len(queue)
          /\ at(i) < at(j) => i < j
      <3>1. /\ Len(queue) \in Nat /\ i \in Nat /\ j \in Nat /\ m \in Nat
            /\ 1 <= i /\ i <= Len(queue) - 1 /\ 1 <= j /\ j <= Len(queue) - 1
        BY <2>4, <2>5
      <3>2. CASE i < m
        BY <3>1, <3>2
      <3>3. CASE ~(i < m)
        BY <3>1, <3>3
      <3>4. QED
        BY <3>2, <3>3
    <2>7. Without(r)[i] = queue[at(i)] /\ Without(r)[j] = queue[at(j)]
      BY <2>4, <2>5
    <2>8. QED
      BY <2>6, <2>7
  <1>3. QED
    BY <1>1, <1>2

\* The runs a run found waiting joined the queue before it and do not come
\* back to it; those still waiting are ahead of it, and of one that got its
\* slot none is.  A death forgets them all.
FifoInv ==
    /\ ahead \in [Run -> SUBSET Run]
    /\ ~up => \A r \in Run : ahead[r] = {}
    /\ \A r \in Run : \A q \in ahead[r] :
          pc[q] \notin {"idle", "registered", "adding", "acquire", "restoring"}
    /\ \A i, j \in 1..Len(queue) : queue[j] \in ahead[queue[i]] => j < i
    /\ NoOvertaking

\* A step after which no run has more before it, nobody new waits, and the
\* slots pass to nobody: only the places of the runs that wait remain.
LEMMA FifoQuiet ==
    ASSUME QueueInv, FifoInv, UNCHANGED <<up, ahead>>,
           Holding' \subseteq Holding, UNCHANGED queue,
           \A r \in Run : pc'[r] \in {"idle", "registered", "adding", "acquire", "restoring"}
                             => pc[r] \in {"idle", "registered", "adding", "acquire", "restoring"}
    PROVE  FifoInv'
  BY DEF FifoInv, NoOvertaking, Queued

\* A run leaves the queue, wherever it stands.
LEMMA FifoLeaves ==
    ASSUME QueueInv, FifoInv, NEW r \in Run, queue' = Without(r),
           UNCHANGED <<up, ahead>>, Holding' \subseteq Holding,
           \A q \in Run : pc'[q] \in {"idle", "registered", "adding", "acquire", "restoring"}
                             => pc[q] \in {"idle", "registered", "adding", "acquire", "restoring"}
    PROVE  FifoInv'
  <1> DEFINE w == Without(r)
  <1>1. /\ w \in Seq(Run)
        /\ \A i \in 1..Len(w) : \E j \in 1..Len(queue) : w[i] = queue[j]
    BY WithoutFacts
  <1>2. \A i, j \in 1..Len(w) :
           \E k, l \in 1..Len(queue) : w[i] = queue[k] /\ w[j] = queue[l] /\ (k < l => i < j)
    BY WithoutOrder
  <1> HIDE DEF w
  <1>3. \A i, j \in 1..Len(w) : w[j] \in ahead[w[i]] => j < i
    BY <1>2 DEF FifoInv
  <1>4. Queued' \subseteq Queued
    BY <1>1 DEF Queued, ToSet, w, QueueInv
  <1>5. NoOvertaking'
    BY <1>4 DEF FifoInv, NoOvertaking
  <1>6. QED
    BY <1>3, <1>5 DEF FifoInv, w

LEMMA FifoStep ==
    ASSUME QueueInv, SlotInv, FifoInv, [Next]_vars
    PROVE  FifoInv'
  <1> USE DEF Goto
  <1> DEFINE Before == {"idle", "registered", "adding", "acquire", "restoring"}
  <1>0. pc \in [Run -> Pc]
    BY DEF QueueInv
  <1>1. ASSUME NEW r \in Run,
               \/ RunPipelineAsync(r) \/ QueueAddScan(r) \/ QueueAddSet(r) \/ OnQueue(r)
               \/ SelectReady(r) \/ SelectDone(r) \/ SelectNotify(r) \/ WorkReturns(r)
               \/ WorkPanics(r) \/ QueueRemove(r) \/ CancelSession(r) \/ RestorePipeline(r)
               \/ RestoreGone(r)
        PROVE  FifoInv'
    <2>1. UNCHANGED <<up, ahead, queue>>
      BY <1>1 DEF RunPipelineAsync, QueueAddScan, QueueAddSet, OnQueue, SelectReady, SelectDone,
                  SelectNotify, WorkReturns, WorkPanics, QueueRemove, CancelSession,
                  RestorePipeline, RestoreGone
    <2>2. \A q \in Run : pc'[q] \in Before => pc[q] \in Before
      BY <1>0, <1>1 DEF RunPipelineAsync, QueueAddScan, QueueAddSet, OnQueue, SelectReady,
                  SelectDone, SelectNotify, WorkReturns, WorkPanics, QueueRemove, CancelSession,
                  RestorePipeline, RestoreGone
    <2>3. Holding' \subseteq Holding
      <3>1. CASE SelectReady(r)
        BY <1>0, <3>1 DEF SelectReady, Holding
      <3>2. CASE ~SelectReady(r)
        BY <1>0, <1>1, <3>2 DEF RunPipelineAsync, QueueAddScan, QueueAddSet, OnQueue, SelectDone,
                  SelectNotify, WorkReturns, WorkPanics, QueueRemove, CancelSession,
                  RestorePipeline, RestoreGone, Holding
      <3>3. QED
        BY <3>1, <3>2
    <2>4. QED
      BY <2>1, <2>2, <2>3, FifoQuiet
  <1>2. ASSUME NEW r \in Run, Acquire(r) PROVE FifoInv'
    <2>1. /\ pc[r] = "acquire" /\ ahead' = [ahead EXCEPT ![r] = Queued] /\ UNCHANGED <<up, ready>>
          /\ up
      BY <1>2 DEF Acquire, QueueInv
    <2>2. \A q \in Queued : q \in Run /\ Waiter(q)
      BY DEF QueueInv, Queued, ToSet
    <2>3. /\ ahead' \in [Run -> SUBSET Run]
          /\ \A q \in Run : q # r => ahead'[q] = ahead[q] /\ r \notin ahead[q]
          /\ ahead'[r] = Queued /\ r \notin Queued
      BY <2>1, <2>2 DEF FifoInv, Waiter
    <2>4. PICK s \in {"running", "enqueued"} : pc' = [pc EXCEPT ![r] = s]
      BY <1>2 DEF Acquire
    <2>5. \A p \in Run : \A q \in ahead'[p] : pc'[q] \notin Before
      BY <1>0, <2>2, <2>3, <2>4 DEF FifoInv, Waiter
    <2>6. CASE active < MaxConcurrentTasks
      <3>1. queue' = queue /\ queue = <<>>
        BY <1>2, <2>6, TaskQueueAssumption DEF Acquire, SlotInv, NoIdleSlot
      <3>2. Queued' = {}
        BY <3>1 DEF Queued, ToSet
      <3>3. QED
        BY <2>1, <2>3, <2>5, <3>1, <3>2 DEF FifoInv, NoOvertaking
    <2>7. CASE ~(active < MaxConcurrentTasks)
      <3>1. queue' = Append(queue, r) /\ s = "enqueued"
        BY <1>0, <1>2, <2>4, <2>7 DEF Acquire
      <3>2. /\ Len(queue') = Len(queue) + 1 /\ Len(queue) \in Nat /\ queue'[Len(queue) + 1] = r
            /\ \A i \in 1..Len(queue) : queue'[i] = queue[i] /\ queue[i] \in Run /\ queue[i] # r
        BY <2>1, <3>1, AppendProperties DEF QueueInv, Waiter
      <3>3. ASSUME NEW i \in 1..Len(queue'), NEW j \in 1..Len(queue'),
                   queue'[j] \in ahead'[queue'[i]]
            PROVE  j < i
        <4>1. CASE i = Len(queue) + 1
          <5>1. j # Len(queue) + 1
            BY <2>3, <3>2, <3>3, <4>1
          <5>2. QED
            BY <3>2, <4>1, <5>1
        <4>2. CASE i # Len(queue) + 1
          <5>1. i \in 1..Len(queue) /\ queue'[i] = queue[i] /\ queue[i] # r /\ queue[i] \in Run
            BY <3>2, <4>2
          <5>2. queue'[j] # r
            BY <2>3, <3>3, <5>1
          <5>3. j \in 1..Len(queue) /\ queue'[j] = queue[j]
            BY <3>2, <5>2
          <5>4. QED
            BY <2>3, <3>3, <5>1, <5>3 DEF FifoInv
        <4>3. QED
          BY <4>1, <4>2
      <3>4. Queued' = Queued \cup {r}
        BY <3>2 DEF Queued, ToSet
      <3>5. Holding' = Holding /\ Holding \subseteq Run /\ r \notin Holding
        BY <1>0, <2>1, <2>4, <3>1 DEF Holding, QueueInv, Waiter
      <3>6. NoOvertaking'
        BY <2>3, <3>4, <3>5 DEF FifoInv, NoOvertaking
      <3>7. QED
        BY <2>1, <2>3, <2>5, <3>3, <3>6 DEF FifoInv
    <2>8. QED
      BY <2>6, <2>7
  <1>3. ASSUME NEW r \in Run, LeaveQueue(r) \/ CancelQueued(r) PROVE FifoInv'
    <2>1. /\ queue' = Without(r) /\ UNCHANGED <<up, ahead>> /\ Holding' \subseteq Holding
          /\ \A q \in Run : pc'[q] \in Before => pc[q] \in Before
      BY <1>0, <1>3 DEF LeaveQueue, CancelQueued, Holding
    <2>2. QED
      BY <2>1, FifoLeaves
  <1>4. ASSUME NEW r \in Run, Release(r) PROVE FifoInv'
    <2>1. /\ UNCHANGED <<up, ahead>> /\ \A q \in Run : pc'[q] \in Before => pc[q] \in Before
          /\ pc' = [pc EXCEPT ![r] = IF pc[r] = "panicking" THEN "ended" ELSE "removing"]
      BY <1>0, <1>4 DEF Release
    <2>2. CASE queue = <<>>
      <3>1. UNCHANGED queue /\ Holding' \subseteq Holding
        BY <1>0, <1>4, <2>1, <2>2 DEF Release, Holding
      <3>2. QED
        BY <2>1, <3>1, FifoQuiet
    <2>3. CASE queue # <<>>
      <3>1. queue' = Tail(queue) /\ ready' = ready \cup {Head(queue)}
        BY <1>4, <2>3 DEF Release
      <3>2. /\ Len(Tail(queue)) = Len(queue) - 1 /\ Len(queue) \in Nat
            /\ \A i \in 1..Len(Tail(queue)) : Tail(queue)[i] = queue[i + 1]
            /\ Head(queue) = queue[1] /\ 1 \in 1..Len(queue) /\ queue[1] \in Run
        BY <2>3, HeadTailProperties DEF QueueInv
      <3>3. \A i, j \in 1..Len(queue') : queue'[j] \in ahead[queue'[i]] => j < i
        <4>1. ASSUME NEW i \in 1..Len(queue'), NEW j \in 1..Len(queue'),
                     queue'[j] \in ahead[queue'[i]]
              PROVE  j < i
          <5>1. i + 1 \in 1..Len(queue) /\ j + 1 \in 1..Len(queue)
            BY <3>1, <3>2
          <5>2. j + 1 < i + 1
            BY <3>1, <3>2, <4>1, <5>1 DEF FifoInv
          <5>3. QED
            BY <5>2
        <4>2. QED
          BY <4>1
      <3>4. Queued' \subseteq Queued
        BY <3>1, <3>2 DEF Queued, ToSet
      <3>5. ahead[Head(queue)] \cap Queued' = {}
        <4>1. ASSUME NEW q \in Queued', q \in ahead[Head(queue)] PROVE FALSE
          <5>1. PICK i \in 1..Len(queue') : queue'[i] = q
            <6>1. DOMAIN queue' = 1..Len(queue')
              BY <2>3, <3>1, HeadTailProperties DEF QueueInv
            <6>2. QED
              BY <4>1, <6>1 DEF Queued, ToSet
          <5>2. i + 1 \in 1..Len(queue) /\ queue[i + 1] = q
            BY <3>1, <3>2, <5>1
          <5>3. i + 1 < 1
            BY <3>2, <4>1, <5>2 DEF FifoInv
          <5>4. QED
            BY <5>3
        <4>2. QED
          BY <4>1
      <3>6. Holding' \subseteq Holding \cup {Head(queue)}
        BY <1>0, <2>1, <3>1 DEF Holding
      <3>7. NoOvertaking'
        BY <2>1, <3>4, <3>5, <3>6 DEF FifoInv, NoOvertaking
      <3>8. QED
        BY <2>1, <3>3, <3>7 DEF FifoInv
    <2>4. QED
      BY <2>2, <2>3
  <1>5. CASE Crash
    <2>1. /\ ahead' = [r \in Run |-> {}] /\ queue' = <<>> /\ Holding' \subseteq Run
      BY <1>5 DEF Crash, Holding
    <2>2. QED
      BY <2>1 DEF FifoInv, NoOvertaking
  <1>6. CASE QueueRestore
    <2>1. /\ ahead' = ahead /\ \A r \in Run : ahead[r] = {}
          /\ queue' = <<>> /\ Holding' \subseteq Run
      BY <1>6 DEF QueueRestore, FifoInv, QueueInv, Holding
    <2>2. QED
      BY <2>1 DEF FifoInv, NoOvertaking
  <1>7. CASE UNCHANGED vars
    <2>1. UNCHANGED <<up, ahead, queue, pc>> /\ Holding' \subseteq Holding
      BY <1>7 DEF vars, Holding
    <2>2. QED
      BY <2>1, FifoQuiet
  <1>8. QED
    BY <1>1, <1>2, <1>3, <1>4, <1>5, <1>6, <1>7 DEF Next, RunStep

\* "Other tasks wait in FIFO order": for any number of runs and slots, stops
\* and deaths, nobody gets a slot past a run that already waited when it
\* asked.
THEOREM FirstComeFirstServed == Spec => []NoOvertaking
  <1>1. Init => FifoInv
    BY DEF Init, FifoInv, NoOvertaking, Holding
  <1>2. QueueInv /\ SlotInv /\ FifoInv /\ [Next]_vars => FifoInv'
    BY FifoStep
  <1>3. FifoInv => NoOvertaking
    BY DEF FifoInv
  <1>4. QED
    BY <1>1, <1>2, <1>3, QueueInvariance, PTL DEF Spec

-----------------------------------------------------------------------------
(* Types, and the persistent entries *)

\* A finite set of naturals that is not empty has a largest element.  With a
\* set that has none there is a smallest such set; without one of its elements
\* it has a maximum, and the larger of the two is one of the set itself.
LEMMA MaxExists ==
    ASSUME NEW S \in SUBSET Nat, IsFiniteSet(S), S # {}
    PROVE  Max(S) \in S /\ \A y \in S : Max(S) >= y
  <1> DEFINE Top(U) == \E x \in U : \A y \in U : x >= y
             Bad == {U \in SUBSET S : U # {} /\ ~Top(U)}
  <1>1. Bad = {}
    <2> SUFFICES ASSUME Bad # {} PROVE FALSE
      OBVIOUS
    <2>1. IsWellFoundedOn(StrictSubsetOrdering(S), FiniteSubsetsOf(S))
      BY FS_StrictSubsetOrderingWellFounded
    <2>2. Bad \subseteq FiniteSubsetsOf(S)
      BY FS_Subset DEF FiniteSubsetsOf
    <2> HIDE DEF Bad
    <2>3. PICK U \in Bad : \A V \in Bad : <<V, U>> \notin StrictSubsetOrdering(S)
      BY <2>1, <2>2, WFMin
    <2> USE DEF Bad
    <2>4. PICK x \in U : x \in Nat
      OBVIOUS
    <2> DEFINE V == U \ {x}
    <2>5. <<V, U>> \in StrictSubsetOrdering(S)
      BY <2>4 DEF StrictSubsetOrdering
    <2>6. V \in SUBSET S /\ V \notin Bad
      BY <2>3, <2>5
    <2>7. CASE V = {}
      BY <2>4, <2>7
    <2>8. CASE V # {}
      <3>1. PICK m \in V : \A y \in V : m >= y
        BY <2>6, <2>8
      <3>2. CASE x >= m
        <4>1. \A y \in U : y \in Nat /\ x >= y
          BY <2>4, <3>1, <3>2
        <4>2. QED
          BY <4>1
      <3>3. CASE ~(x >= m)
        <4>1. \A y \in U : m >= y
          BY <2>4, <3>1, <3>3
        <4>2. QED
          BY <3>1, <4>1
      <3>4. QED
        BY <3>2, <3>3
    <2>9. QED
      BY <2>7, <2>8
  <1>2. Top(S)
    BY <1>1
  <1>3. QED
    BY <1>2 DEF Max

\* QueueAdd's next Order is a positive number.
LEMMA MaxOrderNat ==
    ASSUME order \in [Run -> Nat], NEW r \in Run
    PROVE  MaxOrder \in Nat
  <1> DEFINE T == {order[q] : q \in Run}
  <1>1. order \in Surjection(Run, T)
    BY DEF Surjection
  <1>2. IsFiniteSet(T)
    BY <1>1, TaskQueueAssumption, FS_Surjection
  <1>3. T \in SUBSET Nat /\ T # {}
    OBVIOUS
  <1>4. Max(T) \in T
    BY <1>2, <1>3, MaxExists
  <1>5. QED
    BY <1>3, <1>4 DEF MaxOrder

\* The persistent entry: what is about to be written is not 0, a panicked run
\* has ended or is about to, and whoever is between its entry's writing and
\* its end has one.
EntryInv ==
    /\ order \in [Run -> Nat] /\ next \in [Run -> Nat]
    /\ outcome \in [Run -> Outcome]
    /\ \A r \in Run : pc[r] = "adding" => next[r] # 0
    /\ \A r \in Run : pc[r] = "panicking" <=> outcome[r] = "panicked" /\ pc[r] # "ended"
    /\ EntryKept

LEMMA EntryStep ==
    ASSUME QueueInv, SlotInv, EntryInv, [Next]_vars
    PROVE  EntryInv'
  <1> USE DEF EntryInv, EntryKept, Goto, Outcome
  <1>0. pc \in [Run -> Pc]
    BY DEF QueueInv
  <1>1. ASSUME NEW r \in Run, RunPipelineAsync(r) PROVE EntryInv'
    BY <1>0, <1>1 DEF RunPipelineAsync
  <1>2. ASSUME NEW r \in Run, QueueAddScan(r) PROVE EntryInv'
    <2>1. MaxOrder \in Nat
      BY MaxOrderNat
    <2>2. next' = [next EXCEPT ![r] = MaxOrder + 1] /\ MaxOrder + 1 \in Nat /\ MaxOrder + 1 # 0
      BY <1>2, <2>1 DEF QueueAddScan
    <2> HIDE DEF MaxOrder
    <2>3. QED
      BY <1>0, <1>2, <2>2 DEF QueueAddScan
  <1>3. ASSUME NEW r \in Run, QueueAddSet(r) PROVE EntryInv'
    BY <1>0, <1>3 DEF QueueAddSet
  <1>4. ASSUME NEW r \in Run, Acquire(r) PROVE EntryInv'
    BY <1>0, <1>4 DEF Acquire
  <1>5. ASSUME NEW r \in Run, OnQueue(r) PROVE EntryInv'
    BY <1>0, <1>5 DEF OnQueue
  <1>6. ASSUME NEW r \in Run, SelectReady(r) PROVE EntryInv'
    BY <1>0, <1>6 DEF SelectReady
  <1>7. ASSUME NEW r \in Run, SelectDone(r) PROVE EntryInv'
    BY <1>0, <1>7 DEF SelectDone
  <1>8. ASSUME NEW r \in Run, LeaveQueue(r) PROVE EntryInv'
    BY <1>0, <1>8 DEF LeaveQueue
  <1>9. ASSUME NEW r \in Run, SelectNotify(r) PROVE EntryInv'
    BY <1>0, <1>9 DEF SelectNotify
  <1>10. ASSUME NEW r \in Run, WorkReturns(r) PROVE EntryInv'
    BY <1>0, <1>10 DEF WorkReturns
  <1>11. ASSUME NEW r \in Run, WorkPanics(r) PROVE EntryInv'
    BY <1>0, <1>11 DEF WorkPanics
  <1>12. ASSUME NEW r \in Run, Release(r) PROVE EntryInv'
    BY <1>0, <1>12 DEF Release
  <1>13. ASSUME NEW r \in Run, QueueRemove(r) PROVE EntryInv'
    BY <1>0, <1>13 DEF QueueRemove
  <1>14. ASSUME NEW r \in Run, CancelSession(r) PROVE EntryInv'
    BY <1>0, <1>14 DEF CancelSession
  <1>15. ASSUME NEW r \in Run, CancelQueued(r) PROVE EntryInv'
    BY <1>0, <1>15 DEF CancelQueued
  <1>16. ASSUME NEW r \in Run, RestorePipeline(r) PROVE EntryInv'
    BY <1>0, <1>16 DEF RestorePipeline
  <1>17. ASSUME NEW r \in Run, RestoreGone(r) PROVE EntryInv'
    BY <1>0, <1>17 DEF RestoreGone
  <1>18. CASE Crash
    BY <1>0, <1>18 DEF Crash
  <1>19. CASE QueueRestore
    BY <1>0, <1>19 DEF QueueRestore, QueueInv
  <1>20. CASE UNCHANGED vars
    BY <1>20 DEF vars
  <1>21. QED
    BY <1>1, <1>2, <1>3, <1>4, <1>5, <1>6, <1>7, <1>8, <1>9, <1>10, <1>11,
       <1>12, <1>13, <1>14, <1>15, <1>16, <1>17, <1>18, <1>19, <1>20
    DEF Next, RunStep

LEMMA EntryInvariance == Spec => []EntryInv
  <1>1. Init => EntryInv
    BY DEF Init, EntryInv, EntryKept, Outcome
  <1>2. QueueInv /\ SlotInv /\ EntryInv /\ [Next]_vars => EntryInv'
    BY EntryStep
  <1>3. QED
    BY <1>1, <1>2, QueueInvariance, PTL DEF Spec

\* "leave the queue entry in place so a restart rehydrates and retries the
\* pipeline": an accepted run has its persistent entry until it has ended for
\* good, whatever panics and whenever the process dies.
THEOREM AcceptedKeepsEntry == Spec => []EntryKept
  <1>1. EntryInv => EntryKept
    BY DEF EntryInv
  <1>2. QED
    BY <1>1, EntryInvariance, PTL

\* What is left of the types: the counters, the positions shown, and the sets
\* nothing above needed.
RestInv ==
    /\ notify \in BOOLEAN /\ up \in BOOLEAN /\ cancelled \in SUBSET Run
    /\ position \in [Run -> Nat] /\ crashes \in Nat
    /\ ahead \in [Run -> SUBSET Run]

LEMMA RestStep ==
    ASSUME QueueInv, SlotInv, RestInv, [Next]_vars
    PROVE  RestInv'
  <1> USE DEF RestInv
  <1>1. Queued \in SUBSET Run /\ Len(queue) \in Nat
    BY DEF Queued, ToSet, QueueInv
  <1>2. ASSUME NEW r \in Queued PROVE Index(r) \in Nat
    <2>1. PICK k \in 1..Len(queue) : queue[k] = r
      BY <1>2 DEF Queued, ToSet, QueueInv
    <2>2. {i \in 1..Len(queue) : queue[i] = r} = {k}
      BY <2>1 DEF QueueInv
    <2>3. Index(r) = k
      BY <2>1, <2>2 DEF Index, SelectInSeq, Min
    <2>4. QED
      BY <1>1, <2>3
  <1>3. ASSUME NEW r \in Run, Acquire(r) PROVE RestInv'
    BY <1>1, <1>3 DEF Acquire
  <1>4. ASSUME NEW r \in Run, SelectNotify(r) PROVE RestInv'
    <2>1. position' \in [Run -> Nat]
      BY <1>2, <1>4 DEF SelectNotify
    <2>2. QED
      BY <1>4, <2>1 DEF SelectNotify
  <1>5. ASSUME NEW r \in Run,
               \/ RunPipelineAsync(r) \/ QueueAddScan(r) \/ QueueAddSet(r) \/ OnQueue(r)
               \/ SelectReady(r) \/ SelectDone(r) \/ LeaveQueue(r) \/ WorkReturns(r)
               \/ WorkPanics(r) \/ QueueRemove(r) \/ CancelQueued(r) \/ RestorePipeline(r)
               \/ RestoreGone(r)
        PROVE  RestInv'
    BY <1>5 DEF RunPipelineAsync, QueueAddScan, QueueAddSet, OnQueue, SelectReady, SelectDone,
                LeaveQueue, WorkReturns, WorkPanics, QueueRemove, CancelQueued,
                RestorePipeline, RestoreGone
  <1>6. ASSUME NEW r \in Run, Release(r) \/ CancelSession(r) PROVE RestInv'
    BY <1>6 DEF Release, CancelSession
  <1>7. CASE Crash \/ QueueRestore
    <2>1. notify' \in BOOLEAN /\ up' \in BOOLEAN
      BY <1>7, Zenon DEF Crash, QueueRestore
    <2>2. /\ cancelled' \in SUBSET Run /\ position' \in [Run -> Nat] /\ crashes' \in Nat
          /\ ahead' \in [Run -> SUBSET Run]
      BY <1>7 DEF Crash, QueueRestore
    <2>3. QED
      BY <2>1, <2>2
  <1>8. CASE UNCHANGED vars
    BY <1>8 DEF vars
  <1>9. QED
    BY <1>3, <1>4, <1>5, <1>6, <1>7, <1>8 DEF Next, RunStep

\* The state of TaskQueue and of the runs keeps its types.
THEOREM TypeCorrect == Spec => []TypeOK
  <1>1. Init => RestInv
    <2> SUFFICES ASSUME Init PROVE RestInv
      OBVIOUS
    <2>1. notify \in BOOLEAN /\ up \in BOOLEAN
      BY Zenon DEF Init
    <2>2. QED
      BY <2>1 DEF Init, RestInv
  <1>2. QueueInv /\ SlotInv /\ RestInv /\ [Next]_vars => RestInv'
    BY RestStep
  <1>3. QueueInv /\ SlotInv /\ EntryInv /\ RestInv => TypeOK
    BY DEF QueueInv, SlotInv, EntryInv, RestInv, TypeOK
  <1>4. QED
    BY <1>1, <1>2, <1>3, QueueInvariance, EntryInvariance, PTL DEF Spec
=============================================================================
