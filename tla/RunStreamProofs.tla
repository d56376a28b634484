---------------------------- MODULE RunStreamProofs ----------------------------
(***************************************************************************)
(* Proofs about RunStream for any number of runs, any ring, any channel,   *)
(* any number of breaks and whatever the person does: the registry tells a *)
(* page of the newest run; what the page draws has no gap but for the      *)
(* named lapses; its cards are current; and a page at rest has shown how   *)
(* every turn ended.                                                       *)
(***************************************************************************)
EXTENDS RunStream, FiniteSetTheorems, SequenceTheorems, WellFoundedInduction, TLAPS

-----------------------------------------------------------------------------
(* The registry *)

\* The parts of the state the registry's run is decided from.
RegistryTypes ==
    /\ status \in [Run -> {"new", "running", "closed", "swept"}]
    /\ cancels \in [pending : SUBSET Run, done : SUBSET Run]
    /\ bySess \in Run \cup {None}

\* Runs are made in order.
MadeInOrder ==
    \A r, k \in Run : status[r] = "new" /\ r < k => status[k] = "new"

\* The session's entry is the newest run, and it has not been swept.
NewestListed ==
    bySess # None =>
        /\ status[bySess] \in {"running", "closed"}
        /\ \A k \in Run : k > bySess => status[k] = "new"

\* Every other run that works has been superseded, and its cancel is on the way
\* or has arrived.
Superseded ==
    \A r \in Run : status[r] = "running" /\ r # bySess =>
        /\ r \in cancels.pending \cup cancels.done
        /\ \E k \in Run : k > r /\ status[k] # "new"

RegistryInv == RegistryTypes /\ MadeInOrder /\ NewestListed /\ Superseded

\* A new run: the one before it, whatever its state, is about to be cancelled.
LEMMA CreateKeeps ==
    ASSUME RegistryInv, NEW r \in Run, NextRun(r), Create(r)
    PROVE  RegistryInv'
PROOF
  <1>1. status[r] = "new" /\ \A k \in Run : k < r => status[k] # "new"
    BY DEF NextRun
  <1>2. \A k \in Run : k > r => status[k] = "new"
    BY <1>1 DEF RegistryInv, MadeInOrder
  <1>3. /\ status' = [status EXCEPT ![r] = "running"]
        /\ bySess' = r /\ r # None /\ None \notin Run
        /\ cancels' = IF bySess = None THEN cancels
                      ELSE [cancels EXCEPT !.pending = @ \cup {bySess}]
    BY RunStreamAssumption DEF Create, Run
  <1>4. RegistryTypes'
    BY <1>3 DEF RegistryInv, RegistryTypes
  <1>5. \A k \in Run : status'[k] = IF k = r THEN "running" ELSE status[k]
    BY <1>3 DEF RegistryInv, RegistryTypes
  <1>6. MadeInOrder'
    BY <1>1, <1>2, <1>5 DEF MadeInOrder, Run
  <1>7. NewestListed'
    BY <1>2, <1>3, <1>5 DEF NewestListed, Run
  <1>8. Superseded'
    <2> SUFFICES ASSUME NEW k \in Run, status'[k] = "running", k # bySess'
                 PROVE  /\ k \in cancels'.pending \cup cancels'.done
                        /\ \E j \in Run : j > k /\ status'[j] # "new"
      BY DEF Superseded
    <2>1. status[k] = "running" /\ k # r
      BY <1>3, <1>5
    <2>2. k < r
      BY <1>2, <2>1 DEF Run
    <2>3. k \in cancels'.pending \cup cancels'.done
      BY <1>3, <2>1 DEF RegistryInv, RegistryTypes, Superseded
    <2>4. QED
      BY <1>5, <2>2, <2>3
  <1>9. QED
    BY <1>4, <1>6, <1>7, <1>8 DEF RegistryInv

\* A run that works ends or is told to stop; none is made and none revived.
LEMMA ChangesKeep ==
    ASSUME RegistryInv, NEW r \in Run,
           CancelPrev(r) \/ Cancel(r) \/ Complete(r) \/ Sweep(r)
    PROVE  RegistryInv'
PROOF
  <1>1. CASE CancelPrev(r)
    <2>1. /\ UNCHANGED <<status, bySess>>
          /\ cancels' = [pending |-> cancels.pending \ {r},
                         done |-> IF status[r] = "running" THEN cancels.done \cup {r}
                                  ELSE cancels.done]
      BY <1>1 DEF CancelPrev
    <2>2. RegistryTypes' /\ Superseded'
      BY <2>1 DEF RegistryInv, RegistryTypes, Superseded
    <2>3. QED
      BY <2>1, <2>2 DEF RegistryInv, MadeInOrder, NewestListed
  <1>2. CASE Cancel(r)
    <2>1. /\ UNCHANGED <<status, bySess>>
          /\ cancels' = [cancels EXCEPT !.done = @ \cup {r}]
      BY <1>2 DEF Cancel
    <2>2. RegistryTypes' /\ Superseded'
      BY <2>1 DEF RegistryInv, RegistryTypes, Superseded
    <2>3. QED
      BY <2>1, <2>2 DEF RegistryInv, MadeInOrder, NewestListed
  <1>3. CASE Complete(r)
    <2>1. /\ status[r] = "running" /\ UNCHANGED bySess
          /\ status' = [status EXCEPT ![r] = "closed"]
          /\ cancels' = [cancels EXCEPT !.done = @ \ {r}]
      BY <1>3 DEF Complete
    <2>2. \A k \in Run : status'[k] = IF k = r THEN "closed" ELSE status[k]
      BY <2>1 DEF RegistryInv, RegistryTypes
    <2>3. RegistryTypes' /\ Superseded'
      BY <2>1, <2>2 DEF RegistryInv, RegistryTypes, Superseded
    <2>4. MadeInOrder' /\ NewestListed'
      BY <2>1, <2>2 DEF RegistryInv, RegistryTypes, MadeInOrder, NewestListed
    <2>5. QED
      BY <2>3, <2>4 DEF RegistryInv
  <1>4. CASE Sweep(r)
    <2>1. /\ status[r] = "closed" /\ UNCHANGED cancels
          /\ status' = [status EXCEPT ![r] = "swept"]
          /\ bySess' = IF bySess = r THEN None ELSE bySess
      BY <1>4 DEF Sweep
    <2>2. \A k \in Run : status'[k] = IF k = r THEN "swept" ELSE status[k]
      BY <2>1 DEF RegistryInv, RegistryTypes
    <2>3. RegistryTypes' /\ Superseded'
      BY <2>1, <2>2 DEF RegistryInv, RegistryTypes, Superseded
    <2>4. MadeInOrder' /\ NewestListed'
      BY <2>1, <2>2 DEF RegistryInv, RegistryTypes, MadeInOrder, NewestListed
    <2>5. QED
      BY <2>3, <2>4 DEF RegistryInv
  <1>5. QED
    BY <1>1, <1>2, <1>3, <1>4

\* A restart leaves no run that works.
LEMMA CrashKeeps ==
    ASSUME RegistryInv, Crash
    PROVE  RegistryInv'
PROOF
  <1>1. /\ status' = [r \in Run |-> IF status[r] = "new" THEN "new" ELSE "swept"]
        /\ cancels' = [cancels EXCEPT !.pending = {}] /\ bySess' = None
    BY DEF Crash
  <1>2. RegistryTypes' /\ Superseded' /\ NewestListed'
    BY <1>1 DEF RegistryInv, RegistryTypes, Superseded, NewestListed
  <1>3. MadeInOrder'
    BY <1>1 DEF RegistryInv, MadeInOrder
  <1>4. QED
    BY <1>2, <1>3 DEF RegistryInv

\* The page's own steps and the frames of a turn leave the registry alone.
LEMMA OthersKeep ==
    ASSUME RegistryInv, UNCHANGED <<status, cancels, bySess>>
    PROVE  RegistryInv'
  BY DEF RegistryInv, RegistryTypes, MadeInOrder, NewestListed, Superseded

LEMMA InitRegistry == Init => RegistryInv
PROOF
  <1> SUFFICES ASSUME Init PROVE RegistryInv
    OBVIOUS
  <1>1. \A r \in Run : status[r] = "new"
    BY DEF Init
  <1>2. QED
    BY <1>1 DEF Init, RegistryInv, RegistryTypes, MadeInOrder, NewestListed, Superseded

LEMMA StepRegistry == RegistryInv /\ [Next]_vars => RegistryInv'
PROOF
  <1> SUFFICES ASSUME RegistryInv, [Next]_vars PROVE RegistryInv'
    OBVIOUS
  <1>1. ASSUME NEW r \in Run, CreateElsewhere(r) \/ Send(r) PROVE RegistryInv'
    BY <1>1, CreateKeeps DEF CreateElsewhere, Send
  <1>2. ASSUME NEW r \in Run, Cancel(r) \/ Sweep(r) PROVE RegistryInv'
    BY <1>2, ChangesKeep
  <1>3. CASE Serve
    <2>1. ASSUME NEW r \in Run, NEW k \in Kind, Emit(r, k) PROVE RegistryInv'
      BY <2>1, OthersKeep DEF Emit
    <2>2. ASSUME NEW r \in Run, Complete(r) \/ CancelPrev(r) PROVE RegistryInv'
      BY <2>2, ChangesKeep
    <2>3. QED
      BY <1>3, <2>1, <2>2 DEF Serve
  <1>4. CASE PageStep
    <2>1. ASSUME ReadEs \/ SseEnds \/ EsEnds PROVE RegistryInv'
      BY <2>1, OthersKeep DEF ReadEs, SseEnds, EsEnds, serverVars
    <2>2. ASSUME NEW p \in probes, Load(p) \/ Answer(p) \/ Resume(p) \/ Rejoin(p) \/ Retry(p)
          PROVE  RegistryInv'
      BY <2>2, OthersKeep DEF Load, Answer, Resume, Rejoin, Retry, serverVars
    <2>3. QED
      BY <1>4, <2>1, <2>2 DEF PageStep
  <1>5. ASSUME NEW p \in probes, ProbeFails(p) PROVE RegistryInv'
    BY <1>5, OthersKeep DEF ProbeFails, serverVars
  <1>6. ASSUME NEW long \in BOOLEAN, BackOnPage(long) PROVE RegistryInv'
    BY <1>6, OthersKeep DEF BackOnPage, serverVars
  <1>7. CASE Reopen
    BY <1>7, OthersKeep DEF Reopen, serverVars
  <1>8. CASE Crash
    BY <1>8, CrashKeeps
  <1>9. CASE UNCHANGED vars
    BY <1>9, OthersKeep DEF vars, serverVars
  <1>10. QED
    BY <1>1, <1>2, <1>3, <1>4, <1>5, <1>6, <1>7, <1>8, <1>9 DEF Next

\* For any number of runs, sends from anywhere, cancels, sweeps and restarts: a
\* page that asks for the session's run gets the newest while that one works
\* (RunRegistry.BySession), and an older one that still works has been
\* cancelled, or Create's goroutine is about to (runs.go).
THEOREM NewestRunFound == Spec => []RunningFound
PROOF
  <1>1. RegistryInv => RunningFound
    <2> SUFFICES ASSUME RegistryInv, NEW r \in Run, status[r] = "running"
                 PROVE  IF \E k \in Run : k > r /\ status[k] # "new"
                        THEN r \in cancels.pending \cup cancels.done
                        ELSE BySession = r
      BY DEF RunningFound
    <2>1. None \notin Run
      BY RunStreamAssumption DEF Run
    <2>2. CASE r = bySess
      BY <2>1, <2>2 DEF RegistryInv, NewestListed, BySession
    <2>3. CASE r # bySess
      BY <2>3 DEF RegistryInv, Superseded
    <2>4. QED
      BY <2>2, <2>3
  <1>2. QED
    BY <1>1, InitRegistry, StepRegistry, PTL DEF Spec

-----------------------------------------------------------------------------
(* The replay *)

Ascends(s) == \A i, j \in 1..Len(s) : i < j => s[i] < s[j]

\* What the choice in Sorted asks for.
Lists(s, S) ==
    /\ s \in [1..Cardinality(S) -> S]
    /\ S = {s[i] : i \in DOMAIN s}
    /\ \A i, j \in DOMAIN s : i < j => s[i] < s[j]

\* A finite set of naturals that is not empty has a largest element: a smallest
\* subset without one would, without one of its elements, have one.
LEMMA LargestExists ==
    ASSUME NEW S \in SUBSET Nat, IsFiniteSet(S), S # {}
    PROVE  \E x \in S : \A y \in S : x >= y
  <1> DEFINE Top(U) == \E x \in U : \A y \in U : x >= y
             Bad == {U \in SUBSET S : U # {} /\ ~Top(U)}
  <1> SUFFICES ASSUME Bad # {} PROVE FALSE
    OBVIOUS
  <1>1. IsWellFoundedOn(StrictSubsetOrdering(S), FiniteSubsetsOf(S))
    BY FS_StrictSubsetOrderingWellFounded
  <1>2. Bad \subseteq FiniteSubsetsOf(S)
    BY FS_Subset DEF FiniteSubsetsOf
  <1> HIDE DEF Bad
  <1>3. PICK U \in Bad : \A V \in Bad : <<V, U>> \notin StrictSubsetOrdering(S)
    BY <1>1, <1>2, WFMin
  <1> USE DEF Bad
  <1>4. PICK x \in U : x \in Nat
    OBVIOUS
  <1> DEFINE V == U \ {x}
  <1>5. V \in SUBSET S /\ V \notin Bad
    BY <1>3, <1>4 DEF StrictSubsetOrdering
  <1>6. CASE V = {}
    BY <1>4, <1>6
  <1>7. CASE V # {}
    <2>1. PICK m \in V : \A y \in V : m >= y
      BY <1>5, <1>7
    <2>2. CASE x >= m
      <3>1. \A y \in U : y \in Nat /\ x >= y
        BY <1>4, <2>1, <2>2
      <3>2. QED
        BY <3>1
    <2>3. CASE ~(x >= m)
      <3>1. \A y \in U : m >= y
        BY <1>4, <2>1, <2>3
      <3>2. QED
        BY <2>1, <3>1
    <2>4. QED
      BY <2>2, <2>3
  <1>8. QED
    BY <1>6, <1>7

\* A sequence sorted without the largest element is sorted with it at its end.
LEMMA SortedAppend ==
    ASSUME NEW U \in SUBSET Nat, IsFiniteSet(U), NEW m \in U,
           \A y \in U : m >= y, NEW s, Lists(s, U \ {m})
    PROVE  \E t : Lists(t, U)
  <1> DEFINE V == U \ {m}
             n == Cardinality(V)
             t == [i \in 1..n + 1 |-> IF i = n + 1 THEN m ELSE s[i]]
  <1>1. IsFiniteSet(V) /\ n \in Nat /\ Cardinality(U) = n + 1
    <2>1. IsFiniteSet(V)
      BY FS_RemoveElement
    <2>2. n \in Nat /\ m \notin V /\ V \cup {m} = U
      BY <2>1, FS_CardinalityType
    <2>3. Cardinality(V \cup {m}) = n + 1
      BY <2>1, <2>2, FS_AddElement
    <2>4. QED
      BY <2>1, <2>2, <2>3
  <1> HIDE DEF n
  <1>2. /\ s \in [1..n -> V] /\ V = {s[i] : i \in 1..n}
        /\ \A i, j \in 1..n : i < j => s[i] < s[j]
    BY DEF Lists, n
  <1>3. t \in [1..n + 1 -> U] /\ DOMAIN t = 1..n + 1
    BY <1>1, <1>2
  <1>4. U = {t[i] : i \in 1..n + 1}
    <2>1. \A y \in U : \E i \in 1..n + 1 : t[i] = y
      <3> SUFFICES ASSUME NEW y \in U PROVE \E i \in 1..n + 1 : t[i] = y
        OBVIOUS
      <3>1. CASE y = m
        <4>1. n + 1 \in 1..n + 1 /\ t[n + 1] = m
          BY <1>1
        <4>2. QED
          BY <3>1, <4>1
      <3>2. CASE y # m
        <4>1. PICK i \in 1..n : s[i] = y
          BY <1>2, <3>2
        <4>2. i \in 1..n + 1 /\ i # n + 1
          BY <1>1
        <4>3. QED
          BY <4>1, <4>2
      <3>3. QED
        BY <3>1, <3>2
    <2>2. \A i \in 1..n + 1 : t[i] \in U
      BY <1>3
    <2> HIDE DEF t
    <2>3. QED
      BY <2>1, <2>2
  <1>5. ASSUME NEW i \in 1..n + 1, NEW j \in 1..n + 1, i < j PROVE t[i] < t[j]
    <2>0. i \in 1..n /\ i # n + 1
      BY <1>1, <1>5
    <2>1. i \in 1..n /\ t[i] = s[i] /\ s[i] \in V /\ s[i] \in Nat
      BY <1>2, <2>0
    <2>2. CASE j = n + 1
      <3>1. t[j] = m /\ m >= s[i] /\ m # s[i] /\ m \in Nat
        BY <2>1, <2>2
      <3>2. QED
        BY <2>1, <3>1
    <2>3. CASE j # n + 1
      BY <1>1, <1>2, <1>5, <2>1, <2>3
    <2>4. QED
      BY <2>2, <2>3
  <1> HIDE DEF t
  <1>6. Lists(t, U)
    BY <1>1, <1>3, <1>4, <1>5 DEF Lists
  <1>7. QED
    BY <1>6

LEMMA SortedExists ==
    ASSUME NEW S \in SUBSET Nat, IsFiniteSet(S)
    PROVE  \E s : Lists(s, S)
  <1> DEFINE Bad == {U \in SUBSET S : ~ \E s : Lists(s, U)}
  <1> SUFFICES ASSUME Bad # {} PROVE FALSE
    OBVIOUS
  <1>1. IsWellFoundedOn(StrictSubsetOrdering(S), FiniteSubsetsOf(S))
    BY FS_StrictSubsetOrderingWellFounded
  <1>2. Bad \subseteq FiniteSubsetsOf(S)
    BY FS_Subset DEF FiniteSubsetsOf
  <1> HIDE DEF Bad
  <1>3. PICK U \in Bad : \A V \in Bad : <<V, U>> \notin StrictSubsetOrdering(S)
    BY <1>1, <1>2, WFMin
  <1> USE DEF Bad
  <1>4. U \in SUBSET S /\ U \in SUBSET Nat /\ IsFiniteSet(U)
    BY FS_Subset
  <1>5. CASE U = {}
    <2>1. Cardinality(U) = 0
      BY <1>5, FS_EmptySet
    <2> DEFINE e == [i \in 1..0 |-> 0]
    <2>2. e \in [1..Cardinality(U) -> U] /\ DOMAIN e = {} /\ {e[i] : i \in DOMAIN e} = U
      BY <1>5, <2>1
    <2> HIDE DEF e
    <2>3. Lists(e, U)
      BY <2>2 DEF Lists
    <2>4. QED
      BY <2>3
  <1>6. CASE U # {}
    <2>1. PICK m \in U : \A y \in U : m >= y
      BY <1>4, <1>6, LargestExists
    <2>2. U \ {m} \in SUBSET S /\ U \ {m} \notin Bad
      BY <1>3, <1>4, <2>1 DEF StrictSubsetOrdering
    <2>3. PICK s : Lists(s, U \ {m})
      BY <2>2
    <2>4. \E t : Lists(t, U)
      BY <1>4, <2>1, <2>3, SortedAppend
    <2>5. QED
      BY <2>4
  <1>7. QED
    BY <1>5, <1>6

LEMMA SortedFacts ==
    ASSUME NEW S \in SUBSET Nat, IsFiniteSet(S)
    PROVE  Sorted(S) \in Seq(S) /\ Range(Sorted(S)) = S /\ Ascends(Sorted(S))
  <1> DEFINE s == Sorted(S)
             n == Cardinality(S)
  <1>1. Lists(s, S)
    <2> DEFINE X == [1..Cardinality(S) -> S]
               Q(q) == /\ S = {q[i] : i \in DOMAIN q}
                       /\ \A i, j \in DOMAIN q : i < j => q[i] < q[j]
    <2>1. \E q \in X : Q(q)
      BY SortedExists DEF Lists
    <2>2. s = CHOOSE q \in X : Q(q)
      BY DEF Sorted
    <2> HIDE DEF X, Q, s
    <2>3. s \in X /\ Q(s)
      BY <2>1, <2>2, Zenon
    <2>4. QED
      BY <2>3 DEF X, Q, Lists
  <1>2. n \in Nat
    BY FS_CardinalityType
  <1>3. s \in [1..n -> S] /\ DOMAIN s = 1..n
    BY <1>1 DEF Lists
  <1> HIDE DEF s, n
  <1>4. s \in Seq(S) /\ Len(s) = n
    BY <1>2, <1>3
  <1>5. QED
    BY <1>1, <1>3, <1>4 DEF Lists, Range, Ascends, s

\* What Subscribe replays: frames of the run past since, in order; every card's
\* latest frame past since; and all of them if the ring still has the first.
LEMMA BacklogFacts ==
    ASSUME NEW r \in Run, log[r] \in Seq(Kind), NEW since \in Nat
    PROVE  /\ Backlog(r, since) \in Seq(1..Len(log[r]))
           /\ Ascends(Backlog(r, since))
           /\ \A n \in Range(Backlog(r, since)) : n > since
           /\ \A n \in CardFrames(r) : n > since => n \in Range(Backlog(r, since))
           /\ Oldest(r) <= since + 1 => Range(Backlog(r, since)) = since + 1..Len(log[r])
  <1> DEFINE N == Len(log[r])
             o == Oldest(r)
             C == {n \in CardFrames(r) : n > since /\ n < o}
             T == {n \in o..N : n > since}
             c == Sorted(C)
             t == Sorted(T)
             b == Backlog(r, since)
  <1>1. N \in Nat /\ CardFrames(r) \subseteq 1..N
    BY DEF CardFrames
  <1>2. o \in Nat /\ o >= 1
    <2> DEFINE x == N - Ring + 1
    <2>1. x \in Int
      BY <1>1, RunStreamAssumption
    <2> HIDE DEF x
    <2>2. Max({1, x}) \in {1, x} /\ Max({1, x}) >= 1
      <3>1. \E y \in {1, x} : \A z \in {1, x} : y >= z
        BY <2>1
      <3>2. QED
        BY <3>1 DEF Max
    <2>3. QED
      BY <2>1, <2>2 DEF Oldest, x
  <1> HIDE DEF N, o
  <1>3. C \in SUBSET (1..N) /\ T \in SUBSET (1..N) /\ IsFiniteSet(C) /\ IsFiniteSet(T)
    <2>1. C \in SUBSET (1..N) /\ T \in SUBSET (1..N)
      BY <1>1, <1>2
    <2>2. IsFiniteSet(1..N)
      BY <1>1, FS_Interval
    <2>3. QED
      BY <2>1, <2>2, FS_Subset
  <1>4. /\ c \in Seq(C) /\ Range(c) = C /\ Ascends(c)
        /\ t \in Seq(T) /\ Range(t) = T /\ Ascends(t)
    <2>1. C \in SUBSET Nat /\ T \in SUBSET Nat
      BY <1>1, <1>3
    <2>2. QED
      BY <1>3, <2>1, SortedFacts
  <1>5. b = c \o t
    BY DEF Backlog, N, o
  <1>6. \A x \in C, y \in T : x < y /\ x \in Nat /\ y \in Nat
    BY <1>1, <1>2
  <1>7. \A n \in C \cup T : n > since
    OBVIOUS
  <1>8. \A n \in CardFrames(r) : n > since => n \in C \cup T
    BY <1>1, <1>2
  <1>9. o <= since + 1 => C \cup T = since + 1..N
    BY <1>1, <1>2
  <1> HIDE DEF C, T, c, t, b
  <1>10. c \in Seq(1..N) /\ t \in Seq(1..N)
    BY <1>3, <1>4, SeqMonotonic
  <1>11. b \in Seq(1..N) /\ Range(b) = C \cup T
    BY <1>4, <1>5, <1>10, ConcatProperties, RangeConcatenation
  <1>12. Ascends(b)
    <2> SUFFICES ASSUME NEW i \in 1..Len(b), NEW j \in 1..Len(b), i < j
                 PROVE  b[i] < b[j]
      BY DEF Ascends
    <2>1. /\ Len(c) \in Nat /\ Len(t) \in Nat /\ Len(b) = Len(c) + Len(t)
          /\ \A k \in 1..Len(b) : b[k] = IF k <= Len(c) THEN c[k] ELSE t[k - Len(c)]
      BY <1>5, <1>10, ConcatProperties
    <2>2. CASE j <= Len(c)
      BY <1>4, <2>1, <2>2 DEF Ascends
    <2>3. CASE i > Len(c)
      <3>1. i - Len(c) \in 1..Len(t) /\ j - Len(c) \in 1..Len(t) /\ i - Len(c) < j - Len(c)
        BY <2>1, <2>3
      <3>2. b[i] = t[i - Len(c)] /\ b[j] = t[j - Len(c)]
        BY <2>1, <2>3
      <3>3. QED
        BY <1>4, <3>1, <3>2 DEF Ascends
    <2>4. CASE i <= Len(c) /\ j > Len(c)
      <3>1. i \in 1..Len(c) /\ j - Len(c) \in 1..Len(t)
        BY <2>1, <2>4
      <3>2. c[i] \in C /\ t[j - Len(c)] \in T
        BY <1>4, <3>1, ElementOfSeq
      <3>3. QED
        BY <1>6, <2>1, <2>4, <3>2
    <2>5. QED
      BY <2>1, <2>2, <2>3, <2>4
  <1>13. QED
    BY <1>7, <1>8, <1>9, <1>11, <1>12 DEF b, N, o

-----------------------------------------------------------------------------
(* Types *)

PageType == [run : Run \cup {None}, count : Nat, turn : BOOLEAN, end : BOOLEAN]
EsType   == [run : Run, back : Seq(1..MaxFrames), chan : Seq(1..MaxFrames), closed : BOOLEAN]

\* The order of a run's frames, and what is drawn or on its way is among them.
LogInv ==
    \A r \in Run :
        /\ status[r] = "new" => log[r] = <<>>
        /\ \A n \in 1..Len(log[r]) :
              /\ log[r][n] = "run" <=> n = 2
              /\ log[r][n] = "done" => n = Len(log[r]) /\ n > 2
        /\ drawn[r] \in Seq(1..Len(log[r]))
        /\ es # None /\ es.run = r => /\ es.back \in Seq(1..Len(log[r]))
                                      /\ es.chan \in Seq(1..Len(log[r]))

\* A page is told of runs that have begun.
BegunInv ==
    \A p \in probes : p.at = "reply" /\ p.ans # None => status[p.ans] # "new"

\* A stream is of a run that has begun and open only while the page takes the
\* turn for running; a page that has counted nothing counts nobody's frames.
StreamInv ==
    /\ sse # None => status[sse.run] # "new"
    /\ es # None => status[es.run] # "new"
    /\ sse # None \/ es # None => page.turn /\ ~page.end
    /\ page.count = 0 => owner = None

TypeInv == TypeOK /\ LogInv /\ BegunInv /\ StreamInv

LEMMA RunsAreNotNone == None \notin Run /\ Run \subseteq Nat
  BY RunStreamAssumption DEF Run

\* What handling a frame does, without its cases.
LEMMA FrameFacts ==
    ASSUME page \in PageType, NEW r \in Run, NEW n, NEW kind, NEW sse1, NEW es1,
           Frame(r, n, kind, sse1, es1)
    PROVE  /\ drawn' = IF "astray" \in lapses THEN drawn ELSE [drawn EXCEPT ![r] = Append(@, n)]
           /\ owner' = IF kind = "run" \/ page.count = 0 \/ owner = r THEN r ELSE None
           /\ page' \in PageType
           /\ page'.count = (IF kind = "run" THEN 2 ELSE page.count + 1) /\ page'.count # 0
           /\ page'.run = IF kind = "run" THEN r ELSE page.run
           /\ page'.turn = (page.turn /\ kind # "done")
           /\ page'.end = (page.end \/ kind = "done")
           /\ sse' = (IF kind = "done" THEN None ELSE sse1)
           /\ es' = (IF kind = "done" THEN None ELSE es1)
  <1> DEFINE counted == [page EXCEPT !.count = Count(kind)]
  <1>1. /\ counted \in PageType /\ counted.count = (IF kind = "run" THEN 2 ELSE page.count + 1)
        /\ counted.count # 0
        /\ counted.run = page.run /\ counted.turn = page.turn /\ counted.end = page.end
    BY DEF PageType, Count
  <1> HIDE DEF counted
  <1>2. CASE kind = "done"
    <2>1. /\ page' = [[counted EXCEPT !.end = TRUE] EXCEPT !.turn = FALSE]
          /\ sse' = None /\ es' = None
      BY <1>2 DEF Frame, Idle, counted
    <2>2. page' \in PageType /\ page'.count = counted.count /\ page'.run = counted.run
          /\ page'.turn = FALSE /\ page'.end = TRUE
      BY <1>1, <2>1 DEF PageType
    <2>3. QED
      BY <1>1, <1>2, <2>1, <2>2 DEF Frame
  <1>3. CASE kind = "run"
    <2>1. page' = [counted EXCEPT !.run = r] /\ sse' = sse1 /\ es' = es1
      BY <1>3 DEF Frame, counted
    <2>2. page' \in PageType /\ page'.count = counted.count /\ page'.run = r
          /\ page'.turn = counted.turn /\ page'.end = counted.end
      BY <1>1, <2>1 DEF PageType
    <2>3. QED
      BY <1>1, <1>3, <2>1, <2>2 DEF Frame, PageType
  <1>4. CASE kind # "done" /\ kind # "run"
    <2>1. page' = counted /\ sse' = sse1 /\ es' = es1
      BY <1>4 DEF Frame, counted
    <2>2. QED
      BY <1>1, <1>4, <2>1 DEF Frame, PageType
  <1>5. QED
    BY <1>2, <1>3, <1>4

\* The subscription after a run's n-th frame was offered to it.
Offered(r, n) ==
    IF es # None /\ es.run = r /\ Len(es.chan) < Buffer
    THEN [es EXCEPT !.chan = Append(@, n)] ELSE es

\* A frame is the next of its run, and the order of frames is kept.
LEMMA EmitFacts ==
    ASSUME TypeInv, NEW r \in Run, NEW k \in Kind, Emit(r, k), NEW n, n = Len(log[r]) + 1
    PROVE  /\ n \in 1..MaxFrames /\ status[r] = "running"
           /\ log' \in [Run -> Seq(Kind)] /\ Len(log'[r]) = n /\ log'[r][n] = k
           /\ \A m \in 1..n - 1 : log'[r][m] = log[r][m] /\ log[r][m] # "done"
           /\ \A q \in Run : q # r => log'[q] = log[q]
           /\ k = "run" <=> n = 2
           /\ k = "done" => n > 2
           /\ IF sse # None /\ sse.run = r THEN Frame(r, n, k, sse, Offered(r, n))
              ELSE es' = Offered(r, n) /\ UNCHANGED <<page, sse, drawn, owner>>
           /\ lapses' \in {lapses, lapses \cup {"overflow"}}
           /\ es # None /\ es.run = r /\ ~(Len(es.chan) < Buffer) => "overflow" \in lapses'
           /\ UNCHANGED <<status, cancels, bySess, probes, bounds>>
  <1>1. /\ status[r] = "running" /\ Len(log[r]) < MaxFrames /\ Follows(r, k)
        /\ log' = [log EXCEPT ![r] = Append(@, k)]
        /\ UNCHANGED <<status, cancels, bySess, probes, bounds>>
    BY DEF Emit
  <1>2. log \in [Run -> Seq(Kind)] /\ MaxFrames \in Nat /\ log[r] \in Seq(Kind)
    BY RunStreamAssumption DEF TypeInv, TypeOK
  <1>3. /\ log' \in [Run -> Seq(Kind)] /\ Len(log'[r]) = n /\ log'[r][n] = k
        /\ \A m \in 1..n - 1 : log'[r][m] = log[r][m]
        /\ \A q \in Run : q # r => log'[q] = log[q]
        /\ n \in 1..MaxFrames
    BY <1>1, <1>2, AppendProperties
  <1>4. \A m \in 1..n - 1 : log[r][m] = "done" => m = n - 1 /\ m > 2
    BY DEF TypeInv, LogInv
  <1>5. {"session", "run", "done"} \cap (Card \cup Chunk) = {}
    BY RunStreamAssumption
  <1>6. /\ \A m \in 1..n - 1 : log[r][m] # "done"
        /\ k = "run" <=> n = 2
        /\ k = "done" => n > 2
    <2>1. CASE n = 1
      BY <1>1, <1>3, <2>1 DEF Follows
    <2>2. CASE n = 2
      <3>0. Len(log[r]) = 1
        <4> DEFINE l == Len(log[r])
        <4>1. l \in Nat /\ l + 1 = 2
          BY <1>2, <2>2
        <4> HIDE DEF l
        <4>2. l = 1
          BY <4>1
        <4>3. QED
          BY <4>2 DEF l
      <3>1. k = "run"
        BY <1>1, <3>0 DEF Follows
      <3>2. \A m \in 1..n - 1 : log[r][m] # "done"
        BY <1>4, <2>2
      <3>3. QED
        BY <2>2, <3>1, <3>2
    <2>3. CASE n > 2
      <3>1. log[r][n - 1] # "done" /\ k \in {"done"} \cup Card \cup Chunk
        BY <1>1, <1>3, <2>3 DEF Follows
      <3>2. QED
        BY <1>4, <1>5, <2>3, <3>1
    <2>4. QED
      BY <1>3, <2>1, <2>2, <2>3
  <1>7. /\ IF sse # None /\ sse.run = r THEN Frame(r, n, k, sse, Offered(r, n))
           ELSE es' = Offered(r, n) /\ UNCHANGED <<page, sse, drawn, owner>>
        /\ lapses' \in {lapses, lapses \cup {"overflow"}}
        /\ es # None /\ es.run = r /\ ~(Len(es.chan) < Buffer) => "overflow" \in lapses'
    BY Zenon DEF Emit, Offered
  <1>8. QED
    BY <1>1, <1>3, <1>6, <1>7

\* The next frame of a subscription, and what is then left of it.
Rest == IF es.back # <<>> THEN [es EXCEPT !.back = Tail(@)] ELSE [es EXCEPT !.chan = Tail(@)]

LEMMA TailOfConcat ==
    ASSUME NEW S, NEW b \in Seq(S), NEW c \in Seq(S), b # <<>>
    PROVE  Tail(b) \o c = Tail(b \o c)
  <1>1. /\ Tail(b) \in Seq(S) /\ Len(Tail(b)) = Len(b) - 1 /\ Len(b) \in Nat \ {0}
        /\ \A i \in 1..Len(b) - 1 : Tail(b)[i] = b[i + 1]
    BY HeadTailProperties, EmptySeq
  <1>2. /\ b \o c \in Seq(S) /\ Len(b \o c) = Len(b) + Len(c) /\ Len(c) \in Nat
        /\ \A i \in 1..Len(b) + Len(c) : (b \o c)[i] = IF i <= Len(b) THEN b[i] ELSE c[i - Len(b)]
    BY ConcatProperties
  <1>3. b \o c # <<>>
    BY <1>1, <1>2
  <1>4. /\ Tail(b \o c) \in Seq(S) /\ Len(Tail(b \o c)) = Len(b) + Len(c) - 1
        /\ \A i \in 1..Len(b) + Len(c) - 1 : Tail(b \o c)[i] = (b \o c)[i + 1]
    BY <1>2, <1>3, HeadTailProperties
  <1>5. /\ Tail(b) \o c \in Seq(S) /\ Len(Tail(b) \o c) = Len(b) + Len(c) - 1
        /\ \A i \in 1..Len(b) + Len(c) - 1 :
              (Tail(b) \o c)[i] = IF i <= Len(b) - 1 THEN Tail(b)[i] ELSE c[i - (Len(b) - 1)]
    BY <1>1, <1>2, ConcatProperties
  <1>6. \A i \in 1..Len(b) + Len(c) - 1 : (Tail(b) \o c)[i] = Tail(b \o c)[i]
    BY <1>1, <1>2, <1>4, <1>5
  <1>7. QED
    BY <1>4, <1>5, <1>6, SeqEqual

LEMMA ReadFacts ==
    ASSUME TypeInv, ReadEs, NEW n, n = Head(Coming(es))
    PROVE  /\ es # None /\ es.run \in Run /\ Coming(es) \in Seq(1..Len(log[es.run]))
           /\ Coming(es) # <<>> /\ n = Coming(es)[1] /\ n \in 1..Len(log[es.run])
           /\ Frame(es.run, n, log[es.run][n], sse, Rest)
           /\ Rest.run = es.run /\ Rest.closed = es.closed
           /\ Rest.back \in Seq(1..Len(log[es.run])) /\ Rest.chan \in Seq(1..Len(log[es.run]))
           /\ Coming(Rest) = Tail(Coming(es)) /\ Len(Rest.chan) <= Len(es.chan)
           /\ Rest \in EsType
           /\ UNCHANGED <<log, status, cancels, bySess, probes, breaks, ops, lapses>>
  <1> DEFINE L == 1..Len(log[es.run])
  <1>1. es # None /\ Coming(es) # <<>> /\ Frame(es.run, n, log[es.run][n], sse, Rest)
    BY DEF ReadEs, Rest
  <1>2. UNCHANGED <<log, status, cancels, bySess, probes, breaks, ops, lapses>>
    BY DEF ReadEs, serverVars, bounds
  <1>3. es \in EsType /\ es.run \in Run
    BY <1>1 DEF TypeInv, TypeOK, EsType
  <1>4. es.back \in Seq(L) /\ es.chan \in Seq(L)
    BY <1>1, <1>3 DEF TypeInv, LogInv
  <1> HIDE DEF L
  <1>5. Coming(es) \in Seq(L)
    BY <1>4, ConcatProperties DEF Coming
  <1>6. n \in L /\ n = Coming(es)[1]
    BY <1>1, <1>5, HeadTailProperties
  <1>7. CASE es.back # <<>>
    <2>1. Rest = [es EXCEPT !.back = Tail(@)] /\ Tail(es.back) \in Seq(L)
      BY <1>4, <1>7, HeadTailProperties DEF Rest
    <2>2. Tail(es.back) \in Seq(1..MaxFrames)
      BY <1>3, <1>7, HeadTailProperties DEF EsType
    <2>3. /\ Rest.run = es.run /\ Rest.closed = es.closed /\ Rest.back = Tail(es.back)
          /\ Rest.chan = es.chan /\ Rest \in EsType
      BY <1>3, <2>1, <2>2 DEF EsType
    <2>4. Coming(Rest) = Tail(Coming(es))
      BY <1>4, <1>7, <2>3, TailOfConcat DEF Coming
    <2>5. Len(Rest.chan) <= Len(es.chan)
      BY <1>4, <2>3
    <2>6. QED
      BY <1>1, <1>2, <1>3, <1>4, <1>5, <1>6, <2>1, <2>3, <2>4, <2>5, Zenon DEF L
  <1>8. CASE es.back = <<>>
    <2>1. es.chan # <<>> /\ Coming(es) = es.chan
      BY <1>1, <1>4, <1>8, ConcatEmptySeq DEF Coming
    <2>2. Rest = [es EXCEPT !.chan = Tail(@)] /\ Tail(es.chan) \in Seq(L)
          /\ Len(Tail(es.chan)) = Len(es.chan) - 1 /\ Len(es.chan) \in Nat
      BY <1>4, <1>8, <2>1, HeadTailProperties DEF Rest
    <2>3. Tail(es.chan) \in Seq(1..MaxFrames)
      BY <1>3, <2>1, HeadTailProperties DEF EsType
    <2>4. /\ Rest.run = es.run /\ Rest.closed = es.closed /\ Rest.back = es.back
          /\ Rest.chan = Tail(es.chan) /\ Rest \in EsType
      BY <1>3, <2>2, <2>3 DEF EsType
    <2>5. Coming(Rest) = Tail(Coming(es))
      BY <1>8, <2>1, <2>2, <2>4, ConcatEmptySeq DEF Coming
    <2>6. Len(Rest.chan) <= Len(es.chan)
      BY <2>2, <2>4
    <2>7. QED
      BY <1>1, <1>2, <1>3, <1>4, <1>5, <1>6, <2>2, <2>4, <2>5, <2>6, Zenon DEF L
  <1>9. QED
    BY <1>7, <1>8

-----------------------------------------------------------------------------
(* What a step does to what the page shows *)

Loading == \E p \in probes : p.at = "load"

\* A run that has begun stays so, and what is swept stays swept.
Grows ==
    \A r \in Run : /\ status[r] # "new" => status'[r] # "new"
                   /\ status[r] = "swept" => status'[r] = "swept"

\* Nothing is said, drawn or joined; a stream may be lost, and what was on the
\* way goes only with its run.
Calm ==
    /\ UNCHANGED <<log, page, drawn, owner, lapses>>
    /\ sse' = None \/ (sse # None /\ sse' \in [run : Run, closed : BOOLEAN] /\ sse'.run = sse.run)
    /\ es' = None \/ /\ es # None /\ es' \in EsType /\ es'.run = es.run
                     /\ \/ es'.back = es.back /\ es'.chan = es.chan
                        \/ es'.back = <<>> /\ es'.chan = <<>> /\ status'[es.run] = "swept"
    /\ Loading' <=> Loading

\* The answer to a send ends before the turn has told its run.
Ended ==
    /\ sse # None /\ page.run = None
    /\ page' = [page EXCEPT !.turn = FALSE] /\ sse' = None /\ es' = None
    /\ UNCHANGED <<log, status, drawn, owner, lapses, probes>>

Opened ==
    /\ page' = [page EXCEPT !.run = None, !.count = 0, !.turn = FALSE]
    /\ sse' = None /\ es' = None /\ owner' = None /\ Loading'
    /\ UNCHANGED <<log, status, drawn, lapses>>

Loaded ==
    /\ Loading /\ drawn' = [r \in Run |-> <<>>]
    /\ lapses' = IF page.count # 0 THEN lapses \cup {"astray"} ELSE lapses
    /\ UNCHANGED <<log, status, page, sse, es, owner>>

Joined(r) ==
    /\ Subscribe(r) /\ status[r] # "new" /\ (Loading' => Loading)
    /\ UNCHANGED <<log, status>>

LEMMA StatusGrows == RegistryInv /\ [Next]_vars => Grows
  <1> SUFFICES ASSUME RegistryInv, [Next]_vars PROVE Grows
    OBVIOUS
  <1>0. status \in [Run -> {"new", "running", "closed", "swept"}]
    BY DEF RegistryInv, RegistryTypes
  <1>1. ASSUME NEW r \in Run, CreateElsewhere(r) \/ Send(r) PROVE Grows
    BY <1>0, <1>1 DEF CreateElsewhere, Send, NextRun, Create, Grows
  <1>2. ASSUME NEW r \in Run, Cancel(r) \/ Sweep(r) \/ Complete(r) \/ CancelPrev(r) PROVE Grows
    BY <1>0, <1>2 DEF Cancel, Sweep, Complete, CancelPrev, Grows
  <1>3. CASE status' = status
    BY <1>3 DEF Grows
  <1>4. ASSUME NEW r \in Run, NEW k \in Kind, Emit(r, k) PROVE status' = status
    BY <1>4 DEF Emit
  <1>5. CASE PageStep
    <2>1. ASSUME ReadEs \/ SseEnds \/ EsEnds PROVE status' = status
      BY <2>1 DEF ReadEs, SseEnds, EsEnds, serverVars
    <2>2. ASSUME NEW p \in probes, Load(p) \/ Answer(p) \/ Resume(p) \/ Rejoin(p) \/ Retry(p)
          PROVE  status' = status
      BY <2>2 DEF Load, Answer, Resume, Rejoin, Retry, serverVars
    <2>3. QED
      BY <1>3, <1>5, <2>1, <2>2 DEF PageStep
  <1>6. ASSUME NEW p \in probes, ProbeFails(p) PROVE status' = status
    BY <1>6 DEF ProbeFails, serverVars
  <1>7. ASSUME NEW long \in BOOLEAN, BackOnPage(long) PROVE status' = status
    BY <1>7 DEF BackOnPage, serverVars
  <1>8. CASE Reopen \/ UNCHANGED vars
    BY <1>3, <1>8 DEF Reopen, vars, serverVars
  <1>9. CASE Crash
    BY <1>0, <1>9 DEF Crash, Grows
  <1>10. QED
    BY <1>1, <1>2, <1>3, <1>4, <1>5, <1>6, <1>7, <1>8, <1>9 DEF Next, Serve

LEMMA StreamTypes ==
    ASSUME TypeInv
    PROVE  /\ sse # None => sse \in [run : Run, closed : BOOLEAN]
           /\ es # None => es \in EsType
  BY DEF TypeInv, TypeOK, EsType

LEMMA UnchangedIsCalm ==
    ASSUME TypeInv, UNCHANGED <<log, page, drawn, owner, lapses, sse, es>>, Loading' <=> Loading
    PROVE  Calm
  BY StreamTypes DEF Calm

LEMMA LostIsCalm ==
    ASSUME TypeInv, UNCHANGED <<log, page, drawn, owner, lapses>>, sse' = None, es' = None,
           Loading' <=> Loading
    PROVE  Calm
  BY DEF Calm

\* A recheck asks for the session's run, or leaves it to the one under way.
LEMMA RecheckLoadsNothing ==
    ASSUME NEW old, \A p \in old : p.at # "load", Recheck(old)
    PROVE  Loading' <=> Loading
  BY DEF Recheck, Ask, Loading

\* The steps of the server that say nothing.
LEMMA ServerIsCalm ==
    ASSUME TypeInv, RegistryInv, NEW r \in Run,
           CreateElsewhere(r) \/ CancelPrev(r) \/ Cancel(r) \/ Sweep(r) \/ Complete(r) \/ Crash
    PROVE  Calm
  <1>1. CASE CreateElsewhere(r) \/ CancelPrev(r) \/ Cancel(r) \/ Sweep(r)
    <2>1. UNCHANGED <<log, pageVars, histVars>>
      BY <1>1 DEF CreateElsewhere, Create, CancelPrev, Cancel, Sweep
    <2>2. QED
      BY <2>1, UnchangedIsCalm DEF pageVars, histVars, Loading
  <1>2. CASE Complete(r)
    <2>1. UNCHANGED <<log, page, drawn, owner, lapses, probes>>
      BY <1>2 DEF Complete, histVars
    <2>2. sse' = None \/ (sse # None /\ sse' \in [run : Run, closed : BOOLEAN] /\ sse'.run = sse.run)
      <3>1. sse' = IF sse # None /\ sse.run = r THEN [sse EXCEPT !.closed = TRUE] ELSE sse
        BY <1>2 DEF Complete
      <3>2. QED
        BY <3>1, StreamTypes
    <2>3. es' = None \/ /\ es # None /\ es' \in EsType /\ es'.run = es.run
                        /\ es'.back = es.back /\ es'.chan = es.chan
      <3>1. es' = IF es # None /\ es.run = r THEN [es EXCEPT !.closed = TRUE] ELSE es
        BY <1>2 DEF Complete
      <3>2. QED
        BY <3>1, StreamTypes DEF EsType
    <2>4. QED
      BY <2>1, <2>2, <2>3 DEF Calm, Loading
  <1>3. CASE Crash
    <2>1. UNCHANGED <<log, page, drawn, owner, lapses, probes>>
      BY <1>3 DEF Crash, histVars
    <2>2. sse' = None \/ (sse # None /\ sse' \in [run : Run, closed : BOOLEAN] /\ sse'.run = sse.run)
      <3>1. sse' = IF sse = None THEN None ELSE [sse EXCEPT !.closed = TRUE]
        BY <1>3 DEF Crash
      <3>2. QED
        BY <3>1, StreamTypes
    <2>3. es' = None \/ /\ es # None /\ es' \in EsType /\ es'.run = es.run
                        /\ es'.back = <<>> /\ es'.chan = <<>> /\ status'[es.run] = "swept"
      <3>1. /\ es' = IF es = None THEN None
                     ELSE [es EXCEPT !.back = <<>>, !.chan = <<>>, !.closed = TRUE]
            /\ status' = [q \in Run |-> IF status[q] = "new" THEN "new" ELSE "swept"]
        BY <1>3 DEF Crash
      <3>2. <<>> \in Seq(1..MaxFrames)
        BY EmptySeq
      <3>3. es # None => es \in EsType /\ es.run \in Run /\ status[es.run] # "new"
        BY StreamTypes DEF EsType, TypeInv, StreamInv
      <3>4. QED
        BY <3>1, <3>2, <3>3 DEF EsType
    <2>4. QED
      BY <2>1, <2>2, <2>3 DEF Calm, Loading
  <1>4. QED
    BY <1>1, <1>2, <1>3

\* The ways a stream can go.
LEMMA StreamGoneCases ==
    ASSUME TypeInv, SseEnds \/ EsEnds
    PROVE  Calm \/ Ended
  <1>1. ~page.end
    BY DEF TypeInv, StreamInv, SseEnds, EsEnds
  <1>2. UNCHANGED <<log, status, drawn, owner, lapses>>
    BY DEF SseEnds, EsEnds, serverVars, histVars
  <1>3. CASE StreamLost
    <2>1. sse' = None /\ es' = None /\ UNCHANGED page /\ Recheck({})
      BY <1>3 DEF StreamLost
    <2>2. QED
      BY <1>2, <2>1, LostIsCalm, RecheckLoadsNothing
  <1>4. CASE ~StreamLost
    <2>1. SseEnds /\ sse # None /\ page.run = None /\ Idle(page) /\ UNCHANGED probes
      BY <1>1, <1>4 DEF SseEnds, EsEnds, StreamGone
    <2>2. QED
      BY <1>2, <2>1 DEF Ended, Idle
  <1>5. QED
    BY <1>3, <1>4

LEMMA OpenCases ==
    ASSUME NEW old, OpenSession(old), UNCHANGED serverVars
    PROVE  Opened
  <1>1. Ask("open", "load") \in probes' /\ Ask("open", "load").at = "load"
    BY DEF OpenSession, Ask
  <1>2. Loading'
    BY <1>1 DEF Loading
  <1>3. QED
    BY <1>2 DEF OpenSession, Opened, serverVars

LEMMA ProbeCases ==
    ASSUME TypeInv, NEW p \in probes,
           Load(p) \/ Answer(p) \/ Resume(p) \/ Rejoin(p) \/ Retry(p) \/ ProbeFails(p)
    PROVE  Calm \/ Opened \/ Loaded \/ (\E r \in Run : Joined(r))
  <1>0. UNCHANGED serverVars
    BY DEF Load, Answer, Resume, Rejoin, Retry, ProbeFails
  <1>1. CASE Load(p)
    BY <1>0, <1>1 DEF Load, Loaded, Loading, serverVars
  <1>2. CASE Answer(p) \/ ProbeFails(p)
    <2>0. p.at # "load" /\ p \in Probe
      BY <1>2 DEF Answer, ProbeFails, TypeInv, TypeOK
    <2>1. Loading' <=> Loading
      <3>1. CASE Answer(p)
        <4> DEFINE q == [p EXCEPT !.at = "reply", !.ans = BySession]
        <4>1. q.at = "reply"
          BY <2>0 DEF Probe
        <4>2. probes' = (probes \ {p}) \cup {q}
          BY <3>1 DEF Answer
        <4> HIDE DEF q
        <4>3. QED
          BY <2>0, <4>1, <4>2 DEF Loading
      <3>2. CASE ProbeFails(p)
        BY <2>0, <3>2 DEF ProbeFails, Ask, Loading
      <3>3. QED
        BY <1>2, <3>1, <3>2
    <2>2. QED
      BY <1>0, <1>2, <2>1, UnchangedIsCalm DEF Answer, ProbeFails, serverVars, histVars
  <1>3. CASE Retry(p)
    <2>1. Loading' <=> Loading
      BY <1>3, RecheckLoadsNothing DEF Retry
    <2>2. QED
      BY <1>0, <1>3, <2>1, UnchangedIsCalm DEF Retry, serverVars, histVars
  <1>4. ASSUME p.at = "reply", p.ans # None, Subscribe(p.ans), probes' = probes \ {p}
        PROVE  Joined(p.ans) /\ p.ans \in Run
    <2>1. p.ans \in Run /\ status[p.ans] # "new"
      BY <1>4 DEF TypeInv, TypeOK, BegunInv, Probe
    <2>2. Loading' => Loading
      BY <1>4 DEF Loading
    <2>3. QED
      BY <1>0, <1>4, <2>1, <2>2 DEF Joined, serverVars
  <1>5. ASSUME p.at = "reply", probes' = probes \ {p}, UNCHANGED <<page, sse, es, histVars>>
        PROVE  Calm
    <2>1. Loading' <=> Loading
      BY <1>5 DEF Loading
    <2>2. QED
      BY <1>0, <1>5, <2>1, UnchangedIsCalm DEF serverVars, histVars
  <1>6. CASE Resume(p)
    BY <1>4, <1>5, <1>6 DEF Resume
  <1>7. CASE Rejoin(p)
    BY <1>0, <1>4, <1>5, <1>7, OpenCases DEF Rejoin
  <1>8. QED
    BY <1>1, <1>2, <1>3, <1>6, <1>7

LEMMA StepCases ==
    ASSUME TypeInv, RegistryInv, [Next]_vars
    PROVE  \/ Calm \/ Ended \/ Opened \/ Loaded \/ ReadEs
           \/ \E r \in Run : Joined(r) \/ Send(r) \/ \E k \in Kind : Emit(r, k)
  <1>1. ASSUME NEW r \in Run, CreateElsewhere(r) \/ Cancel(r) \/ Sweep(r) PROVE Calm
    BY <1>1, ServerIsCalm
  <1>2. CASE Serve
    BY <1>2, ServerIsCalm DEF Serve
  <1>3. CASE PageStep
    BY <1>3, StreamGoneCases, ProbeCases DEF PageStep
  <1>4. ASSUME NEW p \in probes, ProbeFails(p)
        PROVE  Calm \/ Opened \/ Loaded \/ (\E r \in Run : Joined(r))
    BY <1>4, ProbeCases
  <1>5. ASSUME NEW long \in BOOLEAN, BackOnPage(long) PROVE Calm
    <2>1. UNCHANGED <<log, drawn, owner, lapses>>
      BY <1>5 DEF BackOnPage, serverVars, histVars
    <2>2. CASE StreamLost
      BY <2>1, <2>2, LostIsCalm, RecheckLoadsNothing DEF StreamLost
    <2>3. CASE Recheck({}) /\ UNCHANGED <<page, sse, es>>
      BY <2>1, <2>3, UnchangedIsCalm, RecheckLoadsNothing
    <2>4. QED
      BY <1>5, <2>2, <2>3 DEF BackOnPage
  <1>6. CASE Reopen
    BY <1>6, OpenCases DEF Reopen
  <1>7. CASE Crash
    <2>1. 1 \in Run
      BY RunStreamAssumption DEF Run
    <2>2. QED
      BY <1>7, <2>1, ServerIsCalm
  <1>8. CASE UNCHANGED vars
    BY <1>8, UnchangedIsCalm DEF vars, serverVars, pageVars, histVars, Loading
  <1>9. QED
    BY <1>1, <1>2, <1>3, <1>4, <1>5, <1>6, <1>7, <1>8 DEF Next

\* What joining a run does.
LEMMA JoinFacts ==
    ASSUME TypeInv, NEW r \in Run, Subscribe(r)
    PROVE  /\ es' \in EsType /\ es'.run = r /\ es'.chan = <<>> /\ Len(es'.chan) <= Buffer
           /\ es'.back = IF status[r] = "swept" THEN <<>> ELSE Backlog(r, page.count)
           /\ es'.back \in Seq(1..Len(log[r])) /\ Coming(es') = es'.back
           /\ page' \in PageType /\ page'.count = page.count /\ page'.run = r
           /\ page'.turn /\ ~page'.end
           /\ UNCHANGED <<sse, owner>>
           /\ lapses \subseteq lapses' /\ lapses' \subseteq {"astray", "ahead", "trimmed", "overflow"}
           /\ drawn' = IF "astray" \in lapses' THEN [q \in Run |-> <<>>] ELSE drawn
           /\ "astray" \notin lapses' => /\ sse = None /\ ~Loading
                                         /\ page.count # 0 => owner = r
           /\ "trimmed" \notin lapses' => Oldest(r) <= page.count + 1
  <1> DEFINE since == page.count
             back == IF status[r] = "swept" THEN <<>> ELSE Backlog(r, since)
             L == 1..Len(log[r])
             stray == sse # None \/ (since # 0 /\ owner # r) \/ Loading
  <1>1. page \in PageType /\ log[r] \in Seq(Kind) /\ Len(log[r]) \in Nat /\ Len(log[r]) <= MaxFrames
        /\ lapses \subseteq {"astray", "ahead", "trimmed", "overflow"} /\ Buffer \in Nat
    BY RunStreamAssumption DEF TypeInv, TypeOK, PageType
  <1>2. since \in Nat
    BY <1>1 DEF PageType
  <1>3. back \in Seq(L) /\ <<>> \in Seq(L)
    BY <1>1, <1>2, BacklogFacts, EmptySeq
  <1>4. L \subseteq 1..MaxFrames
    BY <1>1, RunStreamAssumption
  <1>5. es' = [run |-> r, back |-> back, chan |-> <<>>, closed |-> status[r] # "running"]
    BY DEF Subscribe
  <1>6. page' = [page EXCEPT !.run = r, !.turn = TRUE, !.end = FALSE] /\ UNCHANGED <<sse, owner>>
    BY DEF Subscribe
  <1>7. PICK ahead \in SUBSET {"ahead"} :
            Lapse((IF stray THEN {"astray"} ELSE {}) \cup ahead
                  \cup (IF Oldest(r) > since + 1 THEN {"trimmed"} ELSE {}))
    BY DEF Subscribe, Loading
  <1> DEFINE new == (IF stray THEN {"astray"} ELSE {}) \cup ahead
                    \cup (IF Oldest(r) > since + 1 THEN {"trimmed"} ELSE {})
  <1>8. /\ lapses' = lapses \cup new
        /\ drawn' = IF "astray" \in lapses' THEN [q \in Run |-> <<>>] ELSE drawn
    BY <1>7 DEF Lapse
  <1>9. /\ new \subseteq {"astray", "ahead", "trimmed", "overflow"}
        /\ stray => "astray" \in new
        /\ Oldest(r) > since + 1 => "trimmed" \in new
    OBVIOUS
  <1>10. Oldest(r) \in Int
    <2> DEFINE x == Len(log[r]) - Ring + 1
    <2>1. x \in Int
      BY <1>1, RunStreamAssumption
    <2> HIDE DEF x
    <2>2. \E y \in {1, x} : \A z \in {1, x} : y >= z
      BY <2>1
    <2>3. QED
      BY <2>1, <2>2 DEF Oldest, Max, x
  <1> HIDE DEF back, L, new
  <1>11. back \in Seq(1..MaxFrames) /\ <<>> \in Seq(1..MaxFrames)
    BY <1>3, <1>4, SeqMonotonic, EmptySeq
  <1>12. es' \in EsType /\ es'.run = r /\ es'.chan = <<>> /\ es'.back = back
    BY <1>5, <1>11 DEF EsType
  <1>13. Coming(es') = back /\ Len(<<>>) = 0
    BY <1>3, <1>12, ConcatEmptySeq DEF Coming
  <1>14. page' \in PageType /\ page'.count = since /\ page'.run = r /\ page'.turn /\ ~page'.end
    BY <1>1, <1>6 DEF PageType
  <1>15. "trimmed" \notin lapses' => Oldest(r) <= since + 1
    BY <1>2, <1>8, <1>9, <1>10
  <1>16. "astray" \notin lapses' => sse = None /\ ~Loading /\ (since # 0 => owner = r)
    BY <1>8, <1>9
  <1>17. lapses \subseteq lapses' /\ lapses' \subseteq {"astray", "ahead", "trimmed", "overflow"}
    BY <1>1, <1>8, <1>9
  <1>18. Len(es'.chan) <= Buffer
    BY <1>1, <1>12, <1>13
  <1>19. QED
    BY <1>3, <1>6, <1>8, <1>12, <1>13, <1>14, <1>15, <1>16, <1>17, <1>18 DEF back, L

-----------------------------------------------------------------------------
(* Types, step by step *)

\* The part of TypeOK that a step's effect on the page decides.
ShownTypes ==
    /\ log \in [Run -> Seq(Kind)] /\ \A r \in Run : Len(log[r]) <= MaxFrames
    /\ page \in PageType
    /\ sse = None \/ sse \in [run : Run, closed : BOOLEAN]
    /\ es = None \/ (es \in EsType /\ Len(es.chan) <= Buffer)
    /\ drawn \in [Run -> Seq(1..MaxFrames)]
    /\ owner \in Run \cup {None}
    /\ lapses \subseteq {"astray", "ahead", "trimmed", "overflow"}

ShownInv == ShownTypes /\ LogInv /\ StreamInv

LEMMA TypesShown ==
    ASSUME TypeInv
    PROVE  ShownInv
  BY DEF TypeInv, TypeOK, ShownInv, ShownTypes, PageType, EsType

LEMMA CalmTypes ==
    ASSUME TypeInv, Grows, Calm
    PROVE  ShownInv'
  <1>1. ShownInv /\ Buffer \in Nat /\ Len(<<>>) = 0
    BY TypesShown, RunStreamAssumption, EmptySeq
  <1>2. ShownTypes'
    BY <1>1 DEF ShownInv, ShownTypes, Calm
  <1>3. es' # None => /\ es # None /\ es'.run = es.run
                      /\ \/ es'.back = es.back /\ es'.chan = es.chan
                         \/ es'.back = <<>> /\ es'.chan = <<>>
    BY DEF Calm
  <1>4. LogInv'
    <2> SUFFICES ASSUME NEW r \in Run
                 PROVE  /\ status'[r] = "new" => log[r] = <<>>
                        /\ \A n \in 1..Len(log[r]) :
                              /\ log[r][n] = "run" <=> n = 2
                              /\ log[r][n] = "done" => n = Len(log[r]) /\ n > 2
                        /\ drawn[r] \in Seq(1..Len(log[r]))
                        /\ es' # None /\ es'.run = r => /\ es'.back \in Seq(1..Len(log[r]))
                                                        /\ es'.chan \in Seq(1..Len(log[r]))
      BY DEF LogInv, Calm
    <2>1. <<>> \in Seq(1..Len(log[r]))
      BY EmptySeq
    <2>2. QED
      BY <1>1, <1>3, <2>1 DEF ShownInv, LogInv, Grows
  <1>5. StreamInv'
    <2>1. sse' # None => sse # None /\ sse'.run = sse.run /\ sse.run \in Run
      BY <1>1 DEF Calm, ShownInv, ShownTypes
    <2>2. es' # None => es # None /\ es'.run = es.run /\ es.run \in Run
      BY <1>1 DEF Calm, ShownInv, ShownTypes, EsType
    <2>3. UNCHANGED <<page, owner>>
      BY DEF Calm
    <2>4. QED
      BY <1>1, <2>1, <2>2, <2>3 DEF ShownInv, StreamInv, Grows
  <1>6. QED
    BY <1>2, <1>4, <1>5 DEF ShownInv

\* Without streams, and with the panes as they were or cleared.
LEMMA CutTypes ==
    ASSUME TypeInv, UNCHANGED <<log, status>>, page' \in PageType, sse' = None, es' = None,
           drawn' = drawn, lapses' = lapses, owner' \in {owner, None},
           page'.count = page.count \/ owner' = None
    PROVE  ShownInv'
  <1>1. ShownInv
    BY TypesShown
  <1>2. ShownTypes'
    BY <1>1 DEF ShownInv, ShownTypes
  <1>3. LogInv' /\ StreamInv'
    BY <1>1 DEF ShownInv, LogInv, StreamInv
  <1>4. QED
    BY <1>2, <1>3 DEF ShownInv

LEMMA LoadedTypes ==
    ASSUME TypeInv, Loaded
    PROVE  ShownInv'
  <1>1. ShownInv
    BY TypesShown
  <1>2. /\ UNCHANGED <<log, status, page, sse, es, owner>>
        /\ drawn' = [r \in Run |-> <<>>]
        /\ lapses' \subseteq {"astray", "ahead", "trimmed", "overflow"}
    BY <1>1 DEF Loaded, ShownInv, ShownTypes
  <1>3. \A S : <<>> \in Seq(S)
    BY EmptySeq
  <1>4. ShownTypes'
    BY <1>1, <1>2, <1>3 DEF ShownInv, ShownTypes
  <1>5. LogInv' /\ StreamInv'
    BY <1>1, <1>2, <1>3 DEF ShownInv, LogInv, StreamInv
  <1>6. QED
    BY <1>4, <1>5 DEF ShownInv

LEMMA JoinedTypes ==
    ASSUME TypeInv, NEW r \in Run, Joined(r)
    PROVE  ShownInv'
  <1>1. ShownInv /\ Subscribe(r) /\ status[r] # "new" /\ UNCHANGED <<log, status>>
    BY TypesShown DEF Joined
  <1>2. \A S : <<>> \in Seq(S)
    BY EmptySeq
  <1>3. /\ drawn' = drawn \/ drawn' = [q \in Run |-> <<>>]
        /\ es' \in EsType /\ es'.run = r /\ es'.chan = <<>> /\ Len(es'.chan) <= Buffer
        /\ es'.back \in Seq(1..Len(log[r]))
        /\ page' \in PageType /\ page'.count = page.count /\ page'.turn /\ ~page'.end
        /\ UNCHANGED <<sse, owner>>
        /\ lapses' \subseteq {"astray", "ahead", "trimmed", "overflow"}
    BY <1>1, JoinFacts
  <1>4. drawn' \in [Run -> Seq(1..MaxFrames)]
    <2>1. CASE drawn' = drawn
      BY <1>1, <2>1 DEF ShownInv, ShownTypes
    <2>2. CASE drawn' = [q \in Run |-> <<>>]
      BY <1>2, <2>2
    <2>3. QED
      BY <1>3, <2>1, <2>2
  <1>5. ShownTypes'
    BY <1>1, <1>3, <1>4 DEF ShownInv, ShownTypes
  <1>6. LogInv'
    <2> SUFFICES ASSUME NEW q \in Run
                 PROVE  /\ drawn'[q] \in Seq(1..Len(log[q]))
                        /\ es'.run = q => /\ es'.back \in Seq(1..Len(log[q]))
                                          /\ es'.chan \in Seq(1..Len(log[q]))
      BY <1>1 DEF ShownInv, LogInv
    <2>1. drawn'[q] \in Seq(1..Len(log[q]))
      <3>1. drawn'[q] = drawn[q] \/ drawn'[q] = <<>>
        BY <1>3
      <3>2. QED
        BY <1>1, <1>2, <3>1 DEF ShownInv, LogInv
    <2>2. QED
      BY <1>2, <1>3, <2>1
  <1>7. StreamInv'
    BY <1>1, <1>3 DEF ShownInv, StreamInv
  <1>8. QED
    BY <1>5, <1>6, <1>7 DEF ShownInv

\* What a send does.
LEMMA SendFacts ==
    ASSUME TypeInv, RegistryInv, NEW r \in Run, Send(r)
    PROVE  /\ status[r] = "new" /\ log[r] = <<>> /\ drawn[r] = <<>>
           /\ status' \in [Run -> {"new", "running", "closed", "swept"}] /\ status'[r] = "running"
           /\ \A q \in Run : q # r => status'[q] = status[q]
           /\ sse = None /\ es = None /\ ~page.turn
           /\ sse' \in [run : Run, closed : BOOLEAN] /\ sse'.run = r
           /\ page' \in PageType /\ page'.count = page.count /\ page'.run = None
           /\ page'.turn /\ ~page'.end
           /\ UNCHANGED <<log, es, probes, drawn, owner, lapses>>
  <1>1. ~page.turn /\ status[r] = "new" /\ UNCHANGED <<log, es, probes, drawn, owner, lapses>>
        /\ status' = [status EXCEPT ![r] = "running"]
        /\ page' = [page EXCEPT !.turn = TRUE, !.end = FALSE, !.run = None]
        /\ sse' = [run |-> r, closed |-> FALSE]
    BY DEF Send, NextRun, Create, histVars
  <1>2. page \in PageType /\ status \in [Run -> {"new", "running", "closed", "swept"}]
    BY DEF TypeInv, TypeOK, PageType
  <1>3. log[r] = <<>> /\ drawn[r] \in Seq(1..Len(log[r])) /\ Len(<<>>) = 0
    BY <1>1, EmptySeq DEF TypeInv, LogInv
  <1>4. drawn[r] = <<>>
    <2>1. drawn[r] \in Seq({})
      BY <1>3
    <2>2. QED
      BY <2>1
  <1>5. sse = None /\ es = None
    BY <1>1 DEF TypeInv, StreamInv
  <1>6. page' \in PageType /\ page'.count = page.count /\ page'.run = None
        /\ page'.turn /\ ~page'.end
    BY <1>1, <1>2 DEF PageType
  <1>7. sse' \in [run : Run, closed : BOOLEAN] /\ sse'.run = r
    BY <1>1
  <1>8. QED
    BY <1>1, <1>2, <1>3, <1>4, <1>5, <1>6, <1>7

LEMMA SendTypes ==
    ASSUME TypeInv, RegistryInv, NEW r \in Run, Send(r)
    PROVE  ShownInv'
  <1>1. ShownInv
    BY TypesShown
  <1>2. ShownTypes'
    BY <1>1, SendFacts DEF ShownInv, ShownTypes
  <1>3. LogInv'
    <2>1. UNCHANGED <<log, drawn, es>> /\ \A q \in Run : status'[q] = "new" => status[q] = "new"
      BY SendFacts
    <2>2. QED
      BY <1>1, <2>1 DEF ShownInv, LogInv
  <1>4. StreamInv'
    BY <1>1, SendFacts DEF ShownInv, StreamInv
  <1>5. QED
    BY <1>2, <1>3, <1>4 DEF ShownInv

\* Offering a frame to the subscription of its run, or of another.
LEMMA OfferedFacts ==
    ASSUME TypeInv, es # None, NEW r \in Run, NEW n \in 1..MaxFrames, n = Len(log[r]) + 1
    PROVE  /\ Offered(r, n) \in EsType /\ Offered(r, n).run = es.run
           /\ Len(Offered(r, n).chan) <= Buffer
           /\ es.run # r => Offered(r, n) = es
           /\ es.run = r => /\ Offered(r, n).back \in Seq(1..n) /\ Offered(r, n).chan \in Seq(1..n)
                            /\ Coming(es) \in Seq(1..n - 1)
                            /\ \/ Coming(Offered(r, n)) = Append(Coming(es), n)
                               \/ ~(Len(es.chan) < Buffer) /\ Offered(r, n) = es
  <1> DEFINE o == Offered(r, n)
             L == 1..n
  <1>1. es \in EsType /\ Len(es.chan) <= Buffer /\ Buffer \in Nat
    BY RunStreamAssumption DEF TypeInv, TypeOK, EsType
  <1>2. log[r] \in Seq(Kind) /\ 1..Len(log[r]) = 1..n - 1 /\ 1..n - 1 \subseteq L /\ n \in L
    BY DEF TypeInv, TypeOK
  <1>3. CASE ~(es.run = r /\ Len(es.chan) < Buffer)
    <2>1. o = es
      BY <1>3 DEF Offered
    <2>2. es.run = r => /\ es.back \in Seq(1..n - 1) /\ es.chan \in Seq(1..n - 1)
                        /\ es.back \in Seq(L) /\ es.chan \in Seq(L)
      BY <1>2, SeqMonotonic DEF TypeInv, LogInv
    <2>3. es.run = r => Coming(es) \in Seq(1..n - 1)
      BY <2>2, ConcatProperties DEF Coming
    <2>4. QED
      BY <1>1, <1>3, <2>1, <2>2, <2>3 DEF EsType
  <1>4. CASE es.run = r /\ Len(es.chan) < Buffer
    <2>1. o = [es EXCEPT !.chan = Append(@, n)]
      BY <1>4 DEF Offered
    <2>2. /\ es.back \in Seq(1..n - 1) /\ es.chan \in Seq(1..n - 1)
          /\ es.back \in Seq(L) /\ es.chan \in Seq(L)
      BY <1>2, <1>4, SeqMonotonic DEF TypeInv, LogInv
    <2>3. es.back \in Seq(1..MaxFrames) /\ es.chan \in Seq(1..MaxFrames)
      BY <1>1 DEF EsType
    <2>4. Append(es.chan, n) \in Seq(1..MaxFrames) /\ Len(Append(es.chan, n)) = Len(es.chan) + 1
      BY <2>3, AppendProperties
    <2>5. o \in EsType /\ o.run = es.run /\ o.back = es.back /\ o.chan = Append(es.chan, n)
      BY <1>1, <2>1, <2>4 DEF EsType
    <2>6. Len(o.chan) <= Buffer
      BY <1>1, <1>4, <2>3, <2>4, <2>5
    <2>7. Append(es.chan, n) \in Seq(L)
      BY <1>2, <2>2, AppendProperties
    <2>8. Coming(es) \in Seq(1..n - 1)
      BY <2>2, ConcatProperties DEF Coming
    <2>9. Coming(o) = Append(Coming(es), n)
      <3> DEFINE b == es.back
                 c == es.chan
      <3>1. b \in Seq(L) /\ c \in Seq(L) /\ <<n>> \in Seq(L) /\ b \o c \in Seq(L) /\ n \in L
        BY <1>2, <2>2, ConcatProperties
      <3>2. Coming(o) = b \o Append(c, n) /\ Coming(es) = b \o c
        BY <2>5 DEF Coming
      <3> HIDE DEF b, c
      <3>3. Append(c, n) = c \o <<n>> /\ Append(b \o c, n) = (b \o c) \o <<n>>
        BY <3>1, AppendIsConcat
      <3>4. b \o (c \o <<n>>) = (b \o c) \o <<n>>
        BY <3>1, ConcatAssociative
      <3>5. QED
        BY <3>2, <3>3, <3>4
    <2>10. QED
      BY <1>4, <2>2, <2>5, <2>6, <2>7, <2>8, <2>9
  <1>5. QED
    BY <1>3, <1>4

\* What a frame leaves of the streams and of the page, said by its own run or
\* read from a subscription.
LEMMA FrameShown ==
    ASSUME TypeInv, NEW r \in Run, NEW n \in 1..MaxFrames, NEW kind, NEW es1,
           Frame(r, n, kind, sse, es1)
    PROVE  /\ page' \in PageType /\ page'.count # 0 /\ owner' \in Run \cup {None}
           /\ drawn' \in [Run -> Seq(1..MaxFrames)]
           /\ drawn'[r] \in {drawn[r], Append(drawn[r], n)}
           /\ \A q \in Run : q # r => drawn'[q] = drawn[q]
           /\ sse' \in {None, sse} /\ es' \in {None, es1}
           /\ sse' # None \/ es' # None => page'.turn = page.turn /\ page'.end = page.end
  <1>1. page \in PageType /\ drawn \in [Run -> Seq(1..MaxFrames)]
    BY TypesShown DEF ShownInv, ShownTypes
  <1>2. drawn' = IF "astray" \in lapses THEN drawn ELSE [drawn EXCEPT ![r] = Append(@, n)]
    BY <1>1, FrameFacts
  <1>3. Append(drawn[r], n) \in Seq(1..MaxFrames)
    BY <1>1, AppendProperties
  <1>4. /\ drawn' \in [Run -> Seq(1..MaxFrames)]
        /\ drawn'[r] \in {drawn[r], Append(drawn[r], n)}
        /\ \A q \in Run : q # r => drawn'[q] = drawn[q]
    BY <1>1, <1>2, <1>3
  <1>5. /\ page' \in PageType /\ page'.count # 0
        /\ owner' = IF kind = "run" \/ page.count = 0 \/ owner = r THEN r ELSE None
        /\ page'.turn = (page.turn /\ kind # "done") /\ page'.end = (page.end \/ kind = "done")
        /\ sse' = (IF kind = "done" THEN None ELSE sse)
        /\ es' = (IF kind = "done" THEN None ELSE es1)
    BY <1>1, FrameFacts
  <1>6. sse' # None \/ es' # None => page'.turn = page.turn /\ page'.end = page.end
    <2>1. page.turn \in BOOLEAN /\ page.end \in BOOLEAN
      BY <1>1 DEF PageType
    <2>2. CASE kind = "done"
      BY <1>5, <2>2
    <2>3. CASE kind # "done"
      BY <1>5, <2>1, <2>3
    <2>4. QED
      BY <2>2, <2>3
  <1>7. QED
    BY <1>4, <1>5, <1>6

LEMMA EmitTypes ==
    ASSUME TypeInv, NEW r \in Run, NEW k \in Kind, Emit(r, k)
    PROVE  ShownInv'
  <1> DEFINE n == Len(log[r]) + 1
             o == Offered(r, n)
  <1>1. ShownInv
    BY TypesShown
  <1>2. /\ n \in 1..MaxFrames /\ status[r] = "running" /\ UNCHANGED status
        /\ log' \in [Run -> Seq(Kind)] /\ Len(log'[r]) = n /\ log'[r][n] = k
        /\ \A m \in 1..n - 1 : log'[r][m] = log[r][m] /\ log[r][m] # "done"
        /\ \A q \in Run : q # r => log'[q] = log[q]
        /\ k = "run" <=> n = 2
        /\ k = "done" => n > 2
        /\ IF sse # None /\ sse.run = r THEN Frame(r, n, k, sse, o)
           ELSE es' = o /\ UNCHANGED <<page, sse, drawn, owner>>
        /\ lapses' \in {lapses, lapses \cup {"overflow"}}
    BY EmitFacts
  <1>3. es = None => o = None
    BY DEF Offered
  <1>4. es # None => /\ o \in EsType /\ o.run = es.run /\ Len(o.chan) <= Buffer
                     /\ es.run # r => o = es
                     /\ es.run = r => o.back \in Seq(1..n) /\ o.chan \in Seq(1..n)
    BY <1>2, OfferedFacts
  <1>5. /\ page' \in PageType /\ owner' \in Run \cup {None}
        /\ page'.count = 0 => owner' = None
        /\ drawn' \in [Run -> Seq(1..MaxFrames)]
        /\ drawn'[r] \in {drawn[r], Append(drawn[r], n)}
        /\ \A q \in Run : q # r => drawn'[q] = drawn[q]
        /\ sse' \in {None, sse} /\ es' \in {None, o}
        /\ sse' # None \/ es' # None => page'.turn = page.turn /\ page'.end = page.end
    <2>1. CASE sse # None /\ sse.run = r
      BY <1>2, <2>1, FrameShown
    <2>2. CASE ~(sse # None /\ sse.run = r)
      BY <1>1, <1>2, <2>2 DEF ShownInv, ShownTypes, StreamInv
    <2>3. QED
      BY <2>1, <2>2
  <1> HIDE DEF o
  <1>6. ShownTypes'
    <2>1. ASSUME NEW q \in Run PROVE Len(log'[q]) <= MaxFrames
      <3>1. CASE q = r
        BY <1>2, <3>1, RunStreamAssumption
      <3>2. CASE q # r
        BY <1>1, <1>2, <3>2 DEF ShownInv, ShownTypes
      <3>3. QED
        BY <3>1, <3>2
    <2>2. sse' = None \/ sse' \in [run : Run, closed : BOOLEAN]
      BY <1>1, <1>5 DEF ShownInv, ShownTypes
    <2>3. es' = None \/ (es' \in EsType /\ Len(es'.chan) <= Buffer)
      BY <1>3, <1>4, <1>5
    <2>4. lapses' \subseteq {"astray", "ahead", "trimmed", "overflow"}
      BY <1>1, <1>2 DEF ShownInv, ShownTypes
    <2>5. QED
      BY <1>2, <1>5, <2>1, <2>2, <2>3, <2>4 DEF ShownTypes
  <1>7. LogInv'
    <2> SUFFICES ASSUME NEW q \in Run
                 PROVE  /\ status[q] = "new" => log'[q] = <<>>
                        /\ \A m \in 1..Len(log'[q]) :
                              /\ log'[q][m] = "run" <=> m = 2
                              /\ log'[q][m] = "done" => m = Len(log'[q]) /\ m > 2
                        /\ drawn'[q] \in Seq(1..Len(log'[q]))
                        /\ es' # None /\ es'.run = q => /\ es'.back \in Seq(1..Len(log'[q]))
                                                        /\ es'.chan \in Seq(1..Len(log'[q]))
      BY <1>2 DEF LogInv
    <2>1. CASE q # r
      <3>1. es' # None /\ es'.run = q => es # None /\ es.run = q /\ es' = es
        BY <1>3, <1>4, <1>5, <2>1
      <3>2. log'[q] = log[q] /\ drawn'[q] = drawn[q]
        BY <1>2, <1>5, <2>1
      <3>3. QED
        BY <1>1, <3>1, <3>2 DEF ShownInv, LogInv
    <2>2. CASE q = r
      <3>1. es' # None /\ es'.run = q => es'.back \in Seq(1..n) /\ es'.chan \in Seq(1..n)
        BY <1>3, <1>4, <1>5, <2>2
      <3>2. drawn'[q] \in Seq(1..n)
        <4>1. drawn[r] \in Seq(1..n - 1) /\ 1..n - 1 \subseteq 1..n /\ n \in 1..n
          BY <1>1, <1>2 DEF ShownInv, ShownTypes, LogInv
        <4>2. drawn[r] \in Seq(1..n)
          BY <4>1, SeqMonotonic
        <4>3. Append(drawn[r], n) \in Seq(1..n)
          BY <4>1, <4>2, AppendProperties
        <4>4. QED
          BY <1>5, <2>2, <4>2, <4>3
      <3>3. \A m \in 1..n : /\ log'[q][m] = "run" <=> m = 2
                            /\ log'[q][m] = "done" => m = n /\ m > 2
        <4> SUFFICES ASSUME NEW m \in 1..n
                     PROVE  /\ log'[r][m] = "run" <=> m = 2
                            /\ log'[r][m] = "done" => m = n /\ m > 2
          BY <2>2
        <4>1. CASE m = n
          BY <1>2, <4>1
        <4>2. CASE m # n
          <5>1. m \in 1..n - 1 /\ m \in 1..Len(log[r])
            BY <1>1, <1>2, <4>2 DEF ShownInv, ShownTypes
          <5>2. log[r][m] = "run" <=> m = 2
            BY <1>1, <5>1 DEF ShownInv, LogInv
          <5>3. QED
            BY <1>2, <5>1, <5>2
        <4>3. QED
          BY <4>1, <4>2
      <3>4. QED
        BY <1>2, <2>2, <3>1, <3>2, <3>3
    <2>3. QED
      BY <2>1, <2>2
  <1>8. StreamInv'
    <2>1. sse' # None => sse # None /\ sse'.run = sse.run
      BY <1>5
    <2>2. es' # None => es # None /\ es'.run = es.run
      BY <1>3, <1>4, <1>5
    <2>3. QED
      BY <1>1, <1>2, <1>5, <2>1, <2>2 DEF ShownInv, StreamInv
  <1>9. QED
    BY <1>6, <1>7, <1>8 DEF ShownInv

LEMMA ReadTypes ==
    ASSUME TypeInv, ReadEs
    PROVE  ShownInv'
  <1> DEFINE r == es.run
             n == Head(Coming(es))
             L == 1..Len(log[r])
  <1>1. ShownInv
    BY TypesShown
  <1>2. /\ es # None /\ r \in Run /\ n \in L
        /\ Frame(r, n, log[r][n], sse, Rest)
        /\ Rest \in EsType /\ Rest.run = r /\ Len(Rest.chan) <= Len(es.chan)
        /\ Rest.back \in Seq(L) /\ Rest.chan \in Seq(L)
        /\ UNCHANGED <<log, status, lapses>>
    BY ReadFacts
  <1>3. Len(es.chan) <= Buffer /\ es.chan \in Seq(L) /\ Rest.chan \in Seq(L) /\ Buffer \in Nat
    BY <1>1, <1>2, RunStreamAssumption DEF ShownInv, ShownTypes, LogInv
  <1>4. Len(Rest.chan) <= Buffer
    BY <1>2, <1>3
  <1>5. log[r] \in Seq(Kind) /\ L \subseteq 1..MaxFrames /\ n \in 1..MaxFrames
    BY <1>1, <1>2, RunStreamAssumption DEF ShownInv, ShownTypes
  <1>6. /\ page' \in PageType /\ page'.count # 0 /\ owner' \in Run \cup {None}
        /\ drawn' \in [Run -> Seq(1..MaxFrames)]
        /\ drawn'[r] \in {drawn[r], Append(drawn[r], n)}
        /\ \A q \in Run : q # r => drawn'[q] = drawn[q]
        /\ sse' \in {None, sse} /\ es' \in {None, Rest}
        /\ sse' # None \/ es' # None => page'.turn = page.turn /\ page'.end = page.end
    BY <1>2, <1>5, FrameShown
  <1> HIDE DEF n
  <1>7. ShownTypes'
    BY <1>1, <1>2, <1>4, <1>6 DEF ShownInv, ShownTypes
  <1>8. LogInv'
    <2>1. drawn[r] \in Seq(L) /\ Append(drawn[r], n) \in Seq(L)
      BY <1>1, <1>2, AppendProperties DEF ShownInv, LogInv
    <2>2. drawn'[r] \in Seq(L)
      BY <1>6, <2>1
    <2>3. ASSUME NEW q \in Run PROVE drawn'[q] \in Seq(1..Len(log[q]))
      BY <1>1, <1>6, <2>2 DEF ShownInv, LogInv
    <2>4. ASSUME NEW q \in Run, es' # None, es'.run = q
          PROVE  es'.back \in Seq(1..Len(log[q])) /\ es'.chan \in Seq(1..Len(log[q]))
      BY <1>2, <1>6, <2>4
    <2>5. QED
      BY <1>1, <1>2, <2>3, <2>4 DEF ShownInv, LogInv
  <1>9. StreamInv'
    <2>1. sse' # None => sse # None /\ sse'.run = sse.run
      BY <1>6
    <2>2. es' # None => es'.run = es.run
      BY <1>2, <1>6
    <2>3. QED
      BY <1>1, <1>2, <1>6, <2>1, <2>2 DEF ShownInv, StreamInv
  <1>10. QED
    BY <1>7, <1>8, <1>9 DEF ShownInv

\* The page's requests, what a probe may answer, and the bounds.
RequestTypes == probes \subseteq Probe /\ breaks \in Nat /\ ops \in Nat

LEMMA AskIsProbe ==
    ASSUME NEW kind \in {"open", "recheck"}, NEW at \in {"load", "ask", "retry"}
    PROVE  Ask(kind, at) \in Probe /\ Ask(kind, at).at # "reply"
  BY DEF Ask, Probe

LEMMA RecheckRequests ==
    ASSUME TypeInv, Grows, NEW old, Recheck(old)
    PROVE  probes' \subseteq Probe /\ BegunInv'
  <1> DEFINE a == Ask("recheck", "ask")
  <1>1. a \in Probe /\ a.at # "reply"
    BY AskIsProbe
  <1>2. \A p \in probes' : p \in probes \/ p = a
    BY DEF Recheck
  <1>3. probes \subseteq Probe /\ \A p \in probes : p.at = "reply" => p.ans \in Run \cup {None}
    BY DEF TypeInv, TypeOK, Probe
  <1> HIDE DEF a
  <1>4. \A p \in probes : p.at = "reply" /\ p.ans # None => status'[p.ans] # "new"
    BY <1>3 DEF TypeInv, BegunInv, Grows
  <1>5. QED
    BY <1>1, <1>2, <1>3, <1>4 DEF BegunInv

\* Requests may go, and one that is not a reply come.
LEMMA RequestsKeep ==
    ASSUME TypeInv, Grows, NEW a \in Probe, a.at # "reply", probes' \subseteq probes \cup {a}
    PROVE  probes' \subseteq Probe /\ BegunInv'
  <1>1. probes \subseteq Probe /\ \A p \in probes : p.at = "reply" => p.ans \in Run \cup {None}
    BY DEF TypeInv, TypeOK, Probe
  <1>2. \A p \in probes : p.at = "reply" /\ p.ans # None => status'[p.ans] # "new"
    BY <1>1 DEF TypeInv, BegunInv, Grows
  <1>3. QED
    BY <1>1, <1>2 DEF BegunInv

LEMMA SpendKeeps ==
    ASSUME breaks \in Nat, ops \in Nat, Break \/ Op \/ UNCHANGED bounds
    PROVE  breaks' \in Nat /\ ops' \in Nat
  BY DEF Break, Op, bounds

LEMMA RequestStep ==
    ASSUME TypeInv, RegistryInv, [Next]_vars
    PROVE  RequestTypes' /\ BegunInv'
  <1>1. Grows
    BY StatusGrows
  <1>2. probes \subseteq Probe /\ breaks \in Nat /\ ops \in Nat
    BY DEF TypeInv, TypeOK
  <1>3. CASE UNCHANGED probes /\ (Break \/ Op \/ UNCHANGED bounds)
    <2>1. probes' \subseteq probes \cup {Ask("open", "ask")}
      BY <1>3
    <2>2. QED
      BY <1>1, <1>2, <1>3, <2>1, AskIsProbe, SpendKeeps, RequestsKeep DEF RequestTypes
  <1>4. ASSUME NEW r \in Run,
               \/ CreateElsewhere(r) \/ Cancel(r) \/ Sweep(r) \/ Send(r) \/ Complete(r)
               \/ CancelPrev(r) \/ \E k \in Kind : Emit(r, k)
        PROVE  UNCHANGED probes /\ (Break \/ Op \/ UNCHANGED bounds)
    BY <1>4 DEF CreateElsewhere, Cancel, Sweep, Send, Complete, CancelPrev, Emit, pageVars
  <1>5. CASE ReadEs \/ Crash \/ UNCHANGED vars
    <2>1. UNCHANGED probes /\ (Break \/ Op \/ UNCHANGED bounds)
      BY <1>5 DEF ReadEs, Crash, vars, pageVars
    <2>2. QED
      BY <1>3, <2>1
  <1>6. CASE SseEnds \/ EsEnds
    <2>1. Break \/ UNCHANGED bounds
      BY <1>6 DEF SseEnds, EsEnds
    <2>2. UNCHANGED probes \/ Recheck({})
      BY <1>6 DEF SseEnds, EsEnds, StreamGone, StreamLost
    <2>3. QED
      BY <1>1, <1>2, <1>3, <2>1, <2>2, SpendKeeps, RecheckRequests DEF RequestTypes
  <1>7. ASSUME NEW p \in probes,
               Load(p) \/ Answer(p) \/ Resume(p) \/ Rejoin(p) \/ Retry(p) \/ ProbeFails(p)
        PROVE  RequestTypes' /\ BegunInv'
    <2>0. breaks' \in Nat /\ ops' \in Nat
      <3>1. Break \/ UNCHANGED bounds
        BY <1>7 DEF Load, Answer, Resume, Rejoin, Retry, ProbeFails
      <3>2. QED
        BY <1>2, <3>1, SpendKeeps
    <2>1. CASE Load(p) \/ ProbeFails(p)
      <3> DEFINE a == IF Load(p) THEN Ask("open", "ask") ELSE Ask("recheck", "retry")
      <3>1. probes' \subseteq probes \cup {a} /\ a \in Probe /\ a.at # "reply"
        BY <2>1, AskIsProbe DEF Load, ProbeFails
      <3> HIDE DEF a
      <3>2. QED
        BY <1>1, <2>0, <3>1, RequestsKeep DEF RequestTypes
    <2>2. CASE Retry(p)
      BY <1>1, <2>0, <2>2, RecheckRequests DEF Retry, RequestTypes
    <2>3. CASE Resume(p)
      <3>1. probes' \subseteq probes \cup {Ask("open", "ask")}
        BY <2>3 DEF Resume
      <3>2. QED
        BY <1>1, <2>0, <3>1, AskIsProbe, RequestsKeep DEF RequestTypes
    <2>4. CASE Rejoin(p)
      <3> DEFINE a == Ask("open", "load")
      <3>1. probes' \subseteq probes \cup {a} /\ a \in Probe /\ a.at # "reply"
        BY <2>4, AskIsProbe DEF Rejoin, OpenSession
      <3> HIDE DEF a
      <3>2. QED
        BY <1>1, <2>0, <3>1, RequestsKeep DEF RequestTypes
    <2>5. CASE Answer(p)
      <3> DEFINE a == [p EXCEPT !.at = "reply", !.ans = BySession]
      <3>1. probes' = (probes \ {p}) \cup {a} /\ p.at = "ask" /\ p \in Probe /\ UNCHANGED status
        BY <1>2, <2>5 DEF Answer, serverVars
      <3>2. BySession \in Run \cup {None} /\ (BySession # None => status[BySession] # "new")
        BY DEF BySession, RegistryInv, RegistryTypes
      <3>3. a \in Probe /\ a.ans = BySession
        BY <3>1, <3>2 DEF Probe
      <3> HIDE DEF a
      <3>4. BegunInv'
        BY <3>1, <3>2, <3>3 DEF TypeInv, BegunInv
      <3>5. QED
        BY <1>2, <2>0, <3>1, <3>3, <3>4 DEF RequestTypes
    <2>6. QED
      BY <1>7, <2>1, <2>2, <2>3, <2>4, <2>5
  <1>8. ASSUME NEW long \in BOOLEAN, BackOnPage(long) PROVE RequestTypes' /\ BegunInv'
    <2>1. Op /\ Recheck({})
      BY <1>8 DEF BackOnPage, StreamLost
    <2>2. QED
      BY <1>1, <1>2, <2>1, SpendKeeps, RecheckRequests DEF RequestTypes
  <1>9. CASE Reopen
    <2> DEFINE a == Ask("open", "load")
    <2>1. Op /\ probes' \subseteq probes \cup {a} /\ a \in Probe /\ a.at # "reply"
      BY <1>9, AskIsProbe DEF Reopen, OpenSession
    <2> HIDE DEF a
    <2>2. QED
      BY <1>1, <1>2, <2>1, SpendKeeps, RequestsKeep DEF RequestTypes
  <1>10. QED
    BY <1>3, <1>4, <1>5, <1>6, <1>7, <1>8, <1>9 DEF Next, Serve, PageStep

LEMMA InitTypes == Init => TypeInv
  <1> SUFFICES ASSUME Init PROVE TypeInv
    OBVIOUS
  <1>1. \A S : <<>> \in Seq(S)
    BY EmptySeq
  <1>2. Len(<<>>) = 0 /\ MaxFrames \in Nat /\ MaxBreaks \in Nat /\ MaxOps \in Nat
    BY RunStreamAssumption, EmptySeq
  <1>3. log \in [Run -> Seq(Kind)] /\ \A r \in Run : Len(log[r]) <= MaxFrames
    BY <1>1, <1>2 DEF Init
  <1>4. drawn \in [Run -> Seq(1..MaxFrames)]
    BY <1>1 DEF Init
  <1>5. TypeOK
    BY <1>2, <1>3, <1>4 DEF Init, TypeOK
  <1>6. LogInv
    BY <1>1, <1>2 DEF Init, LogInv
  <1>7. BegunInv /\ StreamInv
    BY DEF Init, BegunInv, StreamInv
  <1>8. QED
    BY <1>5, <1>6, <1>7 DEF TypeInv

LEMMA StepTypes ==
    ASSUME TypeInv, RegistryInv, [Next]_vars
    PROVE  TypeInv'
  <1>1. RegistryInv' /\ Grows
    BY StepRegistry, StatusGrows
  <1>2. RequestTypes' /\ BegunInv'
    BY RequestStep
  <1>3. page \in PageType
    BY TypesShown DEF ShownInv, ShownTypes
  <1>4. ShownInv'
    <2>1. CASE Ended
      <3>1. page' \in PageType /\ page'.count = page.count
        BY <1>3, <2>1 DEF Ended, PageType
      <3>2. QED
        BY <2>1, <3>1, CutTypes DEF Ended
    <2>2. CASE Opened
      <3>1. page' \in PageType
        BY <1>3, <2>2 DEF Opened, PageType
      <3>2. QED
        BY <2>2, <3>1, CutTypes DEF Opened
    <2>3. QED
      BY <1>1, <2>1, <2>2, StepCases, CalmTypes, LoadedTypes, JoinedTypes, SendTypes,
         EmitTypes, ReadTypes
  <1>5. TypeOK'
    BY <1>1, <1>2, <1>4 DEF TypeOK, RegistryInv, RegistryTypes, RequestTypes, ShownInv, ShownTypes,
       PageType, EsType
  <1>6. QED
    BY <1>2, <1>4, <1>5 DEF TypeInv, ShownInv

\* For any number of runs, any bounds and whatever the person does: every
\* request, stream and history the page and the server keep is of its type; a
\* subscriber's channel never holds more than its capacity (Run.Append drops
\* what does not fit, runs.go), and nothing is drawn that a run has not said.
THEOREM TypesHold == Spec => []TypeOK
  <1> DEFINE I == RegistryInv /\ TypeInv
  <1>1. Init => I
    BY InitRegistry, InitTypes
  <1>2. I /\ [Next]_vars => I'
    BY StepRegistry, StepTypes
  <1>3. I => TypeOK
    BY DEF TypeInv
  <1>4. QED
    BY <1>1, <1>2, <1>3, PTL DEF Spec

-----------------------------------------------------------------------------
(* A page that is not astray *)

Fine    == "astray" \notin lapses
Iota(n) == [i \in 1..n |-> i]

\* A turn the page was shown the start of, and not yet how it ends.
Unfinished(r) == Len(drawn[r]) >= 2 /\ log[r][Last(drawn[r])] # "done"

OneStream == sse = None \/ es = None

CountsWhatIsDrawn ==
    /\ page.count = 0 /\ ~Loading => \A r \in Run : drawn[r] = <<>>
    /\ owner # None => page.count <= Len(log[owner])

\* A page that reads the answer to its send has drawn all of that run; it
\* knows the run, and counts its frames and nothing else, from the run frame on.
AnswerInv ==
    sse # None =>
        LET r == sse.run
            n == Len(log[r])
        IN /\ drawn[r] = Iota(n)
           /\ n >= 2 => page.run = r /\ owner = r
           /\ owner = r => page.count = n
           /\ \A m \in 1..n : log[r][m] # "done"
           /\ page.count = 0 => n = 0
           /\ ~Loading => \A q \in Run : q # r => ~Unfinished(q)

\* A page that follows a run counts it, and what comes is past the count.
TailInv ==
    es # None => /\ ~Loading
                 /\ page.count # 0 => owner = es.run
                 /\ Ascends(Coming(es))
                 /\ Coming(es) # <<>> => Coming(es)[1] > page.count

\* A turn that is not over is the one the page counts and takes for running.
StartedInv ==
    ~Loading => \A r \in Run : Unfinished(r) => r = owner /\ page.turn

FineInv == Fine => OneStream /\ CountsWhatIsDrawn /\ AnswerInv /\ TailInv /\ StartedInv

LEMMA ConcatOfNothing ==
    <<>> \o <<>> = <<>> /\ Ascends(<<>>)
  <1>1. <<>> \in Seq(Nat) /\ Len(<<>>) = 0
    BY EmptySeq
  <1>2. QED
    BY <1>1, ConcatEmptySeq DEF Ascends

LEMMA InitFine == Init => FineInv
  <1> SUFFICES ASSUME Init PROVE FineInv
    OBVIOUS
  <1>1. \A r \in Run : drawn[r] = <<>>
    BY DEF Init
  <1>2. Len(<<>>) = 0
    BY EmptySeq
  <1>3. \A r \in Run : ~Unfinished(r)
    BY <1>1, <1>2 DEF Unfinished
  <1>4. QED
    BY <1>1, <1>3 DEF Init, FineInv, OneStream, CountsWhatIsDrawn, AnswerInv, TailInv, StartedInv

LEMMA CalmFine ==
    ASSUME TypeInv, FineInv, Calm
    PROVE  FineInv'
  <1> SUFFICES ASSUME Fine'
               PROVE  (OneStream /\ CountsWhatIsDrawn /\ AnswerInv /\ TailInv /\ StartedInv)'
    BY DEF FineInv
  <1>1. Fine /\ OneStream /\ CountsWhatIsDrawn /\ AnswerInv /\ TailInv /\ StartedInv
    BY DEF Calm, Fine, FineInv
  <1>2. UNCHANGED <<log, page, drawn, owner>> /\ (Loading' <=> Loading)
    BY DEF Calm
  <1>3. \A r \in Run : Unfinished(r)' <=> Unfinished(r)
    BY <1>2 DEF Unfinished
  <1>4. sse' # None => sse # None /\ sse'.run = sse.run
    BY DEF Calm
  <1>5. es' # None => /\ es # None /\ es'.run = es.run
                      /\ Coming(es') = Coming(es) \/ Coming(es') = <<>>
    BY ConcatOfNothing DEF Calm, Coming
  <1>6. OneStream' /\ CountsWhatIsDrawn' /\ StartedInv'
    BY <1>1, <1>2, <1>3, <1>4, <1>5 DEF OneStream, CountsWhatIsDrawn, StartedInv
  <1>7. AnswerInv'
    BY <1>1, <1>2, <1>3, <1>4 DEF AnswerInv
  <1>8. TailInv'
    <2>1. es' # None /\ Coming(es') = <<>> => Ascends(Coming(es'))
      BY ConcatOfNothing
    <2>2. QED
      BY <1>1, <1>2, <1>5, <2>1 DEF TailInv
  <1>9. QED
    BY <1>6, <1>7, <1>8

LEMMA CutFine ==
    ASSUME TypeInv, FineInv, Ended \/ Opened \/ Loaded
    PROVE  FineInv'
  <1> SUFFICES ASSUME Fine'
               PROVE  (OneStream /\ CountsWhatIsDrawn /\ AnswerInv /\ TailInv /\ StartedInv)'
    BY DEF FineInv
  <1>1. Fine /\ OneStream /\ CountsWhatIsDrawn /\ AnswerInv /\ TailInv /\ StartedInv
    BY DEF Ended, Opened, Loaded, Fine, FineInv
  <1>2. page \in PageType /\ log \in [Run -> Seq(Kind)]
    BY TypesShown DEF ShownInv, ShownTypes
  <1>3. CASE Ended
    <2>1. /\ sse # None /\ page.run = None /\ sse' = None /\ es' = None
          /\ page'.count = page.count
          /\ UNCHANGED <<log, drawn, owner>> /\ (Loading' <=> Loading)
      BY <1>2, <1>3 DEF Ended, PageType, Loading
    <2>2. OneStream' /\ CountsWhatIsDrawn' /\ AnswerInv' /\ TailInv'
      BY <1>1, <2>1 DEF OneStream, CountsWhatIsDrawn, AnswerInv, TailInv
    <2>3. StartedInv'
      <3> DEFINE r == sse.run
      <3>1. r \in Run /\ Len(log[r]) \in Nat /\ drawn[r] = Iota(Len(log[r]))
        BY <1>1, <1>2, <2>1, StreamTypes DEF AnswerInv
      <3>2. Len(log[r]) < 2
        <4>1. Len(log[r]) >= 2 => page.run = r
          BY <1>1, <2>1 DEF AnswerInv
        <4>2. QED
          BY <2>1, <3>1, <4>1, RunsAreNotNone
      <3>3. ~Unfinished(r)
        BY <3>1, <3>2 DEF Unfinished, Iota
      <3>4. ~Loading => \A q \in Run : ~Unfinished(q)
        BY <1>1, <2>1, <3>3 DEF AnswerInv
      <3>5. \A q \in Run : Unfinished(q)' <=> Unfinished(q)
        BY <2>1 DEF Unfinished
      <3>6. QED
        BY <2>1, <3>4, <3>5 DEF StartedInv
    <2>4. QED
      BY <2>2, <2>3
  <1>4. CASE Opened
    <2>1. sse' = None /\ es' = None /\ owner' = None /\ Loading'
      BY <1>4 DEF Opened
    <2>2. QED
      BY <2>1 DEF OneStream, CountsWhatIsDrawn, AnswerInv, TailInv, StartedInv
  <1>5. CASE Loaded
    <2>1. /\ Loading /\ drawn' = [r \in Run |-> <<>>] /\ page.count = 0
          /\ UNCHANGED <<log, status, page, sse, es, owner>> /\ Len(<<>>) = 0
      BY <1>5, EmptySeq DEF Loaded, Fine
    <2>2. es = None
      BY <1>1, <2>1 DEF TailInv
    <2>3. \A r \in Run : drawn'[r] = <<>> /\ ~Unfinished(r)'
      BY <2>1 DEF Unfinished
    <2>4. AnswerInv'
      <3> SUFFICES ASSUME sse # None
                   PROVE  drawn'[sse.run] = Iota(Len(log[sse.run]))
        BY <1>1, <2>1, <2>3, StreamTypes DEF AnswerInv
      <3>1. Len(log[sse.run]) = 0 /\ sse.run \in Run
        BY <1>1, <2>1, StreamTypes DEF AnswerInv
      <3>2. Iota(0) = <<>>
        BY DEF Iota
      <3>3. QED
        BY <2>3, <3>1, <3>2
    <2>5. QED
      BY <1>1, <2>1, <2>2, <2>3, <2>4 DEF OneStream, CountsWhatIsDrawn, TailInv, StartedInv
  <1>6. QED
    BY <1>3, <1>4, <1>5

LEMMA JoinedFine ==
    ASSUME TypeInv, FineInv, NEW r \in Run, Joined(r)
    PROVE  FineInv'
  <1> SUFFICES ASSUME Fine'
               PROVE  (OneStream /\ CountsWhatIsDrawn /\ AnswerInv /\ TailInv /\ StartedInv)'
    BY DEF FineInv
  <1>1. /\ Subscribe(r) /\ UNCHANGED <<log, status>> /\ (Loading' => Loading)
        /\ page.count \in Nat /\ log[r] \in Seq(Kind)
    BY TypesShown DEF Joined, ShownInv, ShownTypes, PageType
  <1>2. /\ es'.run = r /\ Coming(es') = es'.back /\ sse' = None /\ sse = None /\ ~Loading
        /\ es'.back = IF status[r] = "swept" THEN <<>> ELSE Backlog(r, page.count)
        /\ page'.count = page.count /\ page'.turn
        /\ drawn' = drawn /\ owner' = owner /\ lapses \subseteq lapses'
        /\ page.count # 0 => owner = r
    BY <1>1, JoinFacts DEF Fine
  <1>3. Fine /\ CountsWhatIsDrawn /\ StartedInv
    BY <1>2 DEF Fine, FineInv
  <1>4. Ascends(Coming(es')) /\ (Coming(es') # <<>> => Coming(es')[1] > page.count)
    <2>1. CASE status[r] = "swept"
      BY <1>2, <2>1, ConcatOfNothing
    <2>2. CASE status[r] # "swept"
      <3> DEFINE b == Backlog(r, page.count)
      <3>1. b \in Seq(1..Len(log[r])) /\ Ascends(b) /\ \A n \in Range(b) : n > page.count
        BY <1>1, BacklogFacts
      <3>2. Coming(es') = b
        BY <1>2, <2>2
      <3> HIDE DEF b
      <3>3. b # <<>> => b[1] \in Range(b)
        <4>1. b # <<>> => 1 \in DOMAIN b
          BY <3>1
        <4>2. QED
          BY <4>1 DEF Range
      <3>4. QED
        BY <3>1, <3>2, <3>3
    <2>3. QED
      BY <2>1, <2>2
  <1>5. \A q \in Run : Unfinished(q)' <=> Unfinished(q)
    BY <1>1, <1>2 DEF Unfinished
  <1>6. QED
    BY <1>1, <1>2, <1>3, <1>4, <1>5 DEF OneStream, CountsWhatIsDrawn, AnswerInv, TailInv, StartedInv

LEMMA SendFine ==
    ASSUME TypeInv, RegistryInv, FineInv, NEW r \in Run, Send(r)
    PROVE  FineInv'
  <1> SUFFICES ASSUME Fine'
               PROVE  (OneStream /\ CountsWhatIsDrawn /\ AnswerInv /\ TailInv /\ StartedInv)'
    BY DEF FineInv
  <1>1. /\ log[r] = <<>> /\ drawn[r] = <<>> /\ es = None /\ ~page.turn /\ sse'.run = r
        /\ page'.count = page.count /\ page'.turn
        /\ UNCHANGED <<log, es, probes, drawn, owner, lapses>>
    BY SendFacts
  <1>2. Fine /\ CountsWhatIsDrawn /\ StartedInv
    BY <1>1 DEF Fine, FineInv
  <1>3. /\ Loading' <=> Loading
        /\ \A q \in Run : Unfinished(q)' <=> Unfinished(q)
    BY <1>1 DEF Loading, Unfinished
  <1>4. Len(log[r]) = 0 /\ Iota(0) = <<>>
    BY <1>1, EmptySeq DEF Iota
  <1>5. owner = r => page.count = 0
    <2>1. page.count \in Nat
      BY TypesShown DEF ShownInv, ShownTypes, PageType
    <2>2. QED
      BY <1>2, <1>4, <2>1, RunsAreNotNone DEF CountsWhatIsDrawn
  <1>6. AnswerInv'
    BY <1>1, <1>2, <1>3, <1>4, <1>5 DEF AnswerInv, StartedInv
  <1>7. QED
    BY <1>1, <1>2, <1>3, <1>6 DEF OneStream, CountsWhatIsDrawn, TailInv, StartedInv

\* The next frame of a run whose frames so far are drawn is drawn after them.
LEMMA IotaAppend ==
    ASSUME NEW n \in Nat
    PROVE  Append(Iota(n), n + 1) = Iota(n + 1)
  BY DEF Iota

LEMMA AscendsTail ==
    ASSUME NEW s \in Seq(Nat), Ascends(s), s # <<>>
    PROVE  Ascends(Tail(s)) /\ (Tail(s) # <<>> => Tail(s)[1] > s[1])
  <1>1. /\ Tail(s) \in Seq(Nat) /\ Len(Tail(s)) = Len(s) - 1 /\ Len(s) \in Nat \ {0}
        /\ \A i \in 1..Len(s) - 1 : Tail(s)[i] = s[i + 1]
    BY HeadTailProperties, EmptySeq
  <1>2. Ascends(Tail(s))
    BY <1>1 DEF Ascends
  <1>3. Tail(s) # <<>> => Tail(s)[1] > s[1]
    <2>1. Tail(s) # <<>> => 2 \in 1..Len(s) /\ 1 \in 1..Len(s) - 1
      BY <1>1
    <2>2. s \in [1..Len(s) -> Nat]
      OBVIOUS
    <2>3. QED
      BY <1>1, <2>1, <2>2 DEF Ascends
  <1>4. QED
    BY <1>2, <1>3

LEMMA AscendsAppend ==
    ASSUME NEW n \in Nat \ {0}, NEW s \in Seq(1..n - 1), Ascends(s)
    PROVE  /\ Ascends(Append(s, n)) /\ Append(s, n) # <<>>
           /\ Append(s, n)[1] = IF s = <<>> THEN n ELSE s[1]
  <1> DEFINE t == Append(s, n)
             l == Len(s)
  <1>1. /\ Len(t) = l + 1 /\ l \in Nat
        /\ \A i \in 1..l : t[i] = s[i] /\ s[i] \in 1..n - 1
        /\ t[l + 1] = n /\ Len(<<>>) = 0
    BY AppendProperties, ElementOfSeq, EmptySeq
  <1>2. s = <<>> <=> l = 0
    BY EmptySeq
  <1>3. \A i, j \in 1..l : i < j => s[i] < s[j]
    BY DEF Ascends
  <1> HIDE DEF t, l
  <1>4. ASSUME NEW i \in 1..l + 1, NEW j \in 1..l + 1, i < j PROVE t[i] < t[j]
    <2>1. i \in 1..l
      BY <1>1, <1>4
    <2>2. CASE j = l + 1
      <3>1. t[i] = s[i] /\ s[i] \in 1..n - 1 /\ t[j] = n
        BY <1>1, <2>1, <2>2
      <3>2. s[i] < n
        BY <3>1
      <3>3. QED
        BY <3>1, <3>2
    <2>3. CASE j # l + 1
      <3>1. j \in 1..l
        BY <1>1, <2>3
      <3>2. QED
        BY <1>1, <1>3, <1>4, <2>1, <3>1
    <2>4. QED
      BY <2>2, <2>3
  <1>5. Ascends(t)
    BY <1>1, <1>4 DEF Ascends
  <1>6. t # <<>>
    BY <1>1
  <1>7. t[1] = IF s = <<>> THEN n ELSE s[1]
    <2>1. CASE l = 0
      BY <1>1, <1>2, <2>1
    <2>2. CASE l # 0
      <3>1. 1 \in 1..l
        BY <1>1, <2>2
      <3>2. QED
        BY <1>1, <1>2, <2>2, <3>1
    <2>3. QED
      BY <2>1, <2>2
  <1>8. QED
    BY <1>5, <1>6, <1>7 DEF t

LEMMA EmitFine ==
    ASSUME TypeInv, FineInv, NEW r \in Run, NEW k \in Kind, Emit(r, k)
    PROVE  FineInv'
  <1> DEFINE n == Len(log[r]) + 1
             o == Offered(r, n)
  <1> SUFFICES ASSUME Fine'
               PROVE  (OneStream /\ CountsWhatIsDrawn /\ AnswerInv /\ TailInv /\ StartedInv)'
    BY DEF FineInv
  <1>1. /\ n \in 1..MaxFrames
        /\ log' \in [Run -> Seq(Kind)] /\ Len(log'[r]) = n /\ log'[r][n] = k
        /\ \A m \in 1..n - 1 : log'[r][m] = log[r][m] /\ log[r][m] # "done"
        /\ \A q \in Run : q # r => log'[q] = log[q]
        /\ k = "run" <=> n = 2
        /\ k = "done" => n > 2
        /\ IF sse # None /\ sse.run = r THEN Frame(r, n, k, sse, o)
           ELSE es' = o /\ UNCHANGED <<page, sse, drawn, owner>>
        /\ lapses \subseteq lapses' /\ (Loading' <=> Loading)
    <2>1. UNCHANGED probes
      BY EmitFacts
    <2>2. Loading' <=> Loading
      BY <2>1 DEF Loading
    <2>3. /\ n \in 1..MaxFrames
          /\ log' \in [Run -> Seq(Kind)] /\ Len(log'[r]) = n /\ log'[r][n] = k
          /\ \A m \in 1..n - 1 : log'[r][m] = log[r][m] /\ log[r][m] # "done"
          /\ \A q \in Run : q # r => log'[q] = log[q]
      BY EmitFacts
    <2>4. /\ k = "run" <=> n = 2
          /\ k = "done" => n > 2
          /\ IF sse # None /\ sse.run = r THEN Frame(r, n, k, sse, o)
             ELSE es' = o /\ UNCHANGED <<page, sse, drawn, owner>>
      BY EmitFacts
    <2>5. lapses \subseteq lapses'
      BY EmitFacts
    <2> HIDE DEF n, o
    <2>6. QED
      BY <2>2, <2>3, <2>4, <2>5
  <1>2. Fine /\ OneStream /\ CountsWhatIsDrawn /\ AnswerInv /\ TailInv /\ StartedInv
    BY <1>1 DEF Fine, FineInv
  <1>3. /\ page \in PageType /\ page.count \in Nat /\ log \in [Run -> Seq(Kind)]
        /\ drawn \in [Run -> Seq(1..MaxFrames)] /\ n \in Nat /\ n - 1 = Len(log[r])
        /\ \A q \in Run : drawn[q] \in Seq(1..Len(log[q]))
        /\ page.count = 0 => owner = None
        /\ sse # None => page.turn
        /\ owner \in Run \cup {None}
    BY <1>1, TypesShown DEF ShownInv, ShownTypes, PageType, LogInv, StreamInv
  <1>4. None \notin Run
    BY RunsAreNotNone
  <1> HIDE DEF n
  <1>5. \A q \in Run : drawn'[q] = drawn[q] => (Unfinished(q)' <=> Unfinished(q))
    <2> SUFFICES ASSUME NEW q \in Run, drawn'[q] = drawn[q], Len(drawn[q]) >= 2
                 PROVE  log'[q][Last(drawn[q])] = log[q][Last(drawn[q])]
      BY DEF Unfinished
    <2>1. Last(drawn[q]) \in 1..Len(log[q])
      <3>1. drawn[q] \in Seq(1..Len(log[q])) /\ Len(drawn[q]) \in 1..Len(drawn[q])
        BY <1>3
      <3>2. QED
        BY <3>1, ElementOfSeq DEF Last
    <2>2. CASE q = r
      BY <1>1, <1>3, <2>1, <2>2
    <2>3. CASE q # r
      BY <1>1, <2>3
    <2>4. QED
      BY <2>2, <2>3
  <1>6. CASE sse # None /\ sse.run = r
    <2>1. /\ drawn[r] = Iota(n - 1) /\ es = None /\ o = None
          /\ n - 1 >= 2 => owner = r
          /\ owner = r => page.count = n - 1
          /\ page.count = 0 => n - 1 = 0
          /\ ~Loading => \A q \in Run : q # r => ~Unfinished(q)
      BY <1>2, <1>3, <1>6 DEF AnswerInv, OneStream, Offered
    <2>2. /\ drawn' = [drawn EXCEPT ![r] = Append(@, n)]
          /\ owner' = IF k = "run" \/ page.count = 0 \/ owner = r THEN r ELSE None
          /\ page'.count = (IF k = "run" THEN 2 ELSE page.count + 1) /\ page'.count # 0
          /\ page'.run = IF k = "run" THEN r ELSE page.run
          /\ page'.turn = (page.turn /\ k # "done")
          /\ sse' = (IF k = "done" THEN None ELSE sse)
          /\ es' = None
      BY <1>1, <1>2, <1>3, <1>6, <2>1, FrameFacts DEF Fine
    <2>3. /\ drawn'[r] = Iota(n)
          /\ \A q \in Run : q # r => drawn'[q] = drawn[q]
      <3>1. Append(Iota(n - 1), n) = Iota(n)
        <4>1. n - 1 \in Nat /\ (n - 1) + 1 = n
          BY <1>1, <1>3
        <4>2. QED
          BY <4>1, IotaAppend
      <3>2. QED
        BY <1>3, <2>1, <2>2, <3>1
    <2>4. n >= 2 => owner' = r
      BY <1>1, <1>3, <2>1, <2>2
    <2>5. owner' = r => page'.count = n
      BY <1>1, <1>3, <1>4, <2>1, <2>2
    <2>6. n >= 2 => page'.run = r
      <3>1. CASE n = 2
        BY <1>1, <2>2, <3>1
      <3>2. CASE n > 2
        BY <1>1, <1>2, <1>3, <1>6, <2>2, <3>2 DEF AnswerInv
      <3>3. QED
        BY <1>3, <3>1, <3>2
    <2>7. ~Loading => \A q \in Run : q # r => ~Unfinished(q)'
      BY <1>5, <2>1, <2>3
    <2>8. AnswerInv'
      <3> SUFFICES ASSUME k # "done" PROVE \A m \in 1..n : log'[r][m] # "done"
        BY <1>1, <1>6, <2>2, <2>3, <2>4, <2>5, <2>6, <2>7 DEF AnswerInv
      <3> QED
        BY <1>1, <1>3
    <2>9. CountsWhatIsDrawn'
      BY <1>1, <1>3, <1>4, <2>2, <2>5 DEF CountsWhatIsDrawn
    <2>10. StartedInv'
      <3> SUFFICES ASSUME ~Loading, Unfinished(r)' PROVE r = owner' /\ page'.turn
        BY <1>1, <2>7 DEF StartedInv
      <3>1. Len(Iota(n)) = n /\ (n # 0 => Last(Iota(n)) = n)
        BY <1>3 DEF Iota, Last
      <3>2. n >= 2 /\ k # "done"
        BY <1>1, <1>3, <2>3, <3>1 DEF Unfinished
      <3>3. QED
        BY <1>3, <1>6, <2>2, <2>4, <3>2 DEF PageType
    <2>11. OneStream' /\ TailInv'
      BY <2>2 DEF OneStream, TailInv
    <2>12. QED
      BY <2>8, <2>9, <2>10, <2>11
  <1>7. CASE ~(sse # None /\ sse.run = r)
    <2>1. es' = o /\ UNCHANGED <<page, sse, drawn, owner>>
      BY <1>1, <1>7
    <2>2. es' # None => es # None
      BY <2>1 DEF Offered
    <2>3. \A q \in Run : Unfinished(q)' <=> Unfinished(q)
      BY <1>5, <2>1
    <2>4. OneStream' /\ StartedInv'
      BY <1>1, <1>2, <2>1, <2>2, <2>3 DEF OneStream, StartedInv
    <2>5. CountsWhatIsDrawn'
      <3>1. ASSUME owner # None PROVE page.count <= Len(log'[owner])
        <4>1. owner \in Run /\ page.count <= Len(log[owner])
          BY <1>2, <1>3, <3>1 DEF CountsWhatIsDrawn
        <4>2. CASE owner = r
          BY <1>1, <1>3, <4>1, <4>2
        <4>3. CASE owner # r
          BY <1>1, <4>1, <4>3
        <4>4. QED
          BY <4>2, <4>3
      <3>2. QED
        BY <1>1, <1>2, <2>1, <3>1 DEF CountsWhatIsDrawn
    <2>6. AnswerInv'
      <3> SUFFICES ASSUME sse # None PROVE log'[sse.run] = log[sse.run] /\ sse.run \in Run
        BY <1>1, <1>2, <2>1, <2>3 DEF AnswerInv
      <3> QED
        BY <1>1, <1>7, StreamTypes
    <2>7. TailInv'
      <3> SUFFICES ASSUME es # None, es' # None
                   PROVE  /\ es'.run = es.run /\ Ascends(Coming(es'))
                          /\ Coming(es') # <<>> => Coming(es')[1] > page.count
        BY <1>1, <1>2, <2>1, <2>2 DEF TailInv
      <3>1. /\ es'.run = es.run /\ Ascends(Coming(es))
            /\ Coming(es) # <<>> => Coming(es)[1] > page.count
            /\ page.count # 0 => owner = es.run
            /\ es.run # r => es' = es
            /\ es.run = r => /\ Coming(es) \in Seq(1..n - 1)
                             /\ Coming(es') = Append(Coming(es), n) \/ es' = es
        BY <1>1, <1>2, <2>1, OfferedFacts DEF TailInv, n
      <3>2. CASE es' = es
        BY <3>1, <3>2
      <3>3. CASE es' # es
        <4>1. es.run = r /\ Coming(es') = Append(Coming(es), n) /\ Coming(es) \in Seq(1..n - 1)
          BY <3>1, <3>3
        <4>2. n > page.count
          BY <1>2, <1>3, <1>4, <3>1, <4>1 DEF CountsWhatIsDrawn
        <4> DEFINE c == Coming(es)
        <4>3. c \in Seq(1..n - 1) /\ Ascends(c) /\ n \in Nat \ {0}
          BY <1>1, <3>1, <4>1
        <4> HIDE DEF c
        <4>4. Ascends(Append(c, n)) /\ Append(c, n)[1] = IF c = <<>> THEN n ELSE c[1]
          BY <4>3, AscendsAppend
        <4>5. Append(c, n)[1] > page.count
          BY <3>1, <4>2, <4>4 DEF c
        <4>6. QED
          BY <3>1, <4>1, <4>4, <4>5 DEF c
      <3>4. QED
        BY <3>2, <3>3
    <2>8. QED
      BY <2>4, <2>5, <2>6, <2>7
  <1>8. QED
    BY <1>6, <1>7

LEMMA ReadFine ==
    ASSUME TypeInv, FineInv, ReadEs
    PROVE  FineInv'
  <1> DEFINE r == es.run
             n == Head(Coming(es))
  <1> SUFFICES ASSUME Fine'
               PROVE  (OneStream /\ CountsWhatIsDrawn /\ AnswerInv /\ TailInv /\ StartedInv)'
    BY DEF FineInv
  <1>1. /\ es # None /\ r \in Run /\ Coming(es) \in Seq(1..Len(log[r]))
        /\ Coming(es) # <<>> /\ n = Coming(es)[1] /\ n \in 1..Len(log[r])
        /\ Frame(r, n, log[r][n], sse, Rest)
        /\ Rest.run = r /\ Coming(Rest) = Tail(Coming(es))
        /\ UNCHANGED <<log, status, lapses>> /\ (Loading' <=> Loading)
    <2>1. UNCHANGED probes
      BY ReadFacts
    <2>2. QED
      BY <2>1, ReadFacts DEF Loading
  <1>2. Fine /\ OneStream /\ CountsWhatIsDrawn /\ TailInv /\ StartedInv
    BY <1>1 DEF Fine, FineInv
  <1>3. /\ page \in PageType /\ page.count \in Nat /\ log \in [Run -> Seq(Kind)]
        /\ drawn \in [Run -> Seq(1..MaxFrames)] /\ Len(log[r]) \in Nat
        /\ page.count = 0 => owner = None
        /\ page.turn /\ owner \in Run \cup {None}
        /\ log[r][n] = "run" <=> n = 2
    BY <1>1, TypesShown DEF ShownInv, ShownTypes, PageType, LogInv, StreamInv
  <1> HIDE DEF r, n
  <1>4. sse = None /\ ~Loading /\ n > page.count /\ (page.count # 0 => owner = r)
        /\ Ascends(Coming(es))
    BY <1>1, <1>2 DEF OneStream, TailInv, r
  <1>5. /\ drawn' = [drawn EXCEPT ![r] = Append(@, n)]
        /\ owner' = r
        /\ page'.count = (IF log[r][n] = "run" THEN 2 ELSE page.count + 1) /\ page'.count # 0
        /\ page'.turn = (page.turn /\ log[r][n] # "done")
        /\ sse' = None
        /\ es' = (IF log[r][n] = "done" THEN None ELSE Rest)
    BY <1>1, <1>2, <1>3, <1>4, FrameFacts DEF Fine
  <1>6. page'.count \in Nat /\ n \in Nat /\ page'.count <= n /\ page'.count <= Len(log[r])
    <2> DEFINE N == Len(log[r])
               c == page.count
    <2>1. N \in Nat /\ c \in Nat /\ n \in 1..N /\ n > c
      BY <1>1, <1>3, <1>4
    <2> HIDE DEF N, c
    <2>2. CASE log[r][n] = "run"
      <3>1. page'.count = 2 /\ n = 2
        BY <1>3, <1>5, <2>2
      <3>2. QED
        BY <2>1, <3>1 DEF N
    <2>3. CASE log[r][n] # "run"
      <3>1. page'.count = c + 1
        BY <1>5, <2>3 DEF c
      <3>2. c + 1 <= n /\ c + 1 <= N /\ c + 1 \in Nat /\ n \in Nat
        BY <2>1
      <3>3. QED
        BY <3>1, <3>2 DEF N
    <2>4. QED
      BY <2>2, <2>3
  <1>7. CountsWhatIsDrawn'
    BY <1>1, <1>5, <1>6 DEF CountsWhatIsDrawn
  <1>8. TailInv'
    <2> SUFFICES ASSUME es' # None
                 PROVE  Ascends(Tail(Coming(es)))
                        /\ (Tail(Coming(es)) # <<>> => Tail(Coming(es))[1] > page'.count)
      BY <1>1, <1>4, <1>5 DEF TailInv
    <2> DEFINE c == Coming(es)
    <2>1. c \in Seq(Nat) /\ c # <<>> /\ Ascends(c) /\ c[1] = n
      <3>1. 1..Len(log[r]) \subseteq Nat
        OBVIOUS
      <3>2. QED
        BY <1>1, <1>4, <3>1, SeqMonotonic
    <2> HIDE DEF c
    <2>2. Ascends(Tail(c)) /\ (Tail(c) # <<>> => Tail(c)[1] > n)
      BY <2>1, AscendsTail
    <2>3. Tail(c) # <<>> => Tail(c)[1] \in Nat
      <3>1. Tail(c) \in Seq(Nat)
        BY <2>1, HeadTailProperties
      <3>2. Tail(c) # <<>> => 1 \in 1..Len(Tail(c))
        BY <3>1
      <3>3. QED
        BY <3>1, <3>2, ElementOfSeq
    <2>4. ASSUME Tail(c) # <<>> PROVE Tail(c)[1] > page'.count
      <3> DEFINE x == Tail(c)[1]
      <3>1. x \in Nat /\ x > n
        BY <2>2, <2>3, <2>4
      <3> HIDE DEF x
      <3>2. x > page'.count
        BY <1>6, <3>1
      <3>3. QED
        BY <3>2 DEF x
    <2>5. QED
      BY <2>2, <2>4 DEF c
  <1>9. StartedInv'
    <2> SUFFICES ASSUME NEW q \in Run, Unfinished(q)' PROVE q = r /\ page'.turn
      BY <1>5 DEF StartedInv
    <2>1. CASE q = r
      <3>1. drawn'[r] = Append(drawn[r], n) /\ drawn[r] \in Seq(1..MaxFrames)
        BY <1>1, <1>3, <1>5
      <3>2. Last(drawn'[r]) = n
        BY <3>1, AppendProperties DEF Last
      <3>3. QED
        BY <1>1, <1>3, <1>5, <2>1, <3>2 DEF Unfinished
    <2>2. CASE q # r
      <3>1. drawn'[q] = drawn[q]
        BY <1>3, <1>5, <2>2
      <3>2. Unfinished(q)
        BY <1>1, <3>1 DEF Unfinished
      <3>3. q = owner
        BY <1>2, <1>4, <3>2 DEF StartedInv
      <3>4. QED
        BY <1>3, <1>4, <2>2, <3>3, RunsAreNotNone
    <2>3. QED
      BY <2>1, <2>2
  <1>10. OneStream' /\ AnswerInv'
    BY <1>5 DEF OneStream, AnswerInv
  <1>11. QED
    BY <1>7, <1>8, <1>9, <1>10

LEMMA StepFine ==
    ASSUME TypeInv, RegistryInv, FineInv, [Next]_vars
    PROVE  FineInv'
  BY StepCases, CalmFine, CutFine, JoinedFine, SendFine, EmitFine, ReadFine

\* However its streams broke and however it came back, a page at rest whose
\* panes and count have stayed of one run shows the end of every turn it was
\* shown the start of: enableInput and recheckRun never leave such a turn
\* behind (30_agent_loop_panel.js), also when the ring or a full channel lost
\* frames of it.
THEOREM EndingsShown == Spec => []EndingShown
  <1> DEFINE I == RegistryInv /\ TypeInv /\ FineInv
  <1>1. Init => I
    BY InitRegistry, InitTypes, InitFine
  <1>2. I /\ [Next]_vars => I'
    BY StepRegistry, StepTypes, StepFine
  <1>3. I => EndingShown
    <2> SUFFICES ASSUME TypeInv, FineInv, AtRest, Fine, NEW r \in Run, Len(drawn[r]) >= 2
                 PROVE  log[r][Last(drawn[r])] = "done"
      BY DEF EndingShown, Fine
    <2>1. ~Loading /\ ~page.turn
      BY DEF AtRest, Loading
    <2>2. QED
      BY <2>1 DEF FineInv, StartedInv, Unfinished
  <1>4. QED
    BY <1>1, <1>2, <1>3, PTL DEF Spec

-----------------------------------------------------------------------------
(* The cards *)

\* A log's cards at their latest frames, and one that a page which has drawn d
\* of the log shows as of its frame n.
CardsOf(l) ==
    {n \in 1..Len(l) : l[n] \in Card /\ \A k \in n + 1..Len(l) : l[k] # l[n]}

Shows(l, d, n) ==
    \E i \in 1..Len(d) : d[i] = n /\ \A j \in i + 1..Len(d) : l[d[j]] # l[n]

LEMMA CardsAreOfLog == \A r : CardFrames(r) = CardsOf(log[r])
  BY DEF CardFrames, CardsOf

LEMMA AllDrawnShows ==
    ASSUME NEW l \in Seq(Kind), NEW n \in CardsOf(l)
    PROVE  Shows(l, Iota(Len(l)), n)
  <1> DEFINE d == Iota(Len(l))
  <1>1. Len(l) \in Nat /\ n \in 1..Len(l) /\ \A k \in n + 1..Len(l) : l[k] # l[n]
    BY DEF CardsOf
  <1>2. Len(d) = Len(l) /\ \A j \in 1..Len(l) : d[j] = j
    BY <1>1 DEF Iota
  <1> HIDE DEF d
  <1>3. \A j \in n + 1..Len(d) : l[d[j]] # l[n]
    BY <1>1, <1>2
  <1>4. QED
    BY <1>1, <1>2, <1>3 DEF Shows, d

\* A log that grows: its cards are the old ones, less one, and the new frame.
LEMMA GrownShows ==
    ASSUME NEW l \in Seq(Kind), NEW l2 \in Seq(Kind), Len(l2) = Len(l) + 1,
           \A m \in 1..Len(l) : l2[m] = l[m], NEW d \in Seq(1..Len(l))
    PROVE  \A m \in CardsOf(l2) : /\ m \in CardsOf(l) \/ m = Len(l) + 1
                                  /\ m <= Len(l) /\ Shows(l, d, m) => Shows(l2, d, m)
  <1>1. Len(l) \in Nat
    OBVIOUS
  <1> SUFFICES ASSUME NEW m \in CardsOf(l2)
               PROVE  /\ m \in CardsOf(l) \/ m = Len(l) + 1
                      /\ m <= Len(l) /\ Shows(l, d, m) => Shows(l2, d, m)
    OBVIOUS
  <1>2. /\ m \in 1..Len(l) + 1 /\ l2[m] \in Card
        /\ \A k \in m + 1..Len(l) + 1 : l2[k] # l2[m]
    BY DEF CardsOf
  <1>3. m \in CardsOf(l) \/ m = Len(l) + 1
    <2> SUFFICES ASSUME m # Len(l) + 1 PROVE m \in CardsOf(l)
      OBVIOUS
    <2>1. m \in 1..Len(l)
      BY <1>1, <1>2
    <2>2. \A k \in m + 1..Len(l) : k \in m + 1..Len(l) + 1 /\ k \in 1..Len(l)
      BY <1>1, <2>1
    <2>3. QED
      BY <1>2, <2>1, <2>2 DEF CardsOf
  <1>4. ASSUME m <= Len(l), Shows(l, d, m) PROVE Shows(l2, d, m)
    <2>1. PICK i \in 1..Len(d) : d[i] = m /\ \A j \in i + 1..Len(d) : l[d[j]] # l[m]
      BY <1>4 DEF Shows
    <2>2. m \in 1..Len(l)
      BY <1>1, <1>2, <1>4
    <2>3. \A j \in i + 1..Len(d) : d[j] \in 1..Len(l)
      BY ElementOfSeq
    <2>4. \A j \in i + 1..Len(d) : l2[d[j]] # l2[m]
      BY <2>1, <2>2, <2>3
    <2>5. QED
      BY <2>1, <2>4 DEF Shows
  <1>5. QED
    BY <1>3, <1>4

\* One more frame is drawn.
LEMMA DrawnShows ==
    ASSUME NEW l \in Seq(Kind), NEW d \in Seq(1..Len(l)), NEW n \in 1..Len(l),
           NEW m \in CardsOf(l), m = n \/ (m < n /\ Shows(l, d, m))
    PROVE  Shows(l, Append(d, n), m)
  <1> DEFINE t == Append(d, n)
             N == Len(d)
  <1>1. /\ Len(t) = N + 1 /\ N \in Nat /\ t[N + 1] = n
        /\ \A i \in 1..N : t[i] = d[i]
    BY AppendProperties
  <1>2. m \in 1..Len(l) /\ Len(l) \in Nat /\ \A k \in m + 1..Len(l) : l[k] # l[m]
    BY DEF CardsOf
  <1> HIDE DEF t, N
  <1>3. CASE m = n
    <2>1. N + 1 \in 1..Len(t) /\ \A j \in (N + 1) + 1..Len(t) : FALSE
      BY <1>1
    <2>2. QED
      BY <1>1, <1>3, <2>1 DEF Shows, t
  <1>4. CASE m < n /\ Shows(l, d, m)
    <2>1. PICK i \in 1..N : d[i] = m /\ \A j \in i + 1..N : l[d[j]] # l[m]
      BY <1>4 DEF Shows, N
    <2>2. l[n] # l[m]
      <3>1. n \in m + 1..Len(l)
        BY <1>2, <1>4
      <3>2. QED
        BY <1>2, <3>1
    <2>3. i \in 1..Len(t) /\ t[i] = m
      BY <1>1, <2>1
    <2>4. ASSUME NEW j \in i + 1..Len(t) PROVE l[t[j]] # l[m]
      <3>1. CASE j = N + 1
        BY <1>1, <2>2, <3>1
      <3>2. CASE j # N + 1
        <4>1. j \in i + 1..N /\ j \in 1..N
          BY <1>1, <3>2
        <4>2. QED
          BY <1>1, <2>1, <4>1
      <3>3. QED
        BY <3>1, <3>2
    <2>5. QED
      BY <2>3, <2>4 DEF Shows, t
  <1>5. QED
    BY <1>3, <1>4

LEMMA RangeOfTail ==
    ASSUME NEW s \in Seq(Nat), Ascends(s), s # <<>>
    PROVE  /\ Range(s) = {s[1]} \cup Range(Tail(s)) /\ s[1] \in Nat
           /\ \A m \in Range(Tail(s)) : m \in Nat /\ m > s[1]
  <1>1. /\ Tail(s) \in Seq(Nat) /\ Len(Tail(s)) = Len(s) - 1 /\ Len(s) \in Nat \ {0}
        /\ \A i \in 1..Len(s) - 1 : Tail(s)[i] = s[i + 1]
    BY HeadTailProperties, EmptySeq
  <1>2. 1 \in 1..Len(s) /\ \A i \in 1..Len(s) : s[i] \in Nat
    BY <1>1, ElementOfSeq
  <1>3. \A m \in Range(Tail(s)) : \E i \in 1..Len(s) : i > 1 /\ s[i] = m
    <2> SUFFICES ASSUME NEW m \in Range(Tail(s)) PROVE \E i \in 1..Len(s) : i > 1 /\ s[i] = m
      OBVIOUS
    <2>1. PICK i \in 1..Len(s) - 1 : Tail(s)[i] = m
      BY <1>1 DEF Range
    <2>2. i + 1 \in 1..Len(s) /\ i + 1 > 1 /\ s[i + 1] = m
      BY <1>1, <2>1
    <2>3. QED
      BY <2>2
  <1>4. \A m \in Range(Tail(s)) : m \in Nat /\ m > s[1] /\ m \in Range(s)
    <2> SUFFICES ASSUME NEW m \in Range(Tail(s)) PROVE m \in Nat /\ m > s[1] /\ m \in Range(s)
      OBVIOUS
    <2>1. PICK i \in 1..Len(s) : i > 1 /\ s[i] = m
      BY <1>3
    <2>2. s[1] < s[i]
      BY <1>2, <2>1 DEF Ascends
    <2>3. QED
      BY <1>2, <2>1, <2>2 DEF Range
  <1>5. \A m \in Range(s) : m = s[1] \/ m \in Range(Tail(s))
    <2> SUFFICES ASSUME NEW m \in Range(s), m # s[1] PROVE m \in Range(Tail(s))
      OBVIOUS
    <2>1. PICK i \in 1..Len(s) : s[i] = m
      BY DEF Range
    <2>2. i - 1 \in 1..Len(s) - 1 /\ (i - 1) + 1 = i
      BY <1>1, <2>1
    <2>3. Tail(s)[i - 1] = m
      BY <1>1, <2>1, <2>2
    <2>4. i - 1 \in DOMAIN Tail(s)
      BY <1>1, <2>2
    <2> DEFINE u == Tail(s)
    <2>5. i - 1 \in DOMAIN u /\ u[i - 1] = m
      BY <2>3, <2>4
    <2> HIDE DEF u
    <2>6. m \in Range(u)
      BY <2>5 DEF Range
    <2>7. QED
      BY <2>6 DEF u
  <1>6. s[1] \in Range(s)
    BY <1>2 DEF Range
  <1>7. QED
    BY <1>2, <1>4, <1>5, <1>6

LEMMA RangeOfAppend ==
    ASSUME NEW S, NEW s \in Seq(S), NEW n
    PROVE  Range(Append(s, n)) = Range(s) \cup {n}
  <1> DEFINE t == Append(s, n)
             N == Len(s)
  <1>1. /\ Len(t) = N + 1 /\ N \in Nat /\ t[N + 1] = n
        /\ \A i \in 1..N : t[i] = s[i]
        /\ DOMAIN t = 1..N + 1 /\ DOMAIN s = 1..N
    BY AppendProperties
  <1> HIDE DEF t, N
  <1>2. \A i \in 1..N + 1 : i \in 1..N \/ i = N + 1
    BY <1>1
  <1>3. \A i \in 1..N : i \in 1..N + 1
    BY <1>1
  <1>4. N + 1 \in 1..N + 1
    BY <1>1
  <1>5. Range(t) \subseteq Range(s) \cup {n}
    BY <1>1, <1>2 DEF Range
  <1>6. Range(s) \cup {n} \subseteq Range(t)
    BY <1>1, <1>3, <1>4 DEF Range
  <1>7. QED
    BY <1>5, <1>6 DEF t

Full == lapses \cap {"astray", "overflow"} = {}

\* Of the run it counts the page shows the cards as far as it has counted.
CountedCards ==
    owner # None =>
        \A n \in CardsOf(log[owner]) : n <= page.count => Shows(log[owner], drawn[owner], n)

\* Of the run it follows, each card is still to come, or is shown and nothing
\* before it is to come.
ComingCards ==
    es # None /\ (status[es.run] # "swept" \/ Coming(es) # <<>>) =>
        \A n \in CardsOf(log[es.run]) :
            \/ n \in Range(Coming(es))
            \/ /\ Shows(log[es.run], drawn[es.run], n)
               /\ \A m \in Range(Coming(es)) : m > n

EndedCards ==
    \A r \in Run :
        Len(drawn[r]) # 0 /\ log[r][Last(drawn[r])] = "done" =>
            \A n \in CardsOf(log[r]) : Shows(log[r], drawn[r], n)

CardInv == Full => CountedCards /\ ComingCards /\ EndedCards

LEMMA FullIsFine == Full => Fine
  BY DEF Full, Fine

LEMMA NothingShown ==
    ASSUME \A r \in Run : drawn[r] = <<>>
    PROVE  EndedCards
  <1>1. Len(<<>>) = 0
    BY EmptySeq
  <1>2. QED
    BY <1>1 DEF EndedCards

LEMMA InitCards == Init => CardInv
  <1> SUFFICES ASSUME Init PROVE CardInv
    OBVIOUS
  <1>1. EndedCards
    BY NothingShown DEF Init
  <1>2. QED
    BY <1>1 DEF Init, CardInv, CountedCards, ComingCards

LEMMA CalmCards ==
    ASSUME TypeInv, Grows, CardInv, Calm
    PROVE  CardInv'
  <1> SUFFICES ASSUME Full' PROVE (CountedCards /\ ComingCards /\ EndedCards)'
    BY DEF CardInv
  <1>1. UNCHANGED <<log, page, drawn, owner, lapses>>
    BY DEF Calm
  <1>2. CountedCards /\ ComingCards /\ EndedCards
    BY <1>1 DEF CardInv, Full
  <1>3. ComingCards'
    <2>1. es' # None => /\ es # None /\ es'.run = es.run /\ es.run \in Run
                        /\ \/ Coming(es') = Coming(es)
                           \/ Coming(es') = <<>> /\ status'[es.run] = "swept"
      BY ConcatOfNothing, StreamTypes DEF Calm, Coming, EsType
    <2>2. status'[es.run] # "swept" /\ es.run \in Run => status[es.run] # "swept"
      BY DEF Grows
    <2>3. QED
      BY <1>1, <1>2, <2>1, <2>2 DEF ComingCards
  <1>4. QED
    BY <1>1, <1>2, <1>3 DEF CountedCards, EndedCards

LEMMA CutCards ==
    ASSUME TypeInv, FineInv, CardInv, Ended \/ Opened \/ Loaded
    PROVE  CardInv'
  <1> SUFFICES ASSUME Full' PROVE (CountedCards /\ ComingCards /\ EndedCards)'
    BY DEF CardInv
  <1>1. Full /\ CountedCards /\ ComingCards /\ EndedCards
    BY DEF CardInv, Full, Ended, Opened, Loaded
  <1>2. page \in PageType /\ (page.count = 0 => owner = None)
    BY TypesShown DEF ShownInv, ShownTypes, StreamInv
  <1>3. CASE Ended \/ Opened
    <2>1. es' = None /\ UNCHANGED <<log, drawn>>
      BY <1>3 DEF Ended, Opened
    <2>2. owner' = None \/ (owner' = owner /\ page'.count = page.count)
      BY <1>2, <1>3 DEF Ended, Opened, PageType
    <2>3. QED
      BY <1>1, <2>1, <2>2 DEF CountedCards, ComingCards, EndedCards
  <1>4. CASE Loaded
    <2>1. Loading /\ drawn' = [r \in Run |-> <<>>] /\ page.count = 0 /\ UNCHANGED <<page, es, owner>>
      BY <1>4 DEF Loaded, Full
    <2>2. es = None
      BY <1>1, <2>1, FullIsFine DEF FineInv, TailInv
    <2>3. EndedCards'
      <3>1. Len(<<>>) = 0
        BY EmptySeq
      <3>2. QED
        BY <2>1, <3>1 DEF EndedCards
    <2>4. QED
      BY <1>2, <2>1, <2>2, <2>3 DEF CountedCards, ComingCards
  <1>5. QED
    BY <1>3, <1>4

LEMMA JoinedCards ==
    ASSUME TypeInv, FineInv, CardInv, NEW r \in Run, Joined(r)
    PROVE  CardInv'
  <1> SUFFICES ASSUME Full' PROVE (CountedCards /\ ComingCards /\ EndedCards)'
    BY DEF CardInv
  <1>1. /\ Subscribe(r) /\ UNCHANGED <<log, status>>
        /\ page.count \in Nat /\ log[r] \in Seq(Kind)
    BY TypesShown DEF Joined, ShownInv, ShownTypes, PageType
  <1>2. /\ es'.run = r /\ Coming(es') = es'.back
        /\ es'.back = IF status[r] = "swept" THEN <<>> ELSE Backlog(r, page.count)
        /\ page'.count = page.count /\ drawn' = drawn /\ owner' = owner /\ lapses \subseteq lapses'
        /\ page.count # 0 => owner = r
    BY <1>1, JoinFacts DEF Full
  <1>3. CountedCards /\ EndedCards
    BY <1>2 DEF CardInv, Full
  <1>4. ComingCards'
    <2> SUFFICES ASSUME status[r] # "swept" \/ Coming(es') # <<>>, NEW n \in CardsOf(log[r])
                 PROVE  \/ n \in Range(Coming(es'))
                        \/ /\ Shows(log[r], drawn[r], n)
                           /\ \A m \in Range(Coming(es')) : m > n
      BY <1>1, <1>2 DEF ComingCards
    <2> DEFINE b == Backlog(r, page.count)
    <2>1. Coming(es') = b
      BY <1>2
    <2>2. /\ b \in Seq(1..Len(log[r]))
          /\ \A m \in Range(b) : m > page.count
          /\ n > page.count => n \in Range(b)
      BY <1>1, BacklogFacts, CardsAreOfLog
    <2>3. n \in Nat /\ n # 0
      BY <1>1 DEF CardsOf
    <2> HIDE DEF b
    <2>4. CASE n > page.count
      BY <2>1, <2>2, <2>4
    <2>5. CASE ~(n > page.count)
      <3>1. owner = r /\ n <= page.count
        BY <1>1, <1>2, <2>3, <2>5
      <3>2. Shows(log[r], drawn[r], n)
        BY <1>3, <3>1, RunsAreNotNone DEF CountedCards
      <3>3. \A m \in Range(b) : m \in Nat
        BY <2>2, RangeOfSeq
      <3>4. QED
        BY <1>1, <2>1, <2>2, <2>3, <3>1, <3>2, <3>3
    <2>6. QED
      BY <2>4, <2>5
  <1>5. QED
    BY <1>1, <1>2, <1>3, <1>4 DEF CountedCards, EndedCards

LEMMA SendCards ==
    ASSUME TypeInv, RegistryInv, CardInv, NEW r \in Run, Send(r)
    PROVE  CardInv'
  <1> SUFFICES ASSUME Full' PROVE (CountedCards /\ ComingCards /\ EndedCards)'
    BY DEF CardInv
  <1>1. es = None /\ page'.count = page.count /\ UNCHANGED <<log, es, drawn, owner, lapses>>
    BY SendFacts
  <1>2. CountedCards /\ EndedCards
    BY <1>1 DEF CardInv, Full
  <1>3. QED
    BY <1>1, <1>2 DEF CountedCards, ComingCards, EndedCards

LEMMA EmitCards ==
    ASSUME TypeInv, FineInv, CardInv, NEW r \in Run, NEW k \in Kind, Emit(r, k)
    PROVE  CardInv'
  <1> DEFINE n == Len(log[r]) + 1
             o == Offered(r, n)
  <1> SUFFICES ASSUME Full' PROVE (CountedCards /\ ComingCards /\ EndedCards)'
    BY DEF CardInv
  <1>1. /\ n \in 1..MaxFrames /\ status[r] = "running" /\ UNCHANGED status
        /\ log' \in [Run -> Seq(Kind)] /\ Len(log'[r]) = n
        /\ \A m \in 1..n - 1 : log'[r][m] = log[r][m] /\ log[r][m] # "done"
        /\ \A q \in Run : q # r => log'[q] = log[q]
        /\ IF sse # None /\ sse.run = r THEN Frame(r, n, k, sse, o)
           ELSE es' = o /\ UNCHANGED <<page, sse, drawn, owner>>
        /\ lapses \subseteq lapses'
        /\ es # None /\ es.run = r => Len(es.chan) < Buffer
    BY EmitFacts DEF Full
  <1>2. /\ Full /\ Fine /\ CountedCards /\ ComingCards /\ EndedCards
        /\ OneStream /\ CountsWhatIsDrawn /\ AnswerInv
    BY <1>1, FullIsFine DEF CardInv, Full, FineInv
  <1>3. /\ page \in PageType /\ page.count \in Nat /\ log \in [Run -> Seq(Kind)]
        /\ drawn \in [Run -> Seq(1..MaxFrames)] /\ n \in Nat /\ n - 1 = Len(log[r])
        /\ \A q \in Run : drawn[q] \in Seq(1..Len(log[q]))
        /\ owner \in Run \cup {None}
    BY <1>1, TypesShown DEF ShownInv, ShownTypes, PageType, LogInv
  <1>4. None \notin Run
    BY RunsAreNotNone
  <1>5. /\ \A m \in CardsOf(log'[r]) : /\ m \in CardsOf(log[r]) \/ m = n
                                       /\ m <= n - 1 /\ Shows(log[r], drawn[r], m)
                                             => Shows(log'[r], drawn[r], m)
        /\ CardsOf(log[r]) \subseteq 1..n - 1
    <2>1. log[r] \in Seq(Kind) /\ log'[r] \in Seq(Kind) /\ drawn[r] \in Seq(1..Len(log[r]))
      BY <1>1, <1>3
    <2>2. CardsOf(log[r]) \subseteq 1..n - 1
      BY <1>3 DEF CardsOf
    <2>3. \A m \in 1..Len(log[r]) : log'[r][m] = log[r][m]
      BY <1>1
    <2>4. Len(log'[r]) = Len(log[r]) + 1
      BY <1>1
    <2>5. \A m \in CardsOf(log'[r]) :
             /\ m \in CardsOf(log[r]) \/ m = Len(log[r]) + 1
             /\ m <= Len(log[r]) /\ Shows(log[r], drawn[r], m) => Shows(log'[r], drawn[r], m)
      BY <2>1, <2>3, <2>4, GrownShows
    <2>6. QED
      BY <1>3, <2>2, <2>5
  <1> HIDE DEF n
  <1>6. CASE sse # None /\ sse.run = r
    <2>1. drawn[r] = Iota(n - 1) /\ es = None /\ o = None
      BY <1>2, <1>3, <1>6 DEF AnswerInv, OneStream, Offered
    <2>2. /\ drawn' = [drawn EXCEPT ![r] = Append(@, n)]
          /\ owner' = IF k = "run" \/ page.count = 0 \/ owner = r THEN r ELSE None
          /\ es' = None
      BY <1>1, <1>2, <1>3, <1>6, <2>1, FrameFacts DEF Fine
    <2>3. /\ drawn'[r] = Iota(n)
          /\ \A q \in Run : q # r => drawn'[q] = drawn[q]
      <3>1. Append(Iota(n - 1), n) = Iota(n)
        <4>1. n - 1 \in Nat /\ (n - 1) + 1 = n
          BY <1>1, <1>3
        <4>2. QED
          BY <4>1, IotaAppend
      <3>2. QED
        BY <1>3, <2>1, <2>2, <3>1
    <2>4. \A m \in CardsOf(log'[r]) : Shows(log'[r], drawn'[r], m)
      BY <1>1, <2>3, AllDrawnShows
    <2>5. CountedCards'
      BY <1>4, <2>2, <2>4 DEF CountedCards
    <2>6. EndedCards'
      BY <1>1, <1>2, <2>3, <2>4 DEF EndedCards
    <2>7. QED
      BY <2>2, <2>5, <2>6 DEF ComingCards
  <1>7. CASE ~(sse # None /\ sse.run = r)
    <2>1. es' = o /\ UNCHANGED <<page, sse, drawn, owner>>
      BY <1>1, <1>7
    <2>2. CountedCards'
      <3> SUFFICES ASSUME owner # None, NEW m \in CardsOf(log'[owner]), m <= page.count
                   PROVE  Shows(log'[owner], drawn[owner], m)
        BY <2>1 DEF CountedCards
      <3>1. owner \in Run /\ page.count <= Len(log[owner])
        BY <1>2, <1>3 DEF CountsWhatIsDrawn
      <3>2. CASE owner # r
        BY <1>1, <1>2, <3>1, <3>2 DEF CountedCards
      <3>3. CASE owner = r
        <4>1. page.count <= n - 1
          BY <1>3, <3>1, <3>3
        <4>2. m \in Nat
          BY <1>1, <3>3 DEF CardsOf
        <4>3. m <= n - 1 /\ m # n
          BY <1>1, <1>3, <4>1, <4>2
        <4>4. m \in CardsOf(log[r])
          BY <1>5, <3>3, <4>3
        <4>5. QED
          BY <1>2, <1>5, <3>3, <4>3, <4>4 DEF CountedCards
      <3>4. QED
        BY <3>2, <3>3
    <2>3. EndedCards'
      <3> SUFFICES ASSUME NEW q \in Run, Len(drawn[q]) # 0, log'[q][Last(drawn[q])] = "done",
                          NEW m \in CardsOf(log'[q])
                   PROVE  Shows(log'[q], drawn[q], m)
        BY <2>1 DEF EndedCards
      <3>1. CASE q # r
        BY <1>1, <1>2, <3>1 DEF EndedCards
      <3>2. CASE q = r
        <4>1. Last(drawn[r]) \in 1..n - 1
          <5>1. drawn[r] \in Seq(1..n - 1) /\ Len(drawn[r]) \in 1..Len(drawn[r])
            BY <1>3, <3>2
          <5>2. QED
            BY <5>1, ElementOfSeq DEF Last
        <4>2. QED
          BY <1>1, <3>2, <4>1
      <3>3. QED
        BY <3>1, <3>2
    <2>4. ComingCards'
      <3> SUFFICES ASSUME es # None, es' # None,
                          status[es'.run] # "swept" \/ Coming(es') # <<>>,
                          NEW m \in CardsOf(log'[es'.run])
                   PROVE  \/ m \in Range(Coming(es'))
                          \/ /\ Shows(log'[es'.run], drawn[es'.run], m)
                             /\ \A j \in Range(Coming(es')) : j > m
        <4>1. es' # None => es # None
          BY <2>1 DEF Offered
        <4>2. QED
          BY <1>1, <2>1, <4>1 DEF ComingCards
      <3>1. /\ es'.run = es.run /\ es.run \in Run
            /\ es.run # r => es' = es
            /\ es.run = r => /\ Coming(es) \in Seq(1..n - 1)
                             /\ Coming(es') = Append(Coming(es), n)
        BY <1>1, <2>1, OfferedFacts, StreamTypes DEF n, EsType
      <3>2. CASE es.run # r
        <4>1. log'[es.run] = log[es.run] /\ es' = es
          BY <1>1, <3>1, <3>2
        <4>2. QED
          BY <1>2, <4>1 DEF ComingCards
      <3>3. CASE es.run = r
        <4> DEFINE c == Coming(es)
        <4>1. c \in Seq(1..n - 1) /\ Coming(es') = Append(c, n)
          BY <3>1, <3>3
        <4> HIDE DEF c
        <4>2. Range(Coming(es')) = Range(c) \cup {n}
          BY <4>1, RangeOfAppend
        <4>3. \A j \in CardsOf(log[r]) :
                \/ j \in Range(c)
                \/ Shows(log[r], drawn[r], j) /\ \A i \in Range(c) : i > j
          BY <1>1, <1>2, <3>3 DEF ComingCards, c
        <4>4. CASE m = n
          BY <4>2, <4>4
        <4>5. CASE m # n
          <5>1. m \in CardsOf(log[r]) /\ m \in 1..n - 1
            BY <1>5, <3>1, <3>3, <4>5
          <5>2. m < n /\ m <= n - 1
            BY <1>3, <5>1
          <5>3. CASE m \in Range(c)
            BY <4>2, <5>3
          <5>4. CASE Shows(log[r], drawn[r], m) /\ \A i \in Range(c) : i > m
            <6>1. Shows(log'[r], drawn[r], m)
              BY <1>5, <3>1, <3>3, <5>2, <5>4
            <6>2. \A j \in Range(Coming(es')) : j > m
              BY <1>3, <4>2, <5>2, <5>4
            <6>3. QED
              BY <3>1, <3>3, <6>1, <6>2
          <5>5. QED
            BY <4>3, <5>1, <5>3, <5>4
        <4>6. QED
          BY <4>4, <4>5
      <3>4. QED
        BY <3>2, <3>3
    <2>5. QED
      BY <2>2, <2>3, <2>4
  <1>8. QED
    BY <1>6, <1>7

LEMMA ReadCards ==
    ASSUME TypeInv, FineInv, CardInv, ReadEs
    PROVE  CardInv'
  <1> DEFINE r == es.run
             c == Coming(es)
             n == Head(c)
             l == log[r]
  <1> SUFFICES ASSUME Full' PROVE (CountedCards /\ ComingCards /\ EndedCards)'
    BY DEF CardInv
  <1>1. /\ es # None /\ r \in Run /\ c \in Seq(1..Len(l)) /\ c # <<>>
        /\ n = c[1] /\ n \in 1..Len(l)
        /\ Frame(r, n, l[n], sse, Rest)
        /\ Rest.run = r /\ Coming(Rest) = Tail(c)
        /\ UNCHANGED <<log, status, lapses>>
    BY ReadFacts
  <1>2. Full /\ Fine /\ CountedCards /\ ComingCards /\ EndedCards /\ TailInv
    BY <1>1, FullIsFine DEF CardInv, Full, FineInv
  <1>3. /\ page \in PageType /\ page.count \in Nat /\ l \in Seq(Kind)
        /\ drawn \in [Run -> Seq(1..MaxFrames)] /\ drawn[r] \in Seq(1..Len(l))
        /\ l[n] = "done" => n = Len(l)
        /\ l[n] = "run" <=> n = 2
    BY <1>1, TypesShown DEF ShownInv, ShownTypes, PageType, LogInv
  <1>4. /\ n > page.count /\ (page.count # 0 => owner = r) /\ Ascends(c)
        /\ \A m \in CardsOf(l) : \/ m \in Range(c)
                                 \/ Shows(l, drawn[r], m) /\ \A j \in Range(c) : j > m
    BY <1>1, <1>2 DEF TailInv, ComingCards
  <1> HIDE DEF r, c, n, l
  <1>5. /\ drawn' = [drawn EXCEPT ![r] = Append(@, n)]
        /\ owner' = r
        /\ page'.count = (IF l[n] = "run" THEN 2 ELSE page.count + 1)
        /\ es' = (IF l[n] = "done" THEN None ELSE Rest)
    BY <1>1, <1>2, <1>3, <1>4, FrameFacts DEF Fine
  <1>6. drawn'[r] = Append(drawn[r], n) /\ \A q \in Run : q # r => drawn'[q] = drawn[q]
    BY <1>1, <1>3, <1>5
  <1>7. /\ Range(c) = {n} \cup Range(Tail(c)) /\ n \in Nat
        /\ \A m \in Range(Tail(c)) : m \in Nat /\ m > n
    <2>1. c \in Seq(Nat)
      <3>1. 1..Len(l) \subseteq Nat
        OBVIOUS
      <3>2. QED
        BY <1>1, <3>1, SeqMonotonic
    <2>2. QED
      BY <1>1, <1>4, <2>1, RangeOfTail
  <1>8. \A m \in CardsOf(l) :
            \/ m \in Range(Tail(c))
            \/ Shows(l, drawn'[r], m) /\ m <= n
    <2> SUFFICES ASSUME NEW m \in CardsOf(l), m \notin Range(Tail(c))
                 PROVE  Shows(l, drawn'[r], m) /\ m <= n
      OBVIOUS
    <2>1. m \in Nat
      BY <1>1, <1>3 DEF CardsOf
    <2>2. m = n \/ (Shows(l, drawn[r], m) /\ n > m)
      BY <1>4, <1>7
    <2>3. m = n \/ (m < n /\ Shows(l, drawn[r], m))
      BY <1>7, <2>1, <2>2
    <2>4. QED
      BY <1>1, <1>3, <1>6, <1>7, <2>1, <2>3, DrawnShows
  <1>9. CountedCards'
    <2> SUFFICES ASSUME NEW m \in CardsOf(l), m <= page'.count PROVE Shows(l, drawn'[r], m)
      BY <1>1, <1>5 DEF CountedCards, l
    <2>1. page'.count <= n /\ page'.count \in Nat
      <3>1. CASE l[n] = "run"
        BY <1>3, <1>5, <3>1
      <3>2. CASE l[n] # "run"
        BY <1>3, <1>4, <1>5, <1>7, <3>2
      <3>3. QED
        BY <3>1, <3>2
    <2>2. m \in Nat
      BY <1>1, <1>3 DEF CardsOf
    <2>3. m <= n
      BY <1>7, <2>1, <2>2
    <2>4. m \notin Range(Tail(c))
      BY <1>7, <2>2, <2>3
    <2>5. QED
      BY <1>8, <2>4
  <1>10. ComingCards'
    <2> SUFFICES ASSUME es' # None, NEW m \in CardsOf(l)
                 PROVE  \/ m \in Range(Tail(c))
                        \/ Shows(l, drawn'[r], m) /\ \A j \in Range(Tail(c)) : j > m
      BY <1>1, <1>5 DEF ComingCards, l
    <2>1. m \in Nat
      BY <1>1, <1>3 DEF CardsOf
    <2>2. m <= n => \A j \in Range(Tail(c)) : j > m
      BY <1>7, <2>1
    <2>3. QED
      BY <1>8, <2>2
  <1>11. EndedCards'
    <2> SUFFICES ASSUME NEW q \in Run, Len(drawn'[q]) # 0, log[q][Last(drawn'[q])] = "done",
                        NEW m \in CardsOf(log[q])
                 PROVE  Shows(log[q], drawn'[q], m)
      BY <1>1 DEF EndedCards
    <2>1. CASE q # r
      BY <1>2, <1>6, <2>1 DEF EndedCards
    <2>2. CASE q = r
      <3>1. Last(drawn'[r]) = n
        BY <1>3, <1>6, AppendProperties DEF Last
      <3>2. n = Len(l)
        BY <1>3, <2>2, <3>1 DEF l
      <3>3. m \in 1..Len(l)
        BY <2>2 DEF CardsOf, l
      <3>4. m \notin Range(Tail(c))
        BY <1>3, <1>7, <3>2, <3>3
      <3>5. QED
        BY <1>8, <2>2, <3>4 DEF l
    <2>3. QED
      BY <2>1, <2>2
  <1>12. QED
    BY <1>9, <1>10, <1>11

LEMMA StepCards ==
    ASSUME TypeInv, RegistryInv, FineInv, CardInv, [Next]_vars
    PROVE  CardInv'
  BY StepCases, StatusGrows, CalmCards, CutCards, JoinedCards, SendCards, EmitCards, ReadCards

\* The latest place a page shows a card at.
ShownAt(l, d, n) == {i \in DOMAIN d : l[d[i]] = l[n]}

LEMMA ShownLast ==
    ASSUME NEW l, NEW S, NEW d \in Seq(S), NEW n, Shows(l, d, n)
    PROVE  ShownAt(l, d, n) # {} /\ d[Max(ShownAt(l, d, n))] = n
  <1> DEFINE shown == ShownAt(l, d, n)
  <1>1. PICK i \in 1..Len(d) : d[i] = n /\ \A j \in i + 1..Len(d) : l[d[j]] # l[n]
    BY DEF Shows
  <1>2. DOMAIN d = 1..Len(d) /\ Len(d) \in Nat
    OBVIOUS
  <1>3. i \in shown /\ \A j \in shown : j \in Nat /\ i >= j
    <2>1. i \in shown
      BY <1>1, <1>2 DEF ShownAt
    <2>2. ASSUME NEW j \in shown, j > i PROVE FALSE
      <3>1. j \in i + 1..Len(d) /\ l[d[j]] = l[n]
        BY <1>1, <1>2, <2>2 DEF ShownAt
      <3>2. QED
        BY <1>1, <3>1
    <2>3. \A j \in shown : j \in Nat
      BY <1>2 DEF ShownAt
    <2>4. QED
      BY <1>1, <2>1, <2>2, <2>3
  <1> HIDE DEF shown
  <1>4. Max(shown) \in shown /\ \A j \in shown : Max(shown) >= j
    <2>1. \E x \in shown : \A y \in shown : x >= y
      BY <1>3
    <2>2. QED
      BY <2>1 DEF Max
  <1>5. Max(shown) = i
    <2> DEFINE x == Max(shown)
    <2>1. x \in Nat /\ i \in Nat /\ x >= i /\ i >= x
      BY <1>3, <1>4
    <2> HIDE DEF x
    <2>2. x = i
      BY <2>1
    <2>3. QED
      BY <2>2 DEF x
  <1>6. QED
    BY <1>1, <1>3, <1>5 DEF shown

\* A page that has read all there is of a run, or its end, shows each of its
\* cards at the latest state, for any ring however small: Run.cards keeps what
\* the ring has dropped, and Subscribe replays it before the ring (runs.go).
\* Only a full channel, which loses frames for good, is excepted, and a page
\* that joined a run with what it had counted of another.
THEOREM CardsAreCurrent == Spec => []CardsCurrent
  <1> DEFINE I == RegistryInv /\ TypeInv /\ FineInv /\ CardInv
  <1>1. Init => I
    BY InitRegistry, InitTypes, InitFine, InitCards
  <1>2. I /\ [Next]_vars => I'
    BY StepRegistry, StepTypes, StepFine, StepCards
  <1>3. I => CardsCurrent
    <2> SUFFICES ASSUME TypeInv, FineInv, CardInv, Full, NEW r \in Run, CaughtUp(r),
                        NEW n \in CardFrames(r)
                 PROVE  LET shown == {i \in DOMAIN drawn[r] : log[r][drawn[r][i]] = log[r][n]}
                        IN shown # {} /\ drawn[r][Max(shown)] = n
      BY DEF CardsCurrent, Full
    <2>1. n \in CardsOf(log[r]) /\ log[r] \in Seq(Kind) /\ drawn[r] \in Seq(1..MaxFrames)
      BY CardsAreOfLog, TypesShown DEF ShownInv, ShownTypes
    <2>2. ComingCards /\ EndedCards /\ AnswerInv
      BY FullIsFine DEF CardInv, FineInv
    <2>3. Shows(log[r], drawn[r], n)
      <3>1. CASE sse # None /\ sse.run = r
        <4>1. drawn[r] = Iota(Len(log[r]))
          BY <2>2, <3>1 DEF AnswerInv
        <4>2. QED
          BY <2>1, <4>1, AllDrawnShows
      <3>2. CASE es # None /\ es.run = r /\ Coming(es) = <<>> /\ status[r] # "swept"
        <4>1. \A m \in Range(Coming(es)) : FALSE
          <5>1. DOMAIN <<>> = {}
            OBVIOUS
          <5>2. QED
            BY <3>2, <5>1 DEF Range
        <4>2. QED
          BY <2>1, <2>2, <3>2, <4>1 DEF ComingCards
      <3>3. CASE drawn[r] # <<>> /\ log[r][Last(drawn[r])] = "done"
        <4>1. Len(drawn[r]) # 0
          BY <2>1, <3>3
        <4>2. QED
          BY <2>1, <2>2, <3>3, <4>1 DEF EndedCards
      <3>4. QED
        BY <3>1, <3>2, <3>3 DEF CaughtUp
    <2> DEFINE l == log[r]
               d == drawn[r]
    <2>4. d \in Seq(1..MaxFrames) /\ Shows(l, d, n)
      BY <2>1, <2>3
    <2> HIDE DEF l, d
    <2>5. ShownAt(l, d, n) # {} /\ d[Max(ShownAt(l, d, n))] = n
      BY <2>4, ShownLast
    <2>6. QED
      BY <2>5 DEF ShownAt, l, d
  <1>4. QED
    BY <1>1, <1>2, <1>3, PTL DEF Spec

-----------------------------------------------------------------------------
(* The order of what is drawn *)

DrawnInOrder == \A r \in Run : drawn[r] = Iota(Len(drawn[r]))

CountIsDrawn == owner # None => page.count = Len(drawn[owner])

\* All that a page has not drawn of the run it follows is to come, unless the
\* run is gone.
AllIsComing ==
    es # None =>
        /\ page.count = Len(drawn[es.run])
        /\ \/ status[es.run] = "swept" /\ Coming(es) = <<>>
           \/ Range(Coming(es)) = page.count + 1..Len(log[es.run])

OrderInv == lapses = {} => DrawnInOrder /\ CountIsDrawn /\ AllIsComing

LEMMA IotaLength ==
    ASSUME NEW n \in Nat
    PROVE  Iota(n) \in Seq(Nat) /\ Len(Iota(n)) = n
  BY DEF Iota

LEMMA InitOrder == Init => OrderInv
  <1> SUFFICES ASSUME Init PROVE OrderInv
    OBVIOUS
  <1>1. Iota(0) = <<>> /\ Len(<<>>) = 0
    BY EmptySeq DEF Iota
  <1>2. DrawnInOrder
    BY <1>1 DEF Init, DrawnInOrder
  <1>3. QED
    BY <1>2 DEF Init, OrderInv, CountIsDrawn, AllIsComing

LEMMA CalmOrder ==
    ASSUME TypeInv, Grows, OrderInv, Calm
    PROVE  OrderInv'
  <1> SUFFICES ASSUME lapses' = {} PROVE (DrawnInOrder /\ CountIsDrawn /\ AllIsComing)'
    BY DEF OrderInv
  <1>1. UNCHANGED <<log, page, drawn, owner, lapses>>
    BY DEF Calm
  <1>2. DrawnInOrder /\ CountIsDrawn /\ AllIsComing
    BY <1>1 DEF OrderInv
  <1>3. AllIsComing'
    <2>1. es' # None => /\ es # None /\ es'.run = es.run /\ es.run \in Run
                        /\ \/ Coming(es') = Coming(es)
                           \/ Coming(es') = <<>> /\ status'[es.run] = "swept"
      BY ConcatOfNothing, StreamTypes DEF Calm, Coming, EsType
    <2>2. es.run \in Run /\ status[es.run] = "swept" => status'[es.run] = "swept"
      BY DEF Grows
    <2>3. QED
      BY <1>1, <1>2, <2>1, <2>2 DEF AllIsComing
  <1>4. QED
    BY <1>1, <1>2, <1>3 DEF DrawnInOrder, CountIsDrawn

LEMMA CutOrder ==
    ASSUME TypeInv, FineInv, OrderInv, Ended \/ Opened \/ Loaded
    PROVE  OrderInv'
  <1> SUFFICES ASSUME lapses' = {} PROVE (DrawnInOrder /\ CountIsDrawn /\ AllIsComing)'
    BY DEF OrderInv
  <1>1. lapses = {} /\ Fine /\ DrawnInOrder /\ CountIsDrawn /\ AllIsComing
    BY DEF OrderInv, Fine, Ended, Opened, Loaded
  <1>2. page \in PageType /\ (page.count = 0 => owner = None)
    BY TypesShown DEF ShownInv, ShownTypes, StreamInv
  <1>3. CASE Ended \/ Opened
    <2>1. es' = None /\ UNCHANGED <<log, drawn>>
      BY <1>3 DEF Ended, Opened
    <2>2. owner' = None \/ (owner' = owner /\ page'.count = page.count)
      BY <1>2, <1>3 DEF Ended, Opened, PageType
    <2>3. QED
      BY <1>1, <2>1, <2>2 DEF DrawnInOrder, CountIsDrawn, AllIsComing
  <1>4. CASE Loaded
    <2>1. Loading /\ drawn' = [r \in Run |-> <<>>] /\ page.count = 0 /\ UNCHANGED <<page, es, owner>>
      BY <1>4 DEF Loaded
    <2>2. es = None
      BY <1>1, <2>1 DEF FineInv, TailInv
    <2>3. DrawnInOrder'
      <3>1. Iota(0) = <<>> /\ Len(<<>>) = 0
        BY EmptySeq DEF Iota
      <3>2. QED
        BY <2>1, <3>1 DEF DrawnInOrder
    <2>4. QED
      BY <1>2, <2>1, <2>2, <2>3 DEF CountIsDrawn, AllIsComing
  <1>5. QED
    BY <1>3, <1>4

LEMMA JoinedOrder ==
    ASSUME TypeInv, FineInv, OrderInv, NEW r \in Run, Joined(r)
    PROVE  OrderInv'
  <1> SUFFICES ASSUME lapses' = {} PROVE (DrawnInOrder /\ CountIsDrawn /\ AllIsComing)'
    BY DEF OrderInv
  <1>1. /\ Subscribe(r) /\ UNCHANGED <<log, status>>
        /\ page.count \in Nat /\ log[r] \in Seq(Kind)
    BY TypesShown DEF Joined, ShownInv, ShownTypes, PageType
  <1>2. /\ es'.run = r /\ Coming(es') = es'.back
        /\ es'.back = IF status[r] = "swept" THEN <<>> ELSE Backlog(r, page.count)
        /\ page'.count = page.count /\ drawn' = drawn /\ owner' = owner /\ lapses \subseteq lapses'
        /\ page.count # 0 => owner = r
        /\ ~Loading /\ Oldest(r) <= page.count + 1
    BY <1>1, JoinFacts
  <1>3. lapses = {} /\ Fine /\ DrawnInOrder /\ CountIsDrawn /\ CountsWhatIsDrawn
    BY <1>2 DEF OrderInv, Fine, FineInv
  <1>4. page.count = Len(drawn[r])
    <2>1. CASE page.count = 0
      <3>1. drawn[r] = <<>> /\ Len(<<>>) = 0
        BY <1>2, <1>3, <2>1, EmptySeq DEF CountsWhatIsDrawn
      <3>2. QED
        BY <2>1, <3>1
    <2>2. CASE page.count # 0
      BY <1>2, <1>3, <2>2, RunsAreNotNone DEF CountIsDrawn
    <2>3. QED
      BY <2>1, <2>2
  <1>5. status[r] # "swept" => Range(Coming(es')) = page.count + 1..Len(log[r])
    BY <1>1, <1>2, BacklogFacts
  <1>6. AllIsComing'
    BY <1>1, <1>2, <1>4, <1>5 DEF AllIsComing
  <1>7. QED
    BY <1>2, <1>3, <1>6 DEF DrawnInOrder, CountIsDrawn

LEMMA SendOrder ==
    ASSUME TypeInv, RegistryInv, OrderInv, NEW r \in Run, Send(r)
    PROVE  OrderInv'
  <1> SUFFICES ASSUME lapses' = {} PROVE (DrawnInOrder /\ CountIsDrawn /\ AllIsComing)'
    BY DEF OrderInv
  <1>1. es = None /\ page'.count = page.count /\ UNCHANGED <<log, es, drawn, owner, lapses>>
    BY SendFacts
  <1>2. QED
    BY <1>1 DEF OrderInv, DrawnInOrder, CountIsDrawn, AllIsComing

LEMMA EmitOrder ==
    ASSUME TypeInv, FineInv, OrderInv, NEW r \in Run, NEW k \in Kind, Emit(r, k)
    PROVE  OrderInv'
  <1> DEFINE n == Len(log[r]) + 1
             o == Offered(r, n)
  <1> SUFFICES ASSUME lapses' = {} PROVE (DrawnInOrder /\ CountIsDrawn /\ AllIsComing)'
    BY DEF OrderInv
  <1>1. /\ n \in 1..MaxFrames /\ status[r] = "running" /\ UNCHANGED status
        /\ Len(log'[r]) = n
        /\ k = "run" <=> n = 2
        /\ \A q \in Run : q # r => log'[q] = log[q]
        /\ IF sse # None /\ sse.run = r THEN Frame(r, n, k, sse, o)
           ELSE es' = o /\ UNCHANGED <<page, sse, drawn, owner>>
        /\ lapses = {}
        /\ es # None /\ es.run = r => Len(es.chan) < Buffer
    BY EmitFacts
  <1>2. /\ Fine /\ DrawnInOrder /\ CountIsDrawn /\ AllIsComing
        /\ OneStream /\ CountsWhatIsDrawn /\ AnswerInv
    BY <1>1 DEF OrderInv, Fine, FineInv
  <1>3. /\ page \in PageType /\ page.count \in Nat /\ drawn \in [Run -> Seq(1..MaxFrames)]
        /\ Len(log[r]) \in Nat /\ n \in Nat /\ n - 1 = Len(log[r])
    <2>1. log[r] \in Seq(Kind)
      BY TypesShown DEF ShownInv, ShownTypes
    <2>2. QED
      BY <1>1, <2>1, TypesShown DEF ShownInv, ShownTypes, PageType
  <1>4. None \notin Run
    BY RunsAreNotNone
  <1> HIDE DEF n
  <1>5. CASE sse # None /\ sse.run = r
    <2>1. /\ drawn[r] = Iota(n - 1) /\ es = None /\ o = None
          /\ n - 1 >= 2 => owner = r
          /\ owner = r => page.count = n - 1
          /\ page.count = 0 => n - 1 = 0
      BY <1>2, <1>3, <1>5 DEF AnswerInv, OneStream, Offered
    <2>2. /\ drawn' = [drawn EXCEPT ![r] = Append(@, n)]
          /\ owner' = IF k = "run" \/ page.count = 0 \/ owner = r THEN r ELSE None
          /\ page'.count = IF k = "run" THEN 2 ELSE page.count + 1
          /\ es' = None
      BY <1>1, <1>2, <1>3, <1>5, <2>1, FrameFacts DEF Fine
    <2>3. /\ drawn'[r] = Iota(n)
          /\ \A q \in Run : q # r => drawn'[q] = drawn[q]
      <3>1. Append(Iota(n - 1), n) = Iota(n)
        <4>1. n - 1 \in Nat /\ (n - 1) + 1 = n
          BY <1>3
        <4>2. QED
          BY <4>1, IotaAppend
      <3>2. QED
        BY <1>3, <2>1, <2>2, <3>1
    <2>4. Len(Iota(n)) = n
      BY <1>3, IotaLength
    <2>5. owner' = r => page'.count = n
      BY <1>1, <1>3, <1>4, <2>1, <2>2
    <2>6. DrawnInOrder' /\ CountIsDrawn'
      BY <1>2, <1>4, <2>2, <2>3, <2>4, <2>5 DEF DrawnInOrder, CountIsDrawn
    <2>7. QED
      BY <2>2, <2>6 DEF AllIsComing
  <1>6. CASE ~(sse # None /\ sse.run = r)
    <2>1. es' = o /\ UNCHANGED <<page, sse, drawn, owner>>
      BY <1>1, <1>6
    <2>2. AllIsComing'
      <3> SUFFICES ASSUME es # None, es' # None
                   PROVE  /\ page.count = Len(drawn[es'.run])
                          /\ \/ status[es'.run] = "swept" /\ Coming(es') = <<>>
                             \/ Range(Coming(es')) = page.count + 1..Len(log'[es'.run])
        <4>1. es' # None => es # None
          BY <2>1 DEF Offered
        <4>2. QED
          BY <1>1, <2>1, <4>1 DEF AllIsComing
      <3>1. /\ es'.run = es.run /\ es.run \in Run
            /\ es.run # r => es' = es
            /\ es.run = r => /\ Coming(es) \in Seq(1..n - 1)
                             /\ Coming(es') = Append(Coming(es), n)
        BY <1>1, <2>1, OfferedFacts, StreamTypes DEF n, EsType
      <3>2. CASE es.run # r
        <4>1. log'[es.run] = log[es.run] /\ es' = es
          BY <1>1, <3>1, <3>2
        <4>2. QED
          BY <1>2, <4>1 DEF AllIsComing
      <3>3. CASE es.run = r
        <4>1. page.count = Len(drawn[r]) /\ Range(Coming(es)) = page.count + 1..n - 1
          BY <1>1, <1>2, <1>3, <3>3 DEF AllIsComing
        <4>2. page.count <= n - 1
          <5>1. CASE page.count = 0
            BY <1>3, <5>1
          <5>2. CASE page.count # 0
            <6>1. drawn[r] \in Seq(1..Len(log[r])) /\ drawn[r] = Iota(Len(drawn[r]))
              BY <1>2, TypesShown DEF DrawnInOrder, ShownInv, LogInv
            <6>2. Iota(page.count)[page.count] = page.count /\ page.count \in 1..page.count
              BY <1>3, <5>2 DEF Iota
            <6>3. drawn[r][page.count] \in 1..n - 1
              BY <1>3, <4>1, <6>1, <6>2, ElementOfSeq
            <6>4. QED
              BY <1>3, <4>1, <6>1, <6>2, <6>3
          <5>3. QED
            BY <5>1, <5>2
        <4> DEFINE c == Coming(es)
        <4>3. c \in Seq(1..n - 1) /\ Coming(es') = Append(c, n)
          BY <3>1, <3>3
        <4> HIDE DEF c
        <4>4. Range(Coming(es')) = Range(c) \cup {n}
          BY <4>3, RangeOfAppend
        <4>5. (page.count + 1..n - 1) \cup {n} = page.count + 1..n
          BY <1>3, <4>2
        <4>6. QED
          BY <1>1, <3>1, <3>3, <4>1, <4>4, <4>5 DEF c
      <3>4. QED
        BY <3>2, <3>3
    <2>3. QED
      BY <1>2, <2>1, <2>2 DEF DrawnInOrder, CountIsDrawn
  <1>7. QED
    BY <1>5, <1>6

LEMMA ReadOrder ==
    ASSUME TypeInv, FineInv, OrderInv, ReadEs
    PROVE  OrderInv'
  <1> DEFINE r == es.run
             c == Coming(es)
             n == Head(c)
             N == Len(log[r])
  <1> SUFFICES ASSUME lapses' = {} PROVE (DrawnInOrder /\ CountIsDrawn /\ AllIsComing)'
    BY DEF OrderInv
  <1>1. /\ es # None /\ r \in Run /\ c \in Seq(1..N) /\ c # <<>>
        /\ n = c[1] /\ n \in 1..N
        /\ Frame(r, n, log[r][n], sse, Rest)
        /\ Rest.run = r /\ Coming(Rest) = Tail(c)
        /\ UNCHANGED <<log, status, lapses>>
    BY ReadFacts
  <1>2. lapses = {} /\ Fine /\ DrawnInOrder /\ CountIsDrawn /\ AllIsComing /\ TailInv
    BY <1>1 DEF OrderInv, Fine, FineInv
  <1>3. /\ page \in PageType /\ page.count \in Nat /\ N \in Nat
        /\ drawn \in [Run -> Seq(1..MaxFrames)]
        /\ log[r][n] = "run" <=> n = 2
    <2>1. log[r] \in Seq(Kind)
      BY <1>1, TypesShown DEF ShownInv, ShownTypes
    <2>2. QED
      BY <1>1, <2>1, TypesShown DEF ShownInv, ShownTypes, PageType, LogInv
  <1>4. /\ (page.count # 0 => owner = r) /\ Ascends(c)
        /\ page.count = Len(drawn[r]) /\ Range(c) = page.count + 1..N
    BY <1>1, <1>2 DEF TailInv, AllIsComing
  <1> HIDE DEF r, c, n, N
  <1>5. /\ drawn' = [drawn EXCEPT ![r] = Append(@, n)]
        /\ owner' = r
        /\ page'.count = (IF log[r][n] = "run" THEN 2 ELSE page.count + 1)
        /\ es' = (IF log[r][n] = "done" THEN None ELSE Rest)
    BY <1>1, <1>2, <1>3, <1>4, FrameFacts DEF Fine
  <1>6. /\ Range(c) = {n} \cup Range(Tail(c)) /\ n \in Nat
        /\ \A m \in Range(Tail(c)) : m \in Nat /\ m > n
    <2>1. c \in Seq(Nat)
      <3>1. 1..N \subseteq Nat
        BY <1>3
      <3>2. QED
        BY <1>1, <3>1, SeqMonotonic
    <2>2. QED
      BY <1>1, <1>4, <2>1, RangeOfTail
  <1>7. n = page.count + 1 /\ Range(Tail(c)) = n + 1..N
    <2> DEFINE p == page.count
               R == Range(Tail(c))
    <2>1. /\ p \in Nat /\ N \in Nat /\ n \in 1..N
          /\ p + 1..N = {n} \cup R /\ \A m \in R : m \in Nat /\ m > n
      BY <1>1, <1>3, <1>4, <1>6
    <2> HIDE DEF p, R
    <2>2. n \in p + 1..N
      BY <2>1
    <2>3. p + 1 \in p + 1..N
      BY <2>1, <2>2
    <2>4. n = p + 1
      BY <2>1, <2>2, <2>3
    <2>5. \A m \in n + 1..N : m \in R
      BY <2>1, <2>4
    <2>6. \A m \in R : m \in n + 1..N
      BY <2>1
    <2>7. QED
      BY <2>4, <2>5, <2>6 DEF p, R
  <1>8. /\ drawn'[r] = Iota(n) /\ \A q \in Run : q # r => drawn'[q] = drawn[q]
    <2>1. drawn[r] = Iota(page.count)
      BY <1>1, <1>2, <1>4 DEF DrawnInOrder
    <2>2. QED
      BY <1>1, <1>3, <1>5, <1>7, <2>1, IotaAppend
  <1>9. Len(drawn'[r]) = n
    BY <1>6, <1>8, IotaLength
  <1>10. page'.count = n
    BY <1>3, <1>5, <1>7
  <1>11. DrawnInOrder' /\ CountIsDrawn'
    BY <1>1, <1>2, <1>5, <1>8, <1>9, <1>10 DEF DrawnInOrder, CountIsDrawn
  <1>12. AllIsComing'
    BY <1>1, <1>5, <1>7, <1>9, <1>10 DEF AllIsComing, N
  <1>13. QED
    BY <1>11, <1>12

LEMMA StepOrder ==
    ASSUME TypeInv, RegistryInv, FineInv, OrderInv, [Next]_vars
    PROVE  OrderInv'
  BY StepCases, StatusGrows, CalmOrder, CutOrder, JoinedOrder, SendOrder, EmitOrder, ReadOrder

\* Across any number of broken streams, restarts and rejoins a page draws a
\* run's frames from the first, each once and in order: asking for those past
\* runSeqReceived (30_agent_loop_panel.js) and replaying the ring under the lock
\* that registers the subscriber (Run.Subscribe, runs.go) leave neither a gap
\* nor a repeat, unless one of the named lapses is recorded.
THEOREM DrawnOnceInOrder == Spec => []ShownInOrder
  <1> DEFINE I == RegistryInv /\ TypeInv /\ FineInv /\ OrderInv
  <1>1. Init => I
    BY InitRegistry, InitTypes, InitFine, InitOrder
  <1>2. I /\ [Next]_vars => I'
    BY StepRegistry, StepTypes, StepFine, StepOrder
  <1>3. I => ShownInOrder
    BY DEF OrderInv, DrawnInOrder, ShownInOrder, Iota
  <1>4. QED
    BY <1>1, <1>2, <1>3, PTL DEF Spec

=============================================================================
