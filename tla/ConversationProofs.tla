-------------------------- MODULE ConversationProofs --------------------------
(***************************************************************************)
(* Proofs about Conversation for every set of jobs, notes and turns and    *)
(* every depth of the queue: types, work that was stopped in time stays    *)
(* silent, a result is told once, and reports do not overwrite each other. *)
(***************************************************************************)
EXTENDS Conversation, SequenceTheorems, FiniteSetTheorems, WellFoundedInduction,
        TLAPS

-----------------------------------------------------------------------------
(* What taking entries out of a queue leaves *)

\* A set of naturals has a least element.
LEMMA Least ==
    ASSUME NEW T \in SUBSET Nat, T # {}
    PROVE  \E m \in T : \A k \in T : m <= k
  <1>1. PICK m \in T : \A y \in T : ~ (<<y, m>> \in OpToRel(<, Nat))
    BY NatLessThanWellFounded, WFMin, Zenon
  <1>2. ASSUME NEW k \in T PROVE m <= k
    <2>1. <<k, m>> \in Nat \X Nat
      OBVIOUS
    <2>2. ~(k < m)
      BY <1>1, <2>1 DEF OpToRel
    <2>3. QED
      BY <2>2
  <1>3. QED
    BY <1>2

\* The recursion in Only is defined at every length.
LEMMA OnlyDefined ==
    ASSUME NEW E, NEW q \in Seq(E), NEW S
    PROVE  \E f : /\ f[0] = <<>>
                  /\ \A n \in 1..Len(q) :
                        f[n] = IF q[n] \in S THEN Append(f[n-1], q[n]) ELSE f[n-1]
                  /\ Only(q, S) = f[Len(q)]
  <1> DEFINE Rec(n) == \E f : f = [i \in 0..n |->
                            IF i = 0 THEN <<>>
                            ELSE IF q[i] \in S THEN Append(f[i-1], q[i]) ELSE f[i-1]]
             Bad == {n \in Nat : ~Rec(n)}
  <1>1. Rec(0)
    <2> DEFINE f == [i \in 0..0 |-> <<>>]
    <2>1. f = [i \in 0..0 |->
                 IF i = 0 THEN <<>>
                 ELSE IF q[i] \in S THEN Append(f[i-1], q[i]) ELSE f[i-1]]
      OBVIOUS
    <2>2. QED
      BY <2>1
  <1>2. ASSUME NEW n \in Nat \ {0}, Rec(n - 1)
        PROVE  Rec(n)
    <2>1. PICK f : f = [i \in 0..(n - 1) |->
                     IF i = 0 THEN <<>>
                     ELSE IF q[i] \in S THEN Append(f[i-1], q[i]) ELSE f[i-1]]
      BY <1>2
    <2> DEFINE g == [i \in 0..n |->
                       IF i < n THEN f[i]
                       ELSE IF q[n] \in S THEN Append(f[n-1], q[n]) ELSE f[n-1]]
    <2>2. \A i \in 0..(n - 1) : g[i] = f[i]
      OBVIOUS
    <2>3. ASSUME NEW i \in 0..n
          PROVE  g[i] = IF i = 0 THEN <<>>
                        ELSE IF q[i] \in S THEN Append(g[i-1], q[i]) ELSE g[i-1]
      <3>1. CASE i = 0
        BY <3>1, <2>1, <2>2
      <3>2. CASE i \in 1..(n - 1)
        <4>1. g[i] = f[i] /\ g[i - 1] = f[i - 1] /\ i # 0
          BY <3>2, <2>2
        <4>2. i \in 0..(n - 1) /\ i # 0
          BY <3>2
        <4> HIDE DEF g
        <4>3. f[i] = IF q[i] \in S THEN Append(f[i-1], q[i]) ELSE f[i-1]
          BY <2>1, <4>2
        <4>4. QED
          BY <4>1, <4>3
      <3>3. CASE i = n
        BY <3>3, <2>2
      <3>4. QED
        BY <3>1, <3>2, <3>3
    <2>4. g = [i \in 0..n |->
                 IF i = 0 THEN <<>>
                 ELSE IF q[i] \in S THEN Append(g[i-1], q[i]) ELSE g[i-1]]
      BY <2>3
    <2>5. QED
      BY <2>4
  <1> HIDE DEF Rec
  <1>3. Bad = {}
    <2> SUFFICES ASSUME Bad # {} PROVE FALSE
      OBVIOUS
    <2>1. PICK m \in Bad : \A k \in Bad : m <= k
      BY Least, Bad \in SUBSET Nat
    <2>2. m \in Nat \ {0}
      BY <1>1
    <2>3. m - 1 \in Nat \ Bad
      BY <2>1, <2>2
    <2>4. QED
      BY <1>2, <2>1, <2>2, <2>3
  <1>4. Rec(Len(q))
    BY <1>3
  <1>5. PICK f : /\ f = [i \in 0..Len(q) |->
                           IF i = 0 THEN <<>>
                           ELSE IF q[i] \in S THEN Append(f[i-1], q[i]) ELSE f[i-1]]
                 /\ Only(q, S) = f[Len(q)]
    BY <1>4 DEF Only, Rec
  <1>6. f[0] = <<>>
    BY <1>5
  <1>7. ASSUME NEW n \in 1..Len(q)
        PROVE  f[n] = IF q[n] \in S THEN Append(f[n-1], q[n]) ELSE f[n-1]
    <2>1. n \in 0..Len(q) /\ n # 0
      OBVIOUS
    <2>2. QED
      BY <1>5, <2>1
  <1>8. QED
    BY <1>5, <1>6, <1>7

\* Only(q, S) holds entries of q that are in S, each at most once.
LEMMA OnlyFacts ==
    ASSUME NEW E, NEW q \in Seq(E), NEW S
    PROVE  /\ Only(q, S) \in Seq(E) /\ Len(Only(q, S)) <= Len(q)
           /\ \E h \in [1..Len(Only(q, S)) -> 1..Len(q)] :
                 /\ \A i \in 1..Len(Only(q, S)) :
                       Only(q, S)[i] = q[h[i]] /\ q[h[i]] \in S
                 /\ \A i, j \in 1..Len(Only(q, S)) : h[i] = h[j] => i = j
  <1>1. PICK f : /\ f[0] = <<>>
                 /\ \A n \in 1..Len(q) :
                       f[n] = IF q[n] \in S THEN Append(f[n-1], q[n]) ELSE f[n-1]
                 /\ Only(q, S) = f[Len(q)]
    BY OnlyDefined
  <1> DEFINE Good(n) ==
                /\ f[n] \in Seq(E) /\ Len(f[n]) <= n
                /\ \E h \in [1..Len(f[n]) -> 1..n] :
                      /\ \A i \in 1..Len(f[n]) : f[n][i] = q[h[i]] /\ q[h[i]] \in S
                      /\ \A i, j \in 1..Len(f[n]) : h[i] = h[j] => i = j
             Bad == {n \in 0..Len(q) : ~Good(n)}
  <1>4. Good(0)
    <2> DEFINE h == [i \in 1..0 |-> 0]
    <2>1. f[0] = <<>> /\ Len(f[0]) = 0 /\ f[0] \in Seq(E)
      BY <1>1
    <2>2. h \in [1..Len(f[0]) -> 1..0]
      BY <2>1
    <2>3. /\ \A i \in 1..Len(f[0]) : f[0][i] = q[h[i]] /\ q[h[i]] \in S
          /\ \A i, j \in 1..Len(f[0]) : h[i] = h[j] => i = j
      BY <2>1
    <2> HIDE DEF h
    <2>4. \E k \in [1..Len(f[0]) -> 1..0] :
             /\ \A i \in 1..Len(f[0]) : f[0][i] = q[k[i]] /\ q[k[i]] \in S
             /\ \A i, j \in 1..Len(f[0]) : k[i] = k[j] => i = j
      BY <2>2, <2>3
    <2>5. Len(f[0]) <= 0
      BY <2>1
    <2>6. QED
      BY <2>1, <2>4, <2>5, Zenon
  <1>5. ASSUME NEW n \in 1..Len(q), Good(n - 1)
        PROVE  Good(n)
    <2>1. CASE q[n] \notin S
      <3>1. f[n] = f[n - 1]
        BY <1>1, <2>1
      <3>2. PICK h \in [1..Len(f[n-1]) -> 1..(n-1)] :
                /\ \A i \in 1..Len(f[n-1]) : f[n-1][i] = q[h[i]] /\ q[h[i]] \in S
                /\ \A i, j \in 1..Len(f[n-1]) : h[i] = h[j] => i = j
        BY <1>5
      <3>3. h \in [1..Len(f[n]) -> 1..n]
        BY <3>1, <3>2
      <3>4. f[n] \in Seq(E) /\ Len(f[n]) <= n
        BY <3>1, <1>5
      <3>5. \A i \in 1..Len(f[n]) : f[n][i] = q[h[i]] /\ q[h[i]] \in S
        BY <3>1, <3>2
      <3>6. \A i, j \in 1..Len(f[n]) : h[i] = h[j] => i = j
        BY <3>1, <3>2
      <3>7. QED
        BY <3>3, <3>4, <3>5, <3>6
    <2>2. CASE q[n] \in S
      <3> DEFINE s == f[n - 1]
                 m == Len(s)
      <3>1. f[n] = Append(s, q[n]) /\ q[n] \in E /\ s \in Seq(E) /\ m \in Nat /\ m <= n - 1
        <4>1. f[n] = Append(s, q[n])
          BY <1>1, <2>2
        <4>2. s \in Seq(E) /\ m <= n - 1
          BY <1>5
        <4>3. q[n] \in E
          OBVIOUS
        <4>4. m \in Nat
          BY <4>2, LenProperties
        <4>5. QED
          BY <4>1, <4>2, <4>3, <4>4
      <3>2. PICK h \in [1..m -> 1..(n-1)] :
                /\ \A i \in 1..m : s[i] = q[h[i]] /\ q[h[i]] \in S
                /\ \A i, j \in 1..m : h[i] = h[j] => i = j
        BY <1>5
      <3>3. /\ f[n] \in Seq(E) /\ Len(f[n]) = m + 1
            /\ \A i \in 1..m : f[n][i] = s[i]
            /\ f[n][m + 1] = q[n]
        BY <3>1
      <3> DEFINE g == [i \in 1..(m + 1) |-> IF i = m + 1 THEN n ELSE h[i]]
      <3> HIDE DEF s, m
      <3>4. g \in [1..(m + 1) -> 1..n]
        BY <3>1, <3>2
      <3>5. \A i \in 1..m : g[i] = h[i] /\ g[i] < n
        BY <3>1, <3>2
      <3>6. g[m + 1] = n
        BY <3>1
      <3> HIDE DEF g
      <3>7. ASSUME NEW i \in 1..(m + 1)
            PROVE  f[n][i] = q[g[i]] /\ q[g[i]] \in S
        BY <3>1, <3>2, <3>3, <3>5, <3>6, <2>2
      <3>8. ASSUME NEW i \in 1..(m + 1), NEW j \in 1..(m + 1), g[i] = g[j]
            PROVE  i = j
        <4>1. CASE i = m + 1 /\ j = m + 1
          BY <4>1
        <4>2. CASE i \in 1..m /\ j \in 1..m
          BY <3>8, <4>2, <3>2, <3>5
        <4>3. CASE (i = m + 1 /\ j \in 1..m) \/ (j = m + 1 /\ i \in 1..m)
          <5>1. \A k \in 1..m : g[k] # n
            BY <3>5, <3>4
          <5>2. QED
            BY <3>8, <4>3, <5>1, <3>6
        <4>4. m \in Nat
          BY <3>1
        <4>5. \/ i = m + 1 /\ j = m + 1
              \/ i \in 1..m /\ j \in 1..m
              \/ i = m + 1 /\ j \in 1..m
              \/ j = m + 1 /\ i \in 1..m
          BY <4>4
        <4>6. QED
          BY <4>1, <4>2, <4>3, <4>5
      <3>9. Len(f[n]) <= n
        BY <3>1, <3>3
      <3>10. QED
        BY <3>3, <3>4, <3>7, <3>8, <3>9
    <2>3. QED
      BY <2>1, <2>2
  <1> HIDE DEF Good
  <1>6. Bad = {}
    <2> SUFFICES ASSUME Bad # {} PROVE FALSE
      OBVIOUS
    <2>1. PICK m \in Bad : \A k \in Bad : m <= k
      <3>1. Bad \in SUBSET Nat
        OBVIOUS
      <3>2. QED
        BY <3>1, Least
    <2>2. m \in 1..Len(q)
      BY <1>4
    <2>3. m - 1 \in 0..Len(q) /\ m - 1 \notin Bad
      BY <2>1, <2>2
    <2>4. QED
      BY <1>5, <2>2, <2>3
  <1>7. Good(Len(q))
    BY <1>6
  <1>8. Only(q, S) = f[Len(q)]
    BY <1>1
  <1>9. QED
    BY <1>7, <1>8 DEF Good

-----------------------------------------------------------------------------
(* Types *)

\* A goroutine that looks for a queue, or asks for the window, holds results
\* only; one that is about to push has found a queue.
HandInv ==
    \A h \in hands : /\ h.at \in {"look", "claim"} => h.notes \subseteq Job
                     /\ h.at = "push" => h.q \in Turn

TypeInv == TypeOK /\ HandInv

LEMMA InitType == Init => TypeInv
  <1> SUFFICES ASSUME Init PROVE TypeInv
    OBVIOUS
  <1>1. queue \in [Turn -> Seq(Entry)] /\ \A t \in Turn : Len(queue[t]) <= Depth
    BY ConversationAssumption DEF Init
  <1>2. QED
    BY <1>1 DEF Init, TypeInv, TypeOK, HandInv, JobPc, TurnPc, Fate

\* A new hand, typed as HandInv asks, keeps the hands typed.
LEMMA NewHand ==
    ASSUME HandInv, hands \subseteq Hand, NEW h \in Hand, NEW S,
           S \subseteq hands, hands' = S \cup {h},
           h.at \in {"look", "claim"} => h.notes \subseteq Job,
           h.at = "push" => h.q \in Turn
    PROVE  hands' \subseteq Hand /\ HandInv'
  BY DEF HandInv

\* The actions of a job leave the queues alone.
LEMMA JobTypes ==
    ASSUME TypeInv, NEW j \in Job,
           \/ StartTask(j) \/ FnReturns(j) \/ FnPanics(j) \/ CancelRun(j)
           \/ JobStep(j)
    PROVE  TypeInv'
  <1> USE DEF TypeInv, TypeOK, HandInv, JobPc, Goto, wakeVars, turnVars, jobVars
  <1>1. CASE StartTask(j)
    BY <1>1 DEF StartTask
  <1>2. CASE FnReturns(j)
    BY <1>2 DEF FnReturns
  <1>3. CASE FnPanics(j)
    BY <1>3 DEF FnPanics
  <1>4. CASE CancelRun(j)
    BY <1>4 DEF CancelRun
  <1>5. CASE CheckContext(j)
    BY <1>5 DEF CheckContext
  <1>6. CASE FinishBackgroundJob(j)
    BY <1>6 DEF FinishBackgroundJob
  <1>7. CASE BuildWakeNote(j)
    <2>1. [notes |-> {j}, at |-> "look", q |-> None, from |-> j] \in Hand
      BY DEF Hand, Item
    <2>2. HasFiles(j) => j \in Filed
      BY DEF HasFiles
    <2>3. hands' \subseteq Hand /\ HandInv'
      BY <1>7, <2>1, NewHand DEF BuildWakeNote
    <2>4. staged' \subseteq Filed
      BY <1>7, <2>2 DEF BuildWakeNote
    <2>5. QED
      BY <1>7, <2>3, <2>4 DEF BuildWakeNote
  <1>8. CASE CompleteBackgroundJob(j)
    BY <1>8 DEF CompleteBackgroundJob
  <1>9. QED
    BY <1>1, <1>2, <1>3, <1>4, <1>5, <1>6, <1>7, <1>8 DEF JobStep

\* Pushing onto a queue keeps it a queue of at most Depth entries.
LEMMA PushTypes ==
    ASSUME TypeInv, NEW h \in hands, Push(h)
    PROVE  TypeInv'
  <1> USE DEF TypeInv, TypeOK, HandInv, jobVars
  <1> DEFINE q == queue[h.q]
             new == [notes |-> h.notes, locked |-> FALSE]
  <1>1. h.q \in Turn /\ h \in Hand /\ new \in Entry
    BY DEF Push, Hand, Entry
  <1>2. q \in Seq(Entry) /\ Len(q) <= Depth
    BY <1>1
  <1>3. CASE Len(q) >= Depth
    <2>1. q # <<>> /\ Len(q) = Depth
      BY <1>2, <1>3, ConversationAssumption
    <2>2. Append(Tail(q), new) \in Seq(Entry) /\ Len(Append(Tail(q), new)) <= Depth
      BY <1>1, <1>2, <2>1, ConversationAssumption
    <2>3. queue' \in [Turn -> Seq(Entry)] /\ \A t \in Turn : Len(queue'[t]) <= Depth
      BY <1>1, <1>3, <2>2 DEF Push
    <2>4. fate' \in [Item -> Fate]
      BY <1>3 DEF Push, Settle, Fate
    <2>5. QED
      BY <2>3, <2>4 DEF Push, Returned, JobPc
  <1>4. CASE ~(Len(q) >= Depth)
    <2>1. Append(q, new) \in Seq(Entry) /\ Len(Append(q, new)) <= Depth
      BY <1>1, <1>2, <1>4, ConversationAssumption
    <2>2. queue' \in [Turn -> Seq(Entry)] /\ \A t \in Turn : Len(queue'[t]) <= Depth
      BY <1>1, <1>4, <2>1 DEF Push
    <2>3. fate' = fate
      BY <1>4 DEF Push
    <2>4. QED
      BY <2>2, <2>3 DEF Push, Returned, JobPc
  <1>5. QED
    BY <1>3, <1>4

LEMMA HandTypes ==
    ASSUME TypeInv, HandStep \/ TakeBufferedWakes
    PROVE  TypeInv'
  <1> USE DEF TypeInv, TypeOK, HandInv, turnVars, jobVars
  <1>1. ASSUME NEW h \in hands, LookupQueue(h) PROVE TypeInv'
    <2>1. h \in Hand /\ h.notes \subseteq Job
      BY <1>1 DEF LookupQueue
    <2>2. CASE registered # None /\ staged = {}
      <3>1. [h EXCEPT !.at = "push", !.q = registered] \in Hand
        BY <2>1 DEF Hand
      <3> DEFINE g == [h EXCEPT !.at = "push", !.q = registered]
      <3>2. g.at = "push" /\ g.q \in Turn
        BY <2>1, <2>2 DEF Hand
      <3>3. hands' = (hands \ {h}) \cup {g}
        BY <1>1, <2>2 DEF LookupQueue
      <3> HIDE DEF g
      <3>4. hands' \subseteq Hand /\ HandInv'
        BY <3>1, <3>2, <3>3, NewHand DEF g
      <3>5. QED
        BY <1>1, <2>2, <3>4 DEF LookupQueue
    <2>3. CASE ~(registered # None /\ staged = {}) /\ h.from # None
      <3>1. [h EXCEPT !.at = "claim"] \in Hand
        BY <2>1 DEF Hand
      <3> DEFINE g == [h EXCEPT !.at = "claim"]
      <3>2. g.at = "claim" /\ g.notes \subseteq Job
        BY <2>1 DEF Hand
      <3>3. hands' = (hands \ {h}) \cup {g}
        BY <1>1, <2>3 DEF LookupQueue
      <3> HIDE DEF g
      <3>4. hands' \subseteq Hand /\ HandInv'
        BY <3>1, <3>2, <3>3, NewHand DEF g
      <3>5. QED
        BY <1>1, <2>3, <3>4 DEF LookupQueue
    <2>4. CASE ~(registered # None /\ staged = {}) /\ h.from = None
      <3>1. wakes' \subseteq Wake
        BY <1>1, <2>1, <2>4 DEF LookupQueue, StartWake, Wake
      <3>2. QED
        BY <1>1, <2>4, <3>1 DEF LookupQueue
    <2>5. QED
      BY <2>2, <2>3, <2>4
  <1>2. ASSUME NEW h \in hands, Push(h) PROVE TypeInv'
    BY <1>2, PushTypes
  <1>3. ASSUME NEW h \in hands, ClaimWakeWindow(h) PROVE TypeInv'
    <2>1. h \in Hand /\ h.notes \subseteq Job
      BY <1>3 DEF ClaimWakeWindow
    <2>2. wakes' \subseteq Wake
      BY <1>3, <2>1 DEF ClaimWakeWindow, StartWake, Wake, Hand
    <2>3. QED
      BY <1>3, <2>1, <2>2 DEF ClaimWakeWindow, Returned, JobPc
  <1>4. CASE TakeBufferedWakes
    <2>1. [notes |-> buffered, at |-> "look", q |-> None, from |-> None] \in Hand
      BY DEF Hand, Item
    <2>2. hands' \subseteq Hand /\ HandInv'
      BY <1>4, <2>1, NewHand DEF TakeBufferedWakes
    <2>3. QED
      BY <1>4, <2>2 DEF TakeBufferedWakes
  <1>5. QED
    BY <1>1, <1>2, <1>3, <1>4 DEF HandStep

LEMMA WakeTypes ==
    ASSUME TypeInv, WakeStep
    PROVE  TypeInv'
  <1> USE DEF TypeInv, TypeOK, HandInv, turnVars, jobVars
  <1>1. ASSUME NEW w \in wakes, WakeLoad(w) PROVE TypeInv'
    <2>1. [w EXCEPT !.at = "run", !.files = staged] \in Wake
      BY DEF Wake
    <2>2. QED
      BY <1>1, <2>1 DEF WakeLoad
  <1>2. ASSUME NEW w \in wakes, AppendLoad(w) PROVE TypeInv'
    <2>1. [w EXCEPT !.at = "save", !.base = thread, !.files = {}] \in Wake
      BY DEF Wake
    <2>2. QED
      BY <1>2, <2>1 DEF AppendLoad
  <1>3. ASSUME NEW w \in wakes, AppendSave(w) PROVE TypeInv'
    <2>1. w.base \cup w.notes \subseteq Item
      BY DEF Wake, Item
    <2>2. fate' \in [Item -> Fate]
      BY <1>3 DEF AppendSave, Settle, Fate
    <2>3. QED
      BY <1>3, <2>1, <2>2 DEF AppendSave, Returned, JobPc
  <1>4. ASSUME NEW w \in wakes, WakeUnsaid(w) PROVE TypeInv'
    <2>1. fate' \in [Item -> Fate]
      BY <1>4 DEF WakeUnsaid, Settle, Fate
    <2>2. QED
      BY <1>4, <2>1 DEF WakeUnsaid, Returned, JobPc
  <1>5. QED
    BY <1>1, <1>2, <1>3, <1>4 DEF WakeStep

\* Taking entries out of a queue leaves a queue.
LEMMA TakenTypes ==
    ASSUME TypeOK, NEW t \in Turn, NEW S,
           queue' = [queue EXCEPT ![t] = Only(queue[t], S)]
    PROVE  queue' \in [Turn -> Seq(Entry)] /\ \A u \in Turn : Len(queue'[u]) <= Depth
  <1>1. /\ Only(queue[t], S) \in Seq(Entry)
        /\ Len(Only(queue[t], S)) <= Len(queue[t])
    <2>1. queue[t] \in Seq(Entry)
      BY DEF TypeOK
    <2>2. QED
      BY <2>1, OnlyFacts
  <1>2. Len(Only(queue[t], S)) <= Depth
    <2>1. Len(queue[t]) \in Nat /\ Len(Only(queue[t], S)) \in Nat /\ Len(queue[t]) <= Depth
      BY <1>1, LenProperties DEF TypeOK
    <2>2. QED
      BY <1>1, <2>1, ConversationAssumption
  <1>3. QED
    BY <1>1, <1>2 DEF TypeOK

\* The notes in a queue are results and notes.
LEMMA NotesInItem ==
    ASSUME TypeOK, NEW t \in Turn
    PROVE  NotesIn(queue[t]) \subseteq Item /\ Unlocked(queue[t]) \subseteq Item
  <1>1. ASSUME NEW q \in Seq(Entry) PROVE NotesIn(q) \subseteq Item
    <2>1. ASSUME NEW i \in DOMAIN q PROVE q[i].notes \subseteq Item
      <3>1. q[i] \in Entry
        OBVIOUS
      <3>2. QED
        BY <3>1 DEF Entry
    <2>2. QED
      BY <2>1 DEF NotesIn
  <1>2. queue[t] \in Seq(Entry)
    BY DEF TypeOK
  <1>3. Only(queue[t], {e \in Entry : ~e.locked}) \in Seq(Entry)
    BY <1>2, OnlyFacts
  <1>4. QED
    BY <1>1, <1>2, <1>3 DEF Unlocked

LEMMA TurnTypes ==
    ASSUME TypeInv, NEW t \in Turn, TurnStep(t) \/ OpenSession(t) \/ DrainNotes(t)
    PROVE  TypeInv'
  <1> USE DEF TypeInv, TypeOK, HandInv, wakeVars, jobVars, TurnPc, SaveCopy
  <1>1. CASE OpenSession(t)
    BY <1>1 DEF OpenSession
  <1>2. CASE RecordUserMessage(t)
    BY <1>2 DEF RecordUserMessage
  <1>3. CASE RegisterQueue(t)
    BY <1>3 DEF RegisterQueue
  <1>4. CASE SaveReply(t)
    BY <1>4 DEF SaveReply
  <1>5. CASE EndEarly(t)
    BY <1>5 DEF EndEarly
  <1>6. CASE ReleaseQueue(t)
    BY <1>6 DEF ReleaseQueue
  <1>7. CASE DrainNotes(t)
    <2>1. queue' \in [Turn -> Seq(Entry)] /\ \A u \in Turn : Len(queue'[u]) <= Depth
      BY <1>7, TakenTypes DEF DrainNotes, LockedOf
    <2>2. Unlocked(queue[t]) \subseteq Item
      BY NotesInItem
    <2>3. fate' \in [Item -> Fate]
      BY <1>7 DEF DrainNotes, Settle, Fate
    <2>4. QED
      BY <1>7, <2>1, <2>2, <2>3 DEF DrainNotes
  <1>8. CASE KeepLeftoverNotes(t)
    <2>1. queue' \in [Turn -> Seq(Entry)] /\ \A u \in Turn : Len(queue'[u]) <= Depth
      BY <1>8, TakenTypes DEF KeepLeftoverNotes, LockedOf
    <2>2. wakes' \subseteq Wake
      BY <1>8 DEF KeepLeftoverNotes, Wake
    <2>3. copy' \in [Turn -> SUBSET Item]
      BY <1>8 DEF KeepLeftoverNotes, Item
    <2>4. tpc' \in [Turn -> TurnPc]
      BY <1>8 DEF KeepLeftoverNotes
    <2>5. QED
      BY <1>8, <2>1, <2>2, <2>3, <2>4 DEF KeepLeftoverNotes
  <1>9. CASE KeepSave(t)
    <2>1. fate' \in [Item -> Fate]
      BY <1>9 DEF KeepSave, Settle, Fate
    <2>2. QED
      BY <1>9, <2>1 DEF KeepSave
  <1>10. QED
    BY <1>1, <1>2, <1>3, <1>4, <1>5, <1>6, <1>7, <1>8, <1>9 DEF TurnStep

LEMMA PersonTypes ==
    ASSUME TypeInv, NEW n \in Note,
           PostNote(n) \/ LockNote(n) \/ UnlockNote(n) \/ DeleteNote(n)
    PROVE  TypeInv'
  <1> USE DEF TypeInv, TypeOK, HandInv, wakeVars, jobVars
  <1>1. CASE PostNote(n)
    <2>1. [notes |-> {n}, at |-> "push", q |-> registered, from |-> None] \in Hand
      BY <1>1 DEF PostNote, Hand, Item
    <2>2. hands' \subseteq Hand /\ HandInv'
      BY <1>1, <2>1, NewHand DEF PostNote
    <2>3. QED
      BY <1>1, <2>2 DEF PostNote
  <1>2. ASSUME NEW locked \in BOOLEAN, EditNote(n, locked) PROVE TypeInv'
    <2>1. PICK i \in DOMAIN queue[registered] :
              queue' = [queue EXCEPT ![registered][i].locked = locked]
      BY <1>2 DEF EditNote
    <2>2. registered \in Turn /\ queue[registered] \in Seq(Entry)
      BY <1>2 DEF EditNote
    <2>3. [queue[registered] EXCEPT ![i].locked = locked] \in Seq(Entry)
      <3>1. queue[registered][i] \in Entry
        BY <2>1, <2>2
      <3>2. [queue[registered][i] EXCEPT !.locked = locked] \in Entry
        BY <3>1 DEF Entry
      <3>3. QED
        BY <2>1, <2>2, <3>2, ExceptSeq
    <2>4. Len([queue[registered] EXCEPT ![i].locked = locked]) = Len(queue[registered])
      BY <2>2
    <2>5. queue' \in [Turn -> Seq(Entry)] /\ \A u \in Turn : Len(queue'[u]) <= Depth
      BY <2>1, <2>2, <2>3, <2>4
    <2>6. QED
      BY <1>2, <2>5 DEF EditNote
  <1>3. CASE DeleteNote(n)
    <2>1. registered \in Turn
      BY <1>3 DEF DeleteNote
    <2>2. queue' \in [Turn -> Seq(Entry)] /\ \A u \in Turn : Len(queue'[u]) <= Depth
      BY <1>3, <2>1, TakenTypes DEF DeleteNote
    <2>3. fate' \in [Item -> Fate]
      BY <1>3 DEF DeleteNote, Settle, Fate
    <2>4. QED
      BY <1>3, <2>2, <2>3 DEF DeleteNote
  <1>4. QED
    BY <1>1, <1>2, <1>3 DEF LockNote, UnlockNote

LEMMA TypeStep ==
    ASSUME TypeInv, [Next]_vars
    PROVE  TypeInv'
  <1>1. CASE UNCHANGED vars
    BY <1>1 DEF TypeInv, TypeOK, HandInv, vars, jobVars, wakeVars, turnVars
  <1>2. ASSUME NEW js \in SUBSET Job, CancelBackgroundJobs(js) PROVE TypeInv'
    BY <1>2 DEF TypeInv, TypeOK, HandInv, CancelBackgroundJobs, wakeVars, turnVars
  <1>3. QED
    BY <1>1, <1>2, JobTypes, HandTypes, WakeTypes, TurnTypes, PersonTypes
       DEF Next, Progress

\* What the goroutines of a conversation share keeps its shape; in particular
\* no injection queue grows past MaxInjectionQueueDepth, whoever pushes.
THEOREM TypeCorrect == Spec => []TypeOK
  <1>1. TypeInv /\ [Next]_vars => TypeInv'
    BY TypeStep
  <1>2. TypeInv => TypeOK
    BY DEF TypeInv
  <1>3. QED
    BY InitType, <1>1, <1>2, PTL DEF Spec

-----------------------------------------------------------------------------
(* One place at a time *)

\* Somebody in S holds x; nobody else does.
Holds(S, x) == \E k \in S : x \in k.notes
Disjoint(S) == \A g, h \in S : \A x : x \in g.notes /\ x \in h.notes => g = h

Within(q, x) == \E i \in 1..Len(q) : x \in q[i].notes
InQueue(x)   == \E t \in Turn : Within(queue[t], x)
QueuesApart  ==
    \A t, u \in Turn : \A i \in 1..Len(queue[t]), k \in 1..Len(queue[u]) :
        \A x : x \in queue[t][i].notes /\ x \in queue[u][k].notes => t = u /\ i = k

Told(x)   == fate[x] # "none"
Placed(x) == Holds(hands, x) \/ x \in buffered \/ Holds(wakes, x) \/ InQueue(x) \/ Told(x)

\* At most one kind of place has x.
Apart(x) ==
    /\ Holds(hands, x) => x \notin buffered /\ ~Holds(wakes, x) /\ ~InQueue(x) /\ ~Told(x)
    /\ x \in buffered => ~Holds(wakes, x) /\ ~InQueue(x) /\ ~Told(x)
    /\ Holds(wakes, x) => ~InQueue(x) /\ ~Told(x)
    /\ InQueue(x) => ~Told(x)

\* Nothing was handed over yet.
Fresh(x) ==
    \/ x \in Job /\ jpc[x] \in {"idle", "work", "returned", "finish", "stage"}
    \/ x \in Note /\ x \notin posted

PlaceInv ==
    /\ Disjoint(hands) /\ Disjoint(wakes) /\ QueuesApart
    /\ \A x \in Item : Apart(x)

FreshInv == \A x \in Item : Fresh(x) => ~Placed(x)

\* A note in the thread was read; one that only a turn's copy has is about to
\* be kept by that turn, and is nowhere else.
KeptInv ==
    /\ \A n \in Note : n \in thread => Told(n)
    /\ \A w \in wakes, n \in Note : n \in w.base => Told(n)
    /\ \A t \in Turn, n \in Note :
          n \in copy[t] => n \in posted /\ (Told(n) \/ (tpc[t] = "keep" /\ ~Placed(n)))

SilentInv ==
    /\ inTime \subseteq cancelled
    /\ \A j \in inTime \ panicked :
          jpc[j] \in {"work", "returned", "complete", "done"} /\ ~Placed(j)

OnceInv == TypeInv /\ PlaceInv /\ FreshInv /\ KeptInv /\ SilentInv

\* Sets of hands, and of wake turns: one is replaced by one with the same
\* notes, one leaves, one comes.
LEMMA Swapped ==
    ASSUME NEW S, Disjoint(S), NEW h \in S, NEW g, g.notes = h.notes
    PROVE  /\ Disjoint((S \ {h}) \cup {g})
           /\ \A x : Holds((S \ {h}) \cup {g}, x) <=> Holds(S, x)
  BY DEF Disjoint, Holds

LEMMA Left ==
    ASSUME NEW S, Disjoint(S), NEW h \in S
    PROVE  /\ Disjoint(S \ {h})
           /\ \A x : Holds(S \ {h}, x) <=> Holds(S, x) /\ x \notin h.notes
  BY DEF Disjoint, Holds

LEMMA Joined ==
    ASSUME NEW S, Disjoint(S), NEW h, \A x : x \in h.notes => ~Holds(S, x)
    PROVE  /\ Disjoint(S \cup {h})
           /\ \A x : Holds(S \cup {h}, x) <=> Holds(S, x) \/ x \in h.notes
  BY DEF Disjoint, Holds

\* Queues: entries are taken out of one of them.
LEMMA Thinned ==
    ASSUME TypeOK, QueuesApart, NEW t \in Turn, NEW S,
           queue' = [queue EXCEPT ![t] = Only(queue[t], S)]
    PROVE  /\ QueuesApart'
           /\ \A x : InQueue(x)' => InQueue(x)
           /\ \A i \in 1..Len(queue[t]) : queue[t][i] \notin S =>
                 \A x \in queue[t][i].notes : ~InQueue(x)'
  <1> DEFINE q == queue[t]
             p == Only(q, S)
  <1>1. q \in Seq(Entry)
    BY DEF TypeOK
  <1>2. PICK h \in [1..Len(p) -> 1..Len(q)] :
            /\ \A i \in 1..Len(p) : p[i] = q[h[i]] /\ q[h[i]] \in S
            /\ \A i, j \in 1..Len(p) : h[i] = h[j] => i = j
    BY <1>1, OnlyFacts
  <1>3. queue'[t] = p /\ \A u \in Turn \ {t} : queue'[u] = queue[u]
    BY DEF TypeOK
  <1> DEFINE Old(u, i) == IF u = t THEN h[i] ELSE i
  <1> HIDE DEF p
  <1>4. ASSUME NEW u \in Turn, NEW i \in 1..Len(queue'[u])
        PROVE  /\ Old(u, i) \in 1..Len(queue[u])
               /\ queue'[u][i] = queue[u][Old(u, i)]
               /\ u = t => queue[u][Old(u, i)] \in S
    BY <1>2, <1>3
  <1>5. ASSUME NEW u \in Turn, NEW i \in 1..Len(queue'[u]),
               NEW k \in 1..Len(queue'[u]), Old(u, i) = Old(u, k)
        PROVE  i = k
    BY <1>2, <1>3, <1>5
  <1> HIDE DEF Old
  <1>6. ASSUME NEW u \in Turn, NEW v \in Turn,
               NEW i \in 1..Len(queue'[u]), NEW k \in 1..Len(queue'[v]),
               NEW x, x \in queue'[u][i].notes, x \in queue'[v][k].notes
        PROVE  u = v /\ i = k
    <2>1. x \in queue[u][Old(u, i)].notes /\ x \in queue[v][Old(v, k)].notes
      BY <1>4, <1>6
    <2>2. u = v /\ Old(u, i) = Old(v, k)
      BY <2>1, <1>4 DEF QueuesApart
    <2>3. QED
      BY <2>2, <1>5
  <1>7. \A x : InQueue(x)' => InQueue(x)
    BY <1>4 DEF InQueue, Within
  <1>8. ASSUME NEW i \in 1..Len(q), q[i] \notin S, NEW x \in q[i].notes, InQueue(x)'
        PROVE  FALSE
    <2>1. PICK u \in Turn : Within(queue'[u], x)
      BY <1>8 DEF InQueue
    <2> PICK k \in 1..Len(queue'[u]) : x \in queue'[u][k].notes
      BY <2>1 DEF Within
    <2>2. Old(u, k) \in 1..Len(queue[u]) /\ x \in queue[u][Old(u, k)].notes
      BY <1>4
    <2>3. i \in 1..Len(queue[t]) /\ x \in queue[t][i].notes
      BY <1>8
    <2>4. u = t /\ Old(u, k) = i
      BY <2>2, <2>3 DEF QueuesApart
    <2>5. QED
      BY <2>4, <1>4, <1>8
  <1>9. QED
    BY <1>6, <1>7, <1>8 DEF QueuesApart

\* What Drain takes is in unlocked entries.
LEMMA UnlockedEntries ==
    ASSUME TypeOK, NEW t \in Turn, NEW x \in Unlocked(queue[t])
    PROVE  \E i \in 1..Len(queue[t]) : x \in queue[t][i].notes /\ ~queue[t][i].locked
  <1> DEFINE q == queue[t]
             S == {e \in Entry : ~e.locked}
             p == Only(q, S)
  <1>1. q \in Seq(Entry)
    BY DEF TypeOK
  <1>2. p \in Seq(Entry)
    BY <1>1, OnlyFacts
  <1>3. PICK h \in [1..Len(p) -> 1..Len(q)] :
            \A i \in 1..Len(p) : p[i] = q[h[i]] /\ q[h[i]] \in S
    BY <1>1, OnlyFacts
  <1> HIDE DEF p
  <1>4. PICK i \in 1..Len(p) : x \in p[i].notes
    <2>1. x \in NotesIn(p)
      BY DEF Unlocked, p
    <2>2. DOMAIN p = 1..Len(p)
      BY <1>2
    <2>3. QED
      BY <2>1, <2>2 DEF NotesIn
  <1>5. QED
    BY <1>3, <1>4

-----------------------------------------------------------------------------
(* Every step keeps one place for each *)

\* A step that moves no note.
LEMMA NothingMoved ==
    ASSUME PlaceInv, UNCHANGED <<buffered, queue, fate>>,
           Disjoint(hands') /\ \A x : Holds(hands', x) <=> Holds(hands, x),
           Disjoint(wakes') /\ \A x : Holds(wakes', x) <=> Holds(wakes, x)
    PROVE  PlaceInv' /\ \A x \in Item : (Placed(x)' <=> Placed(x)) /\ (Told(x)' <=> Told(x))
  <1>1. \A x : InQueue(x)' <=> InQueue(x)
    BY DEF InQueue, Within
  <1>2. \A x : (Holds(hands, x)' <=> Holds(hands, x)) /\ (Holds(wakes, x)' <=> Holds(wakes, x))
    BY DEF Holds
  <1>3. \A x \in Item : (Placed(x)' <=> Placed(x)) /\ (Told(x)' <=> Told(x))
    BY <1>1, <1>2 DEF Placed, Told
  <1>4. \A x \in Item : Apart(x)'
    BY <1>1, <1>2 DEF PlaceInv, Apart, Told
  <1>5. QED
    BY <1>3, <1>4 DEF PlaceInv, Disjoint, QueuesApart

\* A step that hands on what was placed, and nothing else.
LEMMA HandedOn ==
    ASSUME OnceInv, TypeInv', PlaceInv',
           UNCHANGED <<copy, tpc, posted, inTime, cancelled, panicked>>,
           \A j \in Job : jpc'[j] = jpc[j] \/ jpc'[j] = "complete",
           \A x \in Item : (Told(x) => Told(x)') /\ (Placed(x)' => Placed(x)),
           \A n \in Note : n \in thread' => Told(n),
           \A w \in wakes', n \in Note : n \in w.base => Told(n)
    PROVE  OnceInv'
  <1>1. \A x \in Item : Fresh(x)' => Fresh(x)
    BY ConversationAssumption DEF Fresh, Item
  <1>2. FreshInv'
    BY <1>1 DEF OnceInv, FreshInv
  <1>3. KeptInv'
    BY DEF OnceInv, KeptInv, Item
  <1>4. SilentInv'
    BY DEF OnceInv, SilentInv, Item, TypeInv, TypeOK
  <1>5. QED
    BY <1>2, <1>3, <1>4 DEF OnceInv

LEMMA JobPlaces ==
    ASSUME OnceInv, TypeInv', NEW j \in Job,
           \/ StartTask(j) \/ FnReturns(j) \/ FnPanics(j) \/ CancelRun(j)
           \/ CheckContext(j) \/ FinishBackgroundJob(j) \/ CompleteBackgroundJob(j)
    PROVE  OnceInv'
  <1>1. UNCHANGED <<hands, buffered, wakes, queue, fate, thread, copy, tpc, posted>>
    BY DEF StartTask, FnReturns, FnPanics, CancelRun, CheckContext,
           FinishBackgroundJob, CompleteBackgroundJob, wakeVars, turnVars
  <1>2. PlaceInv' /\ \A x \in Item : (Placed(x)' <=> Placed(x)) /\ (Told(x)' <=> Told(x))
    BY <1>1, NothingMoved DEF OnceInv, PlaceInv, Disjoint, Holds
  <1>3. KeptInv'
    BY <1>1, <1>2 DEF OnceInv, KeptInv, Item
  <1>4. jpc \in [Job -> JobPc]
    BY DEF OnceInv, TypeInv, TypeOK
  <1>5. \A x \in Item : Fresh(x)' => Fresh(x)
    BY <1>1, <1>4, ConversationAssumption
       DEF Fresh, Goto, StartTask, FnReturns, FnPanics, CancelRun, CheckContext,
           FinishBackgroundJob, CompleteBackgroundJob
  <1>6. FreshInv'
    BY <1>2, <1>5 DEF OnceInv, FreshInv
  <1>7. SilentInv'
    <2>1. inTime' \subseteq cancelled'
      BY DEF OnceInv, SilentInv, StartTask, FnReturns, FnPanics, CancelRun, CheckContext,
             FinishBackgroundJob, CompleteBackgroundJob
    <2>2. ASSUME NEW k \in inTime' \ panicked'
          PROVE  jpc'[k] \in {"work", "returned", "complete", "done"} /\ ~Placed(k)'
      <3>1. k \in Job /\ k \notin panicked
        BY <2>2 DEF TypeInv, TypeOK, StartTask, FnReturns, FnPanics, CancelRun,
               CheckContext, FinishBackgroundJob, CompleteBackgroundJob
      <3>2. CASE k \in inTime
        <4>1. jpc[k] \in {"work", "returned", "complete", "done"} /\ ~Placed(k) /\ k \in cancelled
          BY <3>1, <3>2 DEF OnceInv, SilentInv
        <4>2. jpc'[k] \in {"work", "returned", "complete", "done"}
          BY <4>1, <1>4, <2>2, <3>1
             DEF Goto, StartTask, FnReturns, FnPanics, CancelRun, CheckContext,
                 FinishBackgroundJob, CompleteBackgroundJob
        <4>3. QED
          BY <4>1, <4>2, <1>2, <3>1 DEF Item
      <3>3. CASE k \notin inTime
        <4>1. k = j /\ CancelRun(j) /\ jpc[j] = "work"
          BY <3>3, <2>2
             DEF StartTask, FnReturns, FnPanics, CancelRun, CheckContext,
                 FinishBackgroundJob, CompleteBackgroundJob
        <4>2. Fresh(k) /\ k \in Item
          BY <4>1, <3>1 DEF Fresh, Item
        <4>3. QED
          BY <4>1, <4>2, <1>2 DEF OnceInv, FreshInv, CancelRun
      <3>4. QED
        BY <3>2, <3>3
    <2>3. QED
      BY <2>1, <2>2 DEF SilentInv
  <1>8. QED
    BY <1>2, <1>3, <1>6, <1>7 DEF OnceInv

\* A finished job comes to hold its result.
LEMMA BuildPlaces ==
    ASSUME OnceInv, TypeInv', NEW j \in Job, BuildWakeNote(j)
    PROVE  OnceInv'
  <1> DEFINE g == [notes |-> {j}, at |-> "look", q |-> None, from |-> j]
  <1>1. /\ jpc[j] = "stage" /\ jpc' = [jpc EXCEPT ![j] = "hand"]
        /\ hands' = hands \cup {g}
        /\ UNCHANGED <<buffered, wakes, queue, fate, thread, copy, tpc, posted, inTime,
                       cancelled, panicked>>
    BY DEF BuildWakeNote, Goto, turnVars
  <1>2. j \in Item /\ ~Placed(j)
    <2>1. j \in Item /\ Fresh(j)
      BY <1>1 DEF Fresh, Item
    <2>2. QED
      BY <2>1 DEF OnceInv, FreshInv
  <1>3. \A x : x \in g.notes <=> x = j
    OBVIOUS
  <1> HIDE DEF g
  <1>4. Disjoint(hands') /\ \A x : Holds(hands', x) <=> Holds(hands, x) \/ x = j
    <2>1. \A x : x \in g.notes => ~Holds(hands, x)
      BY <1>2, <1>3 DEF Placed
    <2>2. QED
      BY <1>1, <1>3, <2>1, Joined DEF OnceInv, PlaceInv
  <1>5. \A x : InQueue(x)' <=> InQueue(x)
    BY <1>1 DEF InQueue, Within
  <1>6. \A x \in Item : (Placed(x)' <=> Placed(x) \/ x = j) /\ (Told(x)' <=> Told(x))
    BY <1>1, <1>4, <1>5 DEF Placed, Told, Holds
  <1>7. \A x \in Item : Apart(x)'
    BY <1>1, <1>2, <1>4, <1>5 DEF OnceInv, PlaceInv, Apart, Told, Placed, Holds
  <1>8. PlaceInv'
    BY <1>1, <1>4, <1>7 DEF OnceInv, PlaceInv, QueuesApart, Disjoint
  <1>9. \A x \in Item : Fresh(x)' => Fresh(x) /\ x # j
    BY <1>1, ConversationAssumption DEF Fresh, OnceInv, TypeInv, TypeOK
  <1>10. FreshInv'
    BY <1>6, <1>9 DEF OnceInv, FreshInv
  <1>11. KeptInv'
    BY <1>1, <1>6, ConversationAssumption DEF OnceInv, KeptInv, Item
  <1>12. SilentInv'
    BY <1>1, <1>6 DEF OnceInv, SilentInv, Item, TypeInv, TypeOK
  <1>13. QED
    BY <1>8, <1>10, <1>11, <1>12 DEF OnceInv

\* A person's note is on its way.
LEMMA PostPlaces ==
    ASSUME OnceInv, TypeInv', NEW n \in Note, PostNote(n)
    PROVE  OnceInv'
  <1> DEFINE g == [notes |-> {n}, at |-> "push", q |-> registered, from |-> None]
  <1>1. /\ n \notin posted /\ posted' = posted \cup {n}
        /\ hands' = hands \cup {g}
        /\ UNCHANGED <<jpc, buffered, wakes, queue, fate, thread, copy, tpc, inTime,
                       cancelled, panicked>>
    BY DEF PostNote, jobVars
  <1>2. n \in Item /\ ~Placed(n)
    <2>1. n \in Item /\ Fresh(n)
      BY <1>1 DEF Fresh, Item
    <2>2. QED
      BY <2>1 DEF OnceInv, FreshInv
  <1>3. \A x : x \in g.notes <=> x = n
    OBVIOUS
  <1> HIDE DEF g
  <1>4. Disjoint(hands') /\ \A x : Holds(hands', x) <=> Holds(hands, x) \/ x = n
    <2>1. \A x : x \in g.notes => ~Holds(hands, x)
      BY <1>2, <1>3 DEF Placed
    <2>2. QED
      BY <1>1, <1>3, <2>1, Joined DEF OnceInv, PlaceInv
  <1>5. \A x : InQueue(x)' <=> InQueue(x)
    BY <1>1 DEF InQueue, Within
  <1>6. \A x \in Item : (Placed(x)' <=> Placed(x) \/ x = n) /\ (Told(x)' <=> Told(x))
    BY <1>1, <1>4, <1>5 DEF Placed, Told, Holds
  <1>7. \A x \in Item : Apart(x)'
    BY <1>1, <1>2, <1>4, <1>5 DEF OnceInv, PlaceInv, Apart, Told, Placed, Holds
  <1>8. PlaceInv'
    BY <1>1, <1>4, <1>7 DEF OnceInv, PlaceInv, QueuesApart, Disjoint
  <1>9. \A x \in Item : Fresh(x)' => Fresh(x) /\ x # n
    BY <1>1, ConversationAssumption DEF Fresh
  <1>10. FreshInv'
    BY <1>6, <1>9 DEF OnceInv, FreshInv
  <1>11. KeptInv'
    BY <1>1, <1>6 DEF OnceInv, KeptInv, Item
  <1>12. SilentInv'
    BY <1>1, <1>6, ConversationAssumption DEF OnceInv, SilentInv, Item, TypeInv, TypeOK
  <1>13. QED
    BY <1>8, <1>10, <1>11, <1>12 DEF OnceInv

\* One note more at the end of a queue, with or without its first dropped.
OneMore(t, new, k) ==
    /\ \A u \in Turn \ {t} : queue'[u] = queue[u]
    /\ k <= Len(queue[t])
    /\ Len(queue'[t]) = Len(queue[t]) - k + 1
    /\ \A i \in 1..(Len(queue[t]) - k) : queue'[t][i] = queue[t][i + k]
    /\ queue'[t][Len(queue[t]) - k + 1] = new

LEMMA Pushed ==
    ASSUME TypeOK, QueuesApart, NEW t \in Turn, NEW new, NEW k \in {0, 1},
           \A x \in new.notes : ~InQueue(x), OneMore(t, new, k)
    PROVE  /\ QueuesApart'
           /\ \A x : InQueue(x)' => InQueue(x) \/ x \in new.notes
           /\ k = 1 => \A x \in queue[t][1].notes : ~InQueue(x)'
  <1> DEFINE n == Len(queue[t])
             New(u, i) == u = t /\ i = n - k + 1
             Old(u, i) == IF u = t THEN i + k ELSE i
  <1> USE DEF OneMore
  <1>1. n \in Nat
    BY DEF TypeOK
  <1>2. ASSUME NEW u \in Turn, NEW i \in 1..Len(queue'[u]), ~New(u, i)
        PROVE  /\ Old(u, i) \in 1..Len(queue[u])
               /\ queue'[u][i] = queue[u][Old(u, i)]
               /\ (u = t /\ k = 1) => Old(u, i) # 1
    <2>1. CASE u = t
      BY <1>1, <1>2, <2>1
    <2>2. CASE u # t
      BY <1>2, <2>2
    <2>3. QED
      BY <2>1, <2>2
  <1>3. ASSUME NEW u \in Turn, NEW i \in 1..Len(queue'[u]), New(u, i)
        PROVE  queue'[u][i] = new
    BY <1>3
  <1>4. ASSUME NEW u \in Turn, NEW i \in 1..Len(queue'[u]),
               NEW j \in 1..Len(queue'[u]), Old(u, i) = Old(u, j)
        PROVE  i = j
    <2>1. CASE u = t
      BY <1>1, <1>4, <2>1
    <2>2. CASE u # t
      BY <1>4, <2>2
    <2>3. QED
      BY <2>1, <2>2
  <1>5. ASSUME NEW u \in Turn, NEW i \in 1..Len(queue'[u]), ~New(u, i),
               NEW x \in queue'[u][i].notes
        PROVE  InQueue(x) /\ x \notin new.notes
    <2>1. Old(u, i) \in 1..Len(queue[u]) /\ queue'[u][i] = queue[u][Old(u, i)]
      BY <1>2, <1>5
    <2> HIDE DEF Old
    <2>2. InQueue(x)
      BY <2>1, <1>5 DEF InQueue, Within
    <2>3. QED
      BY <2>2
  <1>6. \A u, v, i, j : New(u, i) /\ New(v, j) => u = v /\ i = j
    OBVIOUS
  <1> HIDE DEF New, Old, n, OneMore
  <1>7. ASSUME NEW u \in Turn, NEW v \in Turn,
               NEW i \in 1..Len(queue'[u]), NEW j \in 1..Len(queue'[v]),
               NEW x, x \in queue'[u][i].notes, x \in queue'[v][j].notes
        PROVE  u = v /\ i = j
    <2>1. CASE New(u, i) /\ New(v, j)
      BY <2>1, <1>6
    <2>2. CASE ~New(u, i) /\ ~New(v, j)
      <3>1. x \in queue[u][Old(u, i)].notes /\ x \in queue[v][Old(v, j)].notes
        BY <1>2, <1>7, <2>2
      <3>2. u = v /\ Old(u, i) = Old(v, j)
        <4>1. Old(u, i) \in 1..Len(queue[u]) /\ Old(v, j) \in 1..Len(queue[v])
          BY <1>2, <2>2
        <4>2. QED
          BY <3>1, <4>1 DEF QueuesApart
      <3>3. QED
        BY <3>2, <1>4
    <2>3. CASE (New(u, i) /\ ~New(v, j)) \/ (~New(u, i) /\ New(v, j))
      BY <1>3, <1>5, <1>7, <2>3
    <2>4. QED
      BY <2>1, <2>2, <2>3
  <1>8. ASSUME NEW x, InQueue(x)' PROVE InQueue(x) \/ x \in new.notes
    <2>1. PICK u \in Turn : Within(queue'[u], x)
      BY <1>8 DEF InQueue
    <2> PICK i \in 1..Len(queue'[u]) : x \in queue'[u][i].notes
      BY <2>1 DEF Within
    <2>2. QED
      BY <1>3, <1>5
  <1>9. ASSUME k = 1, NEW x \in queue[t][1].notes, InQueue(x)' PROVE FALSE
    <2>1. PICK u \in Turn : Within(queue'[u], x)
      BY <1>9 DEF InQueue
    <2> PICK i \in 1..Len(queue'[u]) : x \in queue'[u][i].notes
      BY <2>1 DEF Within
    <2>2. 1 \in 1..Len(queue[t])
      BY <1>9, <1>1 DEF n, OneMore
    <2>3. InQueue(x)
      BY <2>2 DEF InQueue, Within
    <2>4. ~New(u, i)
      BY <2>3, <1>3
    <2>5. u = t /\ Old(u, i) = 1
      BY <2>2, <2>4, <1>2 DEF QueuesApart
    <2>6. QED
      BY <2>4, <2>5, <1>2, <1>9
  <1>10. QueuesApart'
    BY <1>7 DEF QueuesApart
  <1>11. QED
    BY <1>8, <1>9, <1>10

LEMMA LookupPlaces ==
    ASSUME OnceInv, TypeInv', NEW h \in hands, LookupQueue(h)
    PROVE  OnceInv'
  <1>1. UNCHANGED <<jpc, buffered, queue, fate, thread, copy, tpc, posted, inTime,
                    cancelled, panicked>>
    BY DEF LookupQueue, jobVars, turnVars
  <1>2. Disjoint(hands) /\ Disjoint(wakes)
    BY DEF OnceInv, PlaceInv
  <1>3. ASSUME NEW g, g.notes = h.notes, hands' = (hands \ {h}) \cup {g}, wakes' = wakes
        PROVE  OnceInv'
    <2>1. Disjoint(hands') /\ \A x : Holds(hands', x) <=> Holds(hands, x)
      BY <1>2, <1>3, Swapped
    <2>2. PlaceInv' /\ \A x \in Item : (Placed(x)' <=> Placed(x)) /\ (Told(x)' <=> Told(x))
      BY <1>1, <1>2, <1>3, <2>1, NothingMoved DEF OnceInv
    <2>3. QED
      BY <1>1, <1>3, <2>2, HandedOn DEF OnceInv, KeptInv
  <1>4. ASSUME hands' = hands \ {h}, StartWake(h.notes, None)
        PROVE  OnceInv'
    <2>1. PICK w : w.notes = h.notes /\ w.base = {} /\ wakes' = wakes \cup {w}
      BY <1>4 DEF StartWake
    <2>2. \A x : x \in h.notes => Holds(hands, x) /\ x \in Item
      BY DEF Holds, OnceInv, TypeInv, TypeOK, Hand
    <2>3. \A x : x \in h.notes => x \notin buffered /\ ~Holds(wakes, x) /\ ~InQueue(x) /\ ~Told(x)
      BY <2>2 DEF OnceInv, PlaceInv, Apart
    <2>4. Disjoint(hands') /\ \A x : Holds(hands, x)' <=> Holds(hands, x) /\ x \notin h.notes
      BY <1>2, <1>4, Left DEF Holds
    <2>5. Disjoint(wakes') /\ \A x : Holds(wakes, x)' <=> Holds(wakes, x) \/ x \in h.notes
      BY <1>2, <2>1, <2>3, Joined DEF Holds
    <2>6. \A x : InQueue(x)' <=> InQueue(x)
      BY <1>1 DEF InQueue, Within
    <2>7. \A x \in Item : (Placed(x)' <=> Placed(x)) /\ (Told(x)' <=> Told(x))
      BY <1>1, <2>2, <2>4, <2>5, <2>6 DEF Placed, Told
    <2>8. \A x \in Item : Apart(x)'
      BY <1>1, <2>3, <2>4, <2>5, <2>6 DEF OnceInv, PlaceInv, Apart, Told
    <2>9. PlaceInv'
      BY <1>1, <2>4, <2>5, <2>8 DEF OnceInv, PlaceInv, QueuesApart, Disjoint
    <2>10. \A v \in wakes', n \in Note : n \in v.base => Told(n)
      BY <2>1 DEF OnceInv, KeptInv
    <2>11. QED
      BY <1>1, <2>7, <2>9, <2>10, HandedOn DEF OnceInv, KeptInv
  <1>5. h \in Hand
    BY DEF OnceInv, TypeInv, TypeOK
  <1>6. QED
    BY <1>3, <1>4, <1>5 DEF LookupQueue, Hand

LEMMA PushPlaces ==
    ASSUME OnceInv, TypeInv', NEW h \in hands, Push(h)
    PROVE  OnceInv'
  <1> DEFINE t == h.q
             q == queue[t]
             new == [notes |-> h.notes, locked |-> FALSE]
             full == Len(q) >= Depth
             k == IF full THEN 1 ELSE 0
             lost == IF full THEN q[1].notes ELSE {}
  <1>1. /\ UNCHANGED <<buffered, wakes, thread, copy, tpc, posted, inTime, cancelled, panicked>>
        /\ hands' = hands \ {h}
    BY DEF Push
  <1>2. t \in Turn /\ h \in Hand /\ q \in Seq(Entry) /\ Len(q) \in Nat
    BY DEF Push, OnceInv, TypeInv, TypeOK, HandInv, Hand
  <1>3. full => q # <<>>
    BY <1>2, ConversationAssumption
  <1>4. /\ queue' = [queue EXCEPT ![t] = IF full THEN Append(Tail(q), new) ELSE Append(q, new)]
        /\ fate' = [x \in Item |-> IF x \in lost THEN "dropped" ELSE fate[x]]
    <2>1. fate = [x \in Item |-> fate[x]]
      BY DEF OnceInv, TypeInv, TypeOK
    <2>2. CASE full
      <3>1. queue' = [queue EXCEPT ![t] = Append(Tail(q), new)] /\ Settle(Head(q).notes, "dropped")
        BY <2>2 DEF Push
      <3>2. lost = Head(q).notes
        BY <1>2, <1>3, <2>2
      <3> HIDE DEF lost
      <3>3. QED
        BY <2>2, <3>1, <3>2 DEF Settle
    <2>3. CASE ~full
      <3>1. queue' = [queue EXCEPT ![t] = Append(q, new)] /\ fate' = fate
        BY <2>3 DEF Push
      <3>2. QED
        BY <3>1, <2>1, <2>3
    <2>4. QED
      BY <2>2, <2>3
  <1>5. k \in {0, 1} /\ OneMore(t, new, k)
    <2>1. new \in Entry
      BY <1>2 DEF Hand, Entry
    <2>2. queue'[t] = IF full THEN Append(Tail(q), new) ELSE Append(q, new)
      BY <1>2, <1>4 DEF OnceInv, TypeInv, TypeOK
    <2>3. \A u \in Turn \ {t} : queue'[u] = queue[u]
      BY <1>2, <1>4 DEF OnceInv, TypeInv, TypeOK
    <2>4. CASE full
      <3>1. k = 1 /\ 1 <= Len(q) /\ queue'[t] = Append(Tail(q), new)
        BY <1>2, <1>3, <2>2, <2>4
      <3>2. /\ Tail(q) \in Seq(Entry) /\ Len(Tail(q)) = Len(q) - 1
            /\ \A i \in 1..(Len(q) - 1) : Tail(q)[i] = q[i + 1]
        BY <1>2, <1>3, <2>4, HeadTailProperties
      <3> HIDE DEF new, k, q
      <3>3. /\ Len(queue'[t]) = Len(Tail(q)) + 1
            /\ \A i \in 1..Len(Tail(q)) : queue'[t][i] = Tail(q)[i]
            /\ queue'[t][Len(Tail(q)) + 1] = new
        BY <2>1, <3>1, <3>2, AppendProperties
      <3>4. QED
        BY <1>2, <2>3, <3>1, <3>2, <3>3 DEF q, OneMore
    <2>5. CASE ~full
      <3>1. k = 0 /\ queue'[t] = Append(q, new)
        BY <2>2, <2>5
      <3> HIDE DEF new, k, q
      <3>2. /\ Len(queue'[t]) = Len(q) + 1
            /\ \A i \in 1..Len(q) : queue'[t][i] = q[i]
            /\ queue'[t][Len(q) + 1] = new
        BY <1>2, <2>1, <3>1, AppendProperties
      <3>3. QED
        BY <1>2, <2>3, <3>1, <3>2 DEF q, OneMore
    <2>6. QED
      BY <2>4, <2>5
  <1>6. \A x : x \in h.notes => Holds(hands, x) /\ x \in Item
    BY <1>2 DEF Holds, Hand
  <1>7. \A x : x \in h.notes => x \notin buffered /\ ~Holds(wakes, x) /\ ~InQueue(x) /\ ~Told(x)
    BY <1>6 DEF OnceInv, PlaceInv, Apart
  <1>8. \A x : x \in new.notes <=> x \in h.notes
    OBVIOUS
  <1>9. \A x : x \in lost => InQueue(x) /\ k = 1
    BY <1>2, <1>3 DEF InQueue, Within
  <1>10. k = 1 => lost = q[1].notes
    OBVIOUS
  <1> HIDE DEF new, full, k, lost, q, t
  <1>11. /\ QueuesApart'
         /\ \A x : InQueue(x)' => InQueue(x) \/ x \in h.notes
         /\ \A x \in lost : ~InQueue(x)'
    <2>1. \A x \in new.notes : ~InQueue(x)
      BY <1>7, <1>8
    <2>2. TypeOK /\ QueuesApart
      BY DEF OnceInv, TypeInv, PlaceInv
    <2>3. /\ QueuesApart'
          /\ \A x : InQueue(x)' => InQueue(x) \/ x \in new.notes
          /\ k = 1 => \A x \in q[1].notes : ~InQueue(x)'
      BY <1>2, <1>5, <2>1, <2>2, Pushed DEF q
    <2>4. QED
      BY <2>3, <1>8, <1>9, <1>10
  <1>12. Disjoint(hands') /\ \A x : Holds(hands, x)' <=> Holds(hands, x) /\ x \notin h.notes
    BY <1>1, Left DEF Holds, OnceInv, PlaceInv
  <1>13. \A x \in Item : Told(x)' <=> Told(x) \/ x \in lost
    BY <1>4 DEF Told
  <1>14. \A x : Holds(wakes, x)' <=> Holds(wakes, x)
    BY <1>1 DEF Holds
  <1>15. \A x \in Item : (Told(x) => Told(x)') /\ (Placed(x)' => Placed(x))
    BY <1>1, <1>6, <1>9, <1>11, <1>12, <1>13, <1>14 DEF Placed
  <1>16. \A x \in Item : Apart(x)'
    BY <1>1, <1>7, <1>9, <1>11, <1>12, <1>13, <1>14 DEF OnceInv, PlaceInv, Apart
  <1>17. PlaceInv'
    BY <1>1, <1>11, <1>12, <1>16 DEF OnceInv, PlaceInv, Disjoint
  <1>18. \A j \in Job : jpc'[j] = jpc[j] \/ jpc'[j] = "complete"
    BY DEF Push, Returned
  <1>19. QED
    BY <1>1, <1>15, <1>17, <1>18, HandedOn DEF OnceInv, KeptInv

LEMMA ClaimPlaces ==
    ASSUME OnceInv, TypeInv', NEW h \in hands, ClaimWakeWindow(h)
    PROVE  OnceInv'
  <1>1. /\ UNCHANGED <<queue, fate, thread, copy, tpc, posted, inTime, cancelled, panicked>>
        /\ hands' = hands \ {h}
    BY DEF ClaimWakeWindow, turnVars
  <1>2. \A x : x \in h.notes => Holds(hands, x) /\ x \in Item
    BY DEF Holds, OnceInv, TypeInv, TypeOK, Hand
  <1>3. \A x : x \in h.notes => x \notin buffered /\ ~Holds(wakes, x) /\ ~InQueue(x) /\ ~Told(x)
    BY <1>2 DEF OnceInv, PlaceInv, Apart
  <1>4. Disjoint(hands') /\ \A x : Holds(hands, x)' <=> Holds(hands, x) /\ x \notin h.notes
    BY <1>1, Left DEF Holds, OnceInv, PlaceInv
  <1>5. \A x : InQueue(x)' <=> InQueue(x)
    BY <1>1 DEF InQueue, Within
  <1>6. \A j \in Job : jpc'[j] = jpc[j] \/ jpc'[j] = "complete"
    BY DEF ClaimWakeWindow, Returned
  <1>7. CASE windowOpen
    <2>1. buffered' = buffered \cup h.notes /\ wakes' = wakes
      BY <1>7 DEF ClaimWakeWindow
    <2>2. \A x : Holds(wakes, x)' <=> Holds(wakes, x)
      BY <2>1 DEF Holds
    <2>3. \A x \in Item : (Placed(x)' <=> Placed(x)) /\ (Told(x)' <=> Told(x))
      BY <1>1, <1>2, <1>4, <1>5, <2>1, <2>2 DEF Placed, Told
    <2>4. \A x \in Item : Apart(x)'
      BY <1>1, <1>3, <1>4, <1>5, <2>1, <2>2 DEF OnceInv, PlaceInv, Apart, Told
    <2>5. PlaceInv'
      BY <1>1, <1>4, <2>1, <2>4 DEF OnceInv, PlaceInv, QueuesApart, Disjoint
    <2>6. QED
      BY <1>1, <1>6, <2>1, <2>3, <2>5, HandedOn DEF OnceInv, KeptInv
  <1>8. CASE ~windowOpen
    <2>1. PICK w : w.notes = h.notes /\ w.base = {} /\ wakes' = wakes \cup {w}
      BY <1>8 DEF ClaimWakeWindow, StartWake
    <2>2. buffered' = buffered
      BY <1>8 DEF ClaimWakeWindow
    <2>3. Disjoint(wakes') /\ \A x : Holds(wakes, x)' <=> Holds(wakes, x) \/ x \in h.notes
      BY <1>3, <2>1, Joined DEF Holds, OnceInv, PlaceInv
    <2>4. \A x \in Item : (Placed(x)' <=> Placed(x)) /\ (Told(x)' <=> Told(x))
      BY <1>1, <1>2, <1>4, <1>5, <2>2, <2>3 DEF Placed, Told
    <2>5. \A x \in Item : Apart(x)'
      BY <1>1, <1>3, <1>4, <1>5, <2>2, <2>3 DEF OnceInv, PlaceInv, Apart, Told
    <2>6. PlaceInv'
      BY <1>1, <1>4, <2>3, <2>5 DEF OnceInv, PlaceInv, QueuesApart, Disjoint
    <2>7. \A v \in wakes', n \in Note : n \in v.base => Told(n)
      BY <2>1 DEF OnceInv, KeptInv
    <2>8. QED
      BY <1>1, <1>6, <2>4, <2>6, <2>7, HandedOn DEF OnceInv, KeptInv
  <1>9. QED
    BY <1>7, <1>8

LEMMA TakePlaces ==
    ASSUME OnceInv, TypeInv', TakeBufferedWakes
    PROVE  OnceInv'
  <1>1. /\ UNCHANGED <<jpc, wakes, queue, fate, thread, copy, tpc, posted, inTime,
                       cancelled, panicked>>
        /\ buffered' = {}
    BY DEF TakeBufferedWakes, jobVars, turnVars
  <1>2. \A x : x \in buffered => x \in Item
    BY DEF OnceInv, TypeInv, TypeOK, Item
  <1>3. \A x : x \in buffered => ~Holds(hands, x) /\ ~Holds(wakes, x) /\ ~InQueue(x) /\ ~Told(x)
    BY <1>2 DEF OnceInv, PlaceInv, Apart
  <1>4. Disjoint(hands') /\ \A x : Holds(hands, x)' <=> Holds(hands, x) \/ x \in buffered
    <2>1. CASE buffered = {}
      BY <2>1 DEF TakeBufferedWakes, Holds, OnceInv, PlaceInv
    <2>2. CASE buffered # {}
      <3>1. PICK g : g.notes = buffered /\ hands' = hands \cup {g}
        BY <2>2 DEF TakeBufferedWakes
      <3>2. QED
        BY <1>3, <3>1, Joined DEF Holds, OnceInv, PlaceInv
    <2>3. QED
      BY <2>1, <2>2
  <1>5. \A x : (InQueue(x)' <=> InQueue(x)) /\ (Holds(wakes, x)' <=> Holds(wakes, x))
    BY <1>1 DEF InQueue, Within, Holds
  <1>6. \A x \in Item : (Placed(x)' <=> Placed(x)) /\ (Told(x)' <=> Told(x))
    BY <1>1, <1>2, <1>4, <1>5 DEF Placed, Told
  <1>7. \A x \in Item : Apart(x)'
    BY <1>1, <1>3, <1>4, <1>5 DEF OnceInv, PlaceInv, Apart, Told
  <1>8. PlaceInv'
    BY <1>1, <1>4, <1>7 DEF OnceInv, PlaceInv, QueuesApart, Disjoint
  <1>9. QED
    BY <1>1, <1>6, <1>8, HandedOn DEF OnceInv, KeptInv

-----------------------------------------------------------------------------
(* Wake turns *)

LEMMA LoadPlaces ==
    ASSUME OnceInv, TypeInv', NEW w \in wakes, WakeLoad(w) \/ AppendLoad(w)
    PROVE  OnceInv'
  <1>1. UNCHANGED <<jpc, hands, buffered, queue, fate, thread, copy, tpc, posted, inTime,
                    cancelled, panicked>>
    BY DEF WakeLoad, AppendLoad, jobVars, turnVars
  <1>2. w \in Wake
    BY DEF OnceInv, TypeInv, TypeOK
  <1>3. PICK v : /\ v.notes = w.notes /\ (v.base = w.base \/ v.base = thread)
                 /\ wakes' = (wakes \ {w}) \cup {v}
    BY <1>2 DEF WakeLoad, AppendLoad, Wake
  <1>4. Disjoint(wakes') /\ \A x : Holds(wakes', x) <=> Holds(wakes, x)
    BY <1>3, Swapped DEF OnceInv, PlaceInv
  <1>5. PlaceInv' /\ \A x \in Item : (Placed(x)' <=> Placed(x)) /\ (Told(x)' <=> Told(x))
    BY <1>1, <1>4, NothingMoved DEF OnceInv, PlaceInv, Disjoint, Holds
  <1>6. \A u \in wakes', n \in Note : n \in u.base => Told(n)
    BY <1>3 DEF OnceInv, KeptInv
  <1>7. QED
    BY <1>1, <1>5, <1>6, HandedOn DEF OnceInv, KeptInv

\* A wake turn reports its notes, or ends without a word.
LEMMA EndPlaces ==
    ASSUME OnceInv, TypeInv', NEW w \in wakes, AppendSave(w) \/ WakeUnsaid(w)
    PROVE  OnceInv'
  <1>1. /\ UNCHANGED <<hands, buffered, queue, copy, tpc, posted, inTime, cancelled, panicked>>
        /\ wakes' = wakes \ {w}
    BY DEF AppendSave, WakeUnsaid, turnVars
  <1>2. w \in Wake /\ w.notes \subseteq Job
    BY DEF OnceInv, TypeInv, TypeOK, Wake
  <1>3. PICK f \in Fate \ {"none"} : fate' = [x \in Item |-> IF x \in w.notes THEN f ELSE fate[x]]
    BY DEF AppendSave, WakeUnsaid, Settle, Fate
  <1>4. \A x : x \in w.notes => Holds(wakes, x) /\ x \in Item
    BY <1>2 DEF Holds, Item
  <1>5. \A x : x \in w.notes => x \notin buffered /\ ~Holds(hands, x) /\ ~InQueue(x) /\ ~Told(x)
    BY <1>4 DEF OnceInv, PlaceInv, Apart
  <1>6. Disjoint(wakes') /\ \A x : Holds(wakes, x)' <=> Holds(wakes, x) /\ x \notin w.notes
    BY <1>1, Left DEF Holds, OnceInv, PlaceInv
  <1>7. \A x : (InQueue(x)' <=> InQueue(x)) /\ (Holds(hands, x)' <=> Holds(hands, x))
    BY <1>1 DEF InQueue, Within, Holds
  <1>8. \A x \in Item : Told(x)' <=> Told(x) \/ x \in w.notes
    BY <1>3 DEF Told
  <1>9. \A x \in Item : (Told(x) => Told(x)') /\ (Placed(x)' <=> Placed(x))
    BY <1>1, <1>4, <1>6, <1>7, <1>8 DEF Placed
  <1>10. \A x \in Item : Apart(x)'
    BY <1>1, <1>5, <1>6, <1>7, <1>8 DEF OnceInv, PlaceInv, Apart
  <1>11. PlaceInv'
    BY <1>1, <1>6, <1>10 DEF OnceInv, PlaceInv, QueuesApart, Disjoint
  <1>12. thread' \subseteq thread \cup w.base \cup Job
    BY <1>2 DEF AppendSave, WakeUnsaid
  <1>13. \A n \in Note : n \in thread' => Told(n)
    BY <1>12, ConversationAssumption DEF OnceInv, KeptInv
  <1>14. \A j \in Job : jpc'[j] = jpc[j] \/ jpc'[j] = "complete"
    BY DEF AppendSave, WakeUnsaid, Returned
  <1>15. \A v \in wakes', n \in Note : n \in v.base => Told(n)
    BY <1>1 DEF OnceInv, KeptInv
  <1>16. QED
    BY <1>1, <1>9, <1>11, <1>13, <1>14, <1>15, HandedOn

-----------------------------------------------------------------------------
(* Chat turns and the person *)

\* A step of a chat turn or a person, which moves no job.
LEMMA TurnKept ==
    ASSUME OnceInv, TypeInv', PlaceInv', KeptInv',
           UNCHANGED <<jpc, posted, inTime, cancelled, panicked>>,
           \A x \in Item : Placed(x)' => Placed(x) \/ (x \in Note /\ x \in posted)
    PROVE  OnceInv'
  <1>1. FreshInv'
    BY ConversationAssumption DEF OnceInv, FreshInv, Fresh
  <1>2. SilentInv'
    BY ConversationAssumption DEF OnceInv, SilentInv, Item, TypeInv, TypeOK
  <1>3. QED
    BY <1>1, <1>2 DEF OnceInv

\* What has a place was posted.
LEMMA PlacedPosted ==
    ASSUME OnceInv, NEW n \in Note, Placed(n)
    PROVE  n \in posted
  BY DEF OnceInv, FreshInv, Fresh, Item

LEMMA StillPlaces ==
    ASSUME OnceInv, TypeInv', NEW t \in Turn,
           \/ OpenSession(t) \/ RecordUserMessage(t) \/ RegisterQueue(t)
           \/ SaveReply(t) \/ EndEarly(t) \/ ReleaseQueue(t)
    PROVE  OnceInv'
  <1>1. /\ UNCHANGED <<jpc, hands, buffered, wakes, queue, fate, posted, inTime, cancelled,
                       panicked>>
        /\ tpc[t] # "keep" /\ thread' \in {thread, copy[t]}
    BY DEF OpenSession, RecordUserMessage, RegisterQueue, SaveReply, EndEarly, ReleaseQueue,
           SaveCopy, jobVars, wakeVars
  <1>2. copy \in [Turn -> SUBSET Item] /\ tpc \in [Turn -> TurnPc]
    BY DEF OnceInv, TypeInv, TypeOK
  <1>3. /\ \A u \in Turn \ {t} : copy'[u] = copy[u] /\ tpc'[u] = tpc[u]
        /\ copy'[t] \subseteq copy[t] \cup thread
    BY <1>2 DEF OpenSession, RecordUserMessage, RegisterQueue, SaveReply, EndEarly, ReleaseQueue
  <1>4. PlaceInv' /\ \A x \in Item : (Placed(x)' <=> Placed(x)) /\ (Told(x)' <=> Told(x))
    BY <1>1, NothingMoved DEF OnceInv, PlaceInv, Disjoint, Holds
  <1>5. \A n \in Note : n \in copy[t] \cup thread => Told(n) /\ n \in posted
    BY <1>1, PlacedPosted DEF OnceInv, KeptInv, Placed
  <1>6. KeptInv'
    <2>1. \A n \in Note : n \in thread' => Told(n)'
      BY <1>1, <1>4, <1>5 DEF Item
    <2>2. \A w \in wakes', n \in Note : n \in w.base => Told(n)'
      BY <1>1, <1>4 DEF OnceInv, KeptInv, Item
    <2>3. ASSUME NEW u \in Turn, NEW n \in Note, n \in copy'[u]
          PROVE  n \in posted' /\ (Told(n)' \/ (tpc'[u] = "keep" /\ ~Placed(n)'))
      <3>1. CASE u = t
        BY <1>1, <1>3, <1>4, <1>5, <2>3, <3>1 DEF Item
      <3>2. CASE u # t
        BY <1>1, <1>3, <1>4, <2>3, <3>2 DEF OnceInv, KeptInv, Item
      <3>3. QED
        BY <3>1, <3>2
    <2>4. QED
      BY <2>1, <2>2, <2>3 DEF KeptInv
  <1>7. QED
    BY <1>1, <1>4, <1>6, TurnKept

\* Facts of a drain: its unlocked entries leave the queue.
LEMMA Drained ==
    ASSUME OnceInv, NEW t \in Turn, queue' = [queue EXCEPT ![t] = LockedOf(queue[t])]
    PROVE  /\ QueuesApart'
           /\ \A x : InQueue(x)' => InQueue(x)
           /\ \A i \in 1..Len(queue[t]) : ~queue[t][i].locked =>
                 \A x \in queue[t][i].notes : InQueue(x) /\ ~InQueue(x)' /\ x \in Item
  <1> DEFINE S == {e \in Entry : e.locked}
  <1>1. TypeOK /\ QueuesApart
    BY DEF OnceInv, TypeInv, PlaceInv
  <1>2. queue' = [queue EXCEPT ![t] = Only(queue[t], S)]
    BY DEF LockedOf
  <1>3. \A i \in 1..Len(queue[t]) : ~queue[t][i].locked => queue[t][i] \notin S
    OBVIOUS
  <1> HIDE DEF S
  <1>4. /\ QueuesApart'
        /\ \A x : InQueue(x)' => InQueue(x)
        /\ \A i \in 1..Len(queue[t]) : queue[t][i] \notin S =>
              \A x \in queue[t][i].notes : ~InQueue(x)'
    BY <1>1, <1>2, Thinned
  <1>5. \A i \in 1..Len(queue[t]) : \A x \in queue[t][i].notes : InQueue(x)
    BY DEF InQueue, Within
  <1>6. \A i \in 1..Len(queue[t]) : queue[t][i].notes \subseteq Item
    <2>1. queue[t] \in Seq(Entry)
      BY <1>1 DEF TypeOK
    <2>2. \A i \in 1..Len(queue[t]) : queue[t][i] \in Entry
      BY <2>1
    <2>3. QED
      BY <2>2 DEF Entry
  <1>7. QED
    BY <1>3, <1>4, <1>5, <1>6

LEMMA DrainPlaces ==
    ASSUME OnceInv, TypeInv', NEW t \in Turn, DrainNotes(t)
    PROVE  OnceInv'
  <1> DEFINE U == Unlocked(queue[t])
  <1>1. /\ UNCHANGED <<jpc, hands, buffered, wakes, tpc, posted, inTime, cancelled, panicked>>
        /\ tpc[t] = "running" /\ thread' = copy[t] \cup U
        /\ copy' = [copy EXCEPT ![t] = copy[t] \cup U]
        /\ fate' = [x \in Item |-> IF x \in U THEN "read" ELSE fate[x]]
        /\ queue' = [queue EXCEPT ![t] = LockedOf(queue[t])]
    BY DEF DrainNotes, SaveCopy, Settle, jobVars, wakeVars
  <1>2. QueuesApart' /\ \A x : InQueue(x)' => InQueue(x)
    BY <1>1, Drained
  <1>3. \A x \in U : InQueue(x) /\ ~InQueue(x)' /\ x \in Item
    BY <1>1, Drained, UnlockedEntries DEF OnceInv, TypeInv
  <1> HIDE DEF U
  <1>4. \A x \in U : x \notin buffered /\ ~Holds(hands, x) /\ ~Holds(wakes, x) /\ ~Told(x)
    BY <1>3 DEF OnceInv, PlaceInv, Apart
  <1>5. \A x \in Item : Told(x)' <=> Told(x) \/ x \in U
    BY <1>1 DEF Told
  <1>6. \A x : (Holds(wakes, x)' <=> Holds(wakes, x)) /\ (Holds(hands, x)' <=> Holds(hands, x))
    BY <1>1 DEF Holds
  <1>7. \A x \in Item : Placed(x)' => Placed(x)
    BY <1>1, <1>2, <1>3, <1>5, <1>6 DEF Placed
  <1>8. \A x \in Item : Apart(x)'
    BY <1>1, <1>2, <1>3, <1>4, <1>5, <1>6 DEF OnceInv, PlaceInv, Apart
  <1>9. PlaceInv'
    BY <1>1, <1>2, <1>8 DEF OnceInv, PlaceInv, Disjoint
  <1>10. \A n \in Note : n \in copy[t] \cup U => Told(n)' /\ n \in posted
    <2>1. \A n \in Note : n \in U => n \in posted
      BY <1>3, PlacedPosted DEF Placed
    <2>2. \A n \in Note : n \in copy[t] => Told(n) /\ n \in posted
      BY <1>1 DEF OnceInv, KeptInv
    <2>3. QED
      BY <1>5, <2>1, <2>2 DEF Item
  <1>11. KeptInv'
    <2>1. \A w \in wakes', n \in Note : n \in w.base => Told(n)'
      BY <1>1, <1>5 DEF OnceInv, KeptInv, Item
    <2>2. ASSUME NEW u \in Turn, NEW n \in Note, n \in copy'[u]
          PROVE  n \in posted' /\ (Told(n)' \/ (tpc'[u] = "keep" /\ ~Placed(n)'))
      <3>0. copy \in [Turn -> SUBSET Item]
        BY DEF OnceInv, TypeInv, TypeOK
      <3>1. CASE u = t
        BY <1>1, <1>10, <2>2, <3>0, <3>1
      <3>2. CASE u # t
        BY <1>1, <1>5, <1>7, <2>2, <3>0, <3>2 DEF OnceInv, KeptInv, Item
      <3>3. QED
        BY <3>1, <3>2
    <2>3. QED
      BY <1>1, <1>10, <2>1, <2>2 DEF KeptInv
  <1>12. QED
    BY <1>1, <1>7, <1>9, <1>11, TurnKept

\* The last drain: results go on to wake turns, the person's notes to the
\* turn's copy.
LEMMA LeftoverPlaces ==
    ASSUME OnceInv, TypeInv', NEW t \in Turn, KeepLeftoverNotes(t)
    PROVE  OnceInv'
  <1> DEFINE q     == queue[t]
             Free  == {k \in DOMAIN q : ~q[k].locked}
             taken == {e.notes : e \in {q[i] : i \in Free}}
             mine  == UNION {s \in taken : s \subseteq Note}
             wake(s) == [notes |-> s, at |-> "load", base |-> {}, files |-> {}, from |-> None]
             new   == {wake(s) : s \in {r \in taken : r \subseteq Job}}
  <1>1. /\ UNCHANGED <<jpc, hands, buffered, thread, fate, posted, inTime, cancelled, panicked>>
        /\ tpc[t] = "leftover"
        /\ copy' = [copy EXCEPT ![t] = thread \cup mine]
        /\ tpc' = [tpc EXCEPT ![t] = IF mine = {} THEN "release" ELSE "keep"]
        /\ wakes' = wakes \cup new
        /\ queue' = [queue EXCEPT ![t] = LockedOf(queue[t])]
    BY DEF KeepLeftoverNotes, jobVars
  <1>2. QueuesApart' /\ \A x : InQueue(x)' => InQueue(x)
    BY <1>1, Drained
  <1>3. DOMAIN q = 1..Len(q)
    BY DEF OnceInv, TypeInv, TypeOK
  <1>4. ASSUME NEW s \in taken
        PROVE  /\ \E i \in 1..Len(q) : s = q[i].notes /\ ~q[i].locked
               /\ \A x \in s : InQueue(x) /\ ~InQueue(x)' /\ x \in Item
    <2>1. PICK i \in 1..Len(q) : s = q[i].notes /\ ~q[i].locked
      BY <1>3
    <2>2. \A x \in q[i].notes : InQueue(x) /\ ~InQueue(x)' /\ x \in Item
      BY <1>1, <2>1, Drained
    <2>3. QED
      BY <2>1, <2>2
  <1>5. \A r, s \in taken : \A x : x \in r /\ x \in s => r = s
    <2> SUFFICES ASSUME NEW r \in taken, NEW s \in taken, NEW x, x \in r, x \in s
                 PROVE  r = s
      OBVIOUS
    <2> HIDE DEF taken
    <2>1. PICK i \in 1..Len(q) : r = q[i].notes
      BY <1>4
    <2>2. PICK k \in 1..Len(q) : s = q[k].notes
      BY <1>4
    <2>3. i = k
      BY <2>1, <2>2 DEF OnceInv, PlaceInv, QueuesApart
    <2>4. QED
      BY <2>1, <2>2, <2>3
  <1>6. \A g \in new : \E s \in taken : g = wake(s) /\ g.notes = s /\ s \subseteq Job /\ g.base = {}
    OBVIOUS
  <1>7. \A x \in mine : \E s \in taken : x \in s /\ x \in Note
    OBVIOUS
  <1> HIDE DEF taken, mine, new, wake
  <1>8. \A g \in new : \A x \in g.notes : InQueue(x) /\ ~InQueue(x)' /\ x \in Job /\ x \in Item
    BY <1>4, <1>6
  <1>9. \A g \in new : \A x \in g.notes :
            x \notin buffered /\ ~Holds(hands, x) /\ ~Holds(wakes, x) /\ ~Told(x)
    BY <1>8 DEF OnceInv, PlaceInv, Apart
  <1>10. Disjoint(wakes')
    <2>1. \A g, h \in new : \A x : x \in g.notes /\ x \in h.notes => g = h
      BY <1>5, <1>6
    <2>2. \A g \in wakes, h \in new : \A x : ~(x \in g.notes /\ x \in h.notes)
      BY <1>9 DEF Holds
    <2>3. Disjoint(wakes)
      BY DEF OnceInv, PlaceInv
    <2>4. QED
      BY <1>1, <2>1, <2>2, <2>3 DEF Disjoint
  <1>11. \A x : Holds(wakes, x)' <=> Holds(wakes, x) \/ Holds(new, x)
    BY <1>1 DEF Holds
  <1>12. \A x : Holds(new, x) =>
            /\ InQueue(x) /\ ~InQueue(x)' /\ x \in Job
            /\ x \notin buffered /\ ~Holds(hands, x) /\ ~Holds(wakes, x) /\ ~Told(x)
    BY <1>8, <1>9 DEF Holds
  <1>13. \A x : (Told(x)' <=> Told(x)) /\ (Holds(hands, x)' <=> Holds(hands, x))
    BY <1>1 DEF Told, Holds
  <1>14. \A x \in Item : Placed(x)' => Placed(x)
    BY <1>1, <1>2, <1>11, <1>12, <1>13 DEF Placed
  <1>15. \A x \in Item : Apart(x)'
    BY <1>1, <1>2, <1>11, <1>12, <1>13 DEF OnceInv, PlaceInv, Apart
  <1>16. PlaceInv'
    BY <1>1, <1>2, <1>10, <1>15 DEF OnceInv, PlaceInv, Disjoint
  <1>17. KeptInv'
    <2>1. \A w \in wakes', n \in Note : n \in w.base => Told(n)'
      BY <1>1, <1>6, <1>13 DEF OnceInv, KeptInv
    <2>2. ASSUME NEW u \in Turn, NEW n \in Note, n \in copy'[u]
          PROVE  n \in posted' /\ (Told(n)' \/ (tpc'[u] = "keep" /\ ~Placed(n)'))
      <3>0. copy \in [Turn -> SUBSET Item] /\ tpc \in [Turn -> TurnPc] /\ n \in Item
        BY DEF OnceInv, TypeInv, TypeOK, Item
      <3>1. CASE u # t
        BY <1>1, <1>13, <1>14, <2>2, <3>0, <3>1 DEF OnceInv, KeptInv
      <3>2. CASE u = t /\ n \in thread
        <4>1. Told(n)
          BY <3>2 DEF OnceInv, KeptInv
        <4>2. n \in posted
          BY <4>1, PlacedPosted DEF Placed
        <4>3. QED
          BY <1>1, <1>13, <4>1, <4>2
      <3>3. CASE u = t /\ n \in mine
        <4>1. InQueue(n) /\ ~InQueue(n)'
          BY <1>4, <1>7, <3>3
        <4>2. n \in posted /\ n \notin buffered /\ ~Holds(hands, n) /\ ~Holds(wakes, n) /\ ~Told(n)
          BY <3>0, <4>1, PlacedPosted DEF Placed, OnceInv, PlaceInv, Apart
        <4>3. ~Holds(new, n)
          BY <1>12, ConversationAssumption
        <4>4. ~Placed(n)'
          BY <1>1, <1>11, <1>13, <4>1, <4>2, <4>3 DEF Placed
        <4>5. tpc'[t] = "keep"
          BY <1>1, <3>0, <3>3
        <4>6. QED
          BY <1>1, <3>3, <4>2, <4>4, <4>5
      <3>4. n \in copy'[t] => n \in thread \cup mine
        BY <1>1, <3>0
      <3>5. QED
        BY <2>2, <3>1, <3>2, <3>3, <3>4
    <2>3. \A n \in Note : n \in thread' => Told(n)'
      BY <1>1, <1>13 DEF OnceInv, KeptInv
    <2>4. QED
      BY <2>1, <2>2, <2>3 DEF KeptInv
  <1>18. QED
    BY <1>1, <1>14, <1>16, <1>17, TurnKept

\* The person's notes that no round read are in the thread.
LEMMA SavePlaces ==
    ASSUME OnceInv, TypeInv', NEW t \in Turn, KeepSave(t)
    PROVE  OnceInv'
  <1> DEFINE K == KeptNotes(t)
  <1>1. /\ UNCHANGED <<jpc, hands, buffered, wakes, queue, copy, posted, inTime, cancelled,
                       panicked>>
        /\ tpc[t] = "keep" /\ tpc' = [tpc EXCEPT ![t] = "release"]
        /\ thread' = copy[t]
        /\ fate' = [x \in Item |-> IF x \in K THEN "read" ELSE fate[x]]
    BY DEF KeepSave, SaveCopy, Settle, jobVars, wakeVars
  <1>2. \A x \in K : x \in Note /\ x \in Item /\ x \in posted /\ ~Placed(x)
    BY DEF KeptNotes, OnceInv, KeptInv, Told, Item
  <1>3. \A n \in Note : n \in copy[t] => Told(n) \/ n \in K
    BY DEF KeptNotes, Told
  <1> HIDE DEF K
  <1>4. \A x \in Item : Told(x)' <=> Told(x) \/ x \in K
    BY <1>1 DEF Told
  <1>5. \A x : /\ InQueue(x)' <=> InQueue(x)
               /\ (Holds(wakes, x)' <=> Holds(wakes, x)) /\ (Holds(hands, x)' <=> Holds(hands, x))
    BY <1>1 DEF InQueue, Within, Holds
  <1>6. \A x \in Item : Placed(x)' <=> Placed(x) \/ x \in K
    BY <1>1, <1>4, <1>5 DEF Placed
  <1>7. \A x \in Item : Apart(x)'
    BY <1>1, <1>2, <1>4, <1>5 DEF OnceInv, PlaceInv, Apart, Placed
  <1>8. PlaceInv'
    BY <1>1, <1>7 DEF OnceInv, PlaceInv, QueuesApart, Disjoint
  <1>9. KeptInv'
    <2>1. \A w \in wakes', n \in Note : n \in w.base => Told(n)'
      BY <1>1, <1>4 DEF OnceInv, KeptInv, Item
    <2>2. ASSUME NEW u \in Turn, NEW n \in Note, n \in copy'[u]
          PROVE  n \in posted' /\ (Told(n)' \/ (tpc'[u] = "keep" /\ ~Placed(n)'))
      <3>1. n \in Item /\ n \in posted' /\ (Told(n) \/ (tpc[u] = "keep" /\ ~Placed(n)))
        BY <1>1, <2>2 DEF OnceInv, KeptInv, Item
      <3>2. CASE u = t
        BY <1>1, <1>3, <1>4, <2>2, <3>1, <3>2
      <3>3. CASE u # t
        BY <1>1, <1>4, <1>6, <3>1, <3>3 DEF OnceInv, TypeInv, TypeOK
      <3>4. QED
        BY <3>2, <3>3
    <2>3. \A n \in Note : n \in thread' => Told(n)'
      BY <1>1, <1>3, <1>4 DEF Item
    <2>4. QED
      BY <2>1, <2>2, <2>3 DEF KeptInv
  <1>10. QED
    BY <1>1, <1>2, <1>6, <1>8, <1>9, TurnKept

\* Locking moves nothing.
LEMMA EditPlaces ==
    ASSUME OnceInv, TypeInv', NEW n \in Note, NEW locked \in BOOLEAN, EditNote(n, locked)
    PROVE  OnceInv'
  <1> DEFINE r == registered
  <1>1. UNCHANGED <<jpc, hands, buffered, wakes, fate, thread, copy, tpc, posted, inTime,
                    cancelled, panicked>>
    BY DEF EditNote, jobVars, wakeVars
  <1>2. PICK i \in DOMAIN queue[r] : queue' = [queue EXCEPT ![r][i].locked = locked]
    BY DEF EditNote
  <1>3. r \in Turn /\ queue \in [Turn -> Seq(Entry)]
    BY DEF EditNote, OnceInv, TypeInv, TypeOK
  <1>4. /\ \A u \in Turn \ {r} : queue'[u] = queue[u]
        /\ queue'[r] = [queue[r] EXCEPT ![i] = [queue[r][i] EXCEPT !.locked = locked]]
    BY <1>2, <1>3
  <1>5. \A u \in Turn : /\ Len(queue'[u]) = Len(queue[u])
                        /\ \A k \in 1..Len(queue[u]) : queue'[u][k].notes = queue[u][k].notes
    <2>1. queue[r] \in Seq(Entry)
      BY <1>3
    <2>2. queue[r][i] \in Entry
      BY <1>2, <2>1
    <2>3. [queue[r][i] EXCEPT !.locked = locked].notes = queue[r][i].notes
      BY <2>2 DEF Entry
    <2>4. Len(queue'[r]) = Len(queue[r])
      BY <1>4, <2>1
    <2>5. ASSUME NEW k \in 1..Len(queue[r])
          PROVE  queue'[r][k].notes = queue[r][k].notes
      <3>1. k \in DOMAIN queue[r]
        BY <2>1
      <3>2. CASE k = i
        BY <1>4, <2>3, <3>1, <3>2
      <3>3. CASE k # i
        BY <1>4, <3>1, <3>3
      <3>4. QED
        BY <3>2, <3>3
    <2>6. QED
      BY <1>4, <2>4, <2>5
  <1>6. \A x : InQueue(x)' <=> InQueue(x)
    BY <1>5 DEF InQueue, Within
  <1>7. QueuesApart'
    <2> SUFFICES ASSUME NEW u \in Turn, NEW v \in Turn,
                        NEW k \in 1..Len(queue'[u]), NEW l \in 1..Len(queue'[v]),
                        NEW x, x \in queue'[u][k].notes, x \in queue'[v][l].notes
                 PROVE  u = v /\ k = l
      BY DEF QueuesApart
    <2>1. k \in 1..Len(queue[u]) /\ x \in queue[u][k].notes
      BY <1>5
    <2>2. l \in 1..Len(queue[v]) /\ x \in queue[v][l].notes
      BY <1>5
    <2>3. QueuesApart
      BY DEF OnceInv, PlaceInv
    <2>4. QED
      BY <2>1, <2>2, <2>3 DEF QueuesApart
  <1>8. \A x : /\ (Told(x)' <=> Told(x))
               /\ (Holds(wakes, x)' <=> Holds(wakes, x)) /\ (Holds(hands, x)' <=> Holds(hands, x))
    BY <1>1 DEF Told, Holds
  <1>9. \A x \in Item : Apart(x)' /\ (Placed(x)' <=> Placed(x))
    BY <1>1, <1>6, <1>8 DEF OnceInv, PlaceInv, Apart, Placed
  <1>10. PlaceInv'
    BY <1>1, <1>7, <1>9 DEF OnceInv, PlaceInv, Disjoint
  <1>11. KeptInv'
    BY <1>1, <1>8, <1>9 DEF OnceInv, KeptInv, Item
  <1>12. QED
    BY <1>1, <1>9, <1>10, <1>11, TurnKept

\* A deleted note is nowhere.
LEMMA DeletePlaces ==
    ASSUME OnceInv, TypeInv', NEW n \in Note, DeleteNote(n)
    PROVE  OnceInv'
  <1> DEFINE r == registered
             S == {e \in Entry : n \notin e.notes}
  <1>1. /\ UNCHANGED <<jpc, hands, buffered, wakes, thread, copy, tpc, posted, inTime,
                       cancelled, panicked>>
        /\ queue' = [queue EXCEPT ![r] = Only(queue[r], S)]
        /\ fate' = [x \in Item |-> IF x \in {n} THEN "dropped" ELSE fate[x]]
        /\ n \in NotesIn(queue[r])
    BY DEF DeleteNote, Settle, jobVars, wakeVars
  <1>2. r \in Turn /\ queue[r] \in Seq(Entry) /\ n \in Item
    BY DEF DeleteNote, OnceInv, TypeInv, TypeOK, Item
  <1>3. PICK i \in 1..Len(queue[r]) : n \in queue[r][i].notes
    BY <1>1, <1>2 DEF NotesIn
  <1>4. queue[r][i] \notin S
    BY <1>3
  <1> HIDE DEF S
  <1>5. QueuesApart' /\ (\A x : InQueue(x)' => InQueue(x)) /\ ~InQueue(n)'
    BY <1>1, <1>2, <1>3, <1>4, Thinned DEF OnceInv, TypeInv, PlaceInv
  <1>6. InQueue(n)
    BY <1>2, <1>3 DEF InQueue, Within
  <1>7. n \in posted /\ n \notin buffered /\ ~Holds(hands, n) /\ ~Holds(wakes, n) /\ ~Told(n)
    BY <1>2, <1>6, PlacedPosted DEF Placed, OnceInv, PlaceInv, Apart
  <1>8. \A x \in Item : Told(x)' <=> Told(x) \/ x = n
    BY <1>1 DEF Told
  <1>9. \A x : (Holds(wakes, x)' <=> Holds(wakes, x)) /\ (Holds(hands, x)' <=> Holds(hands, x))
    BY <1>1 DEF Holds
  <1>10. \A x \in Item : Placed(x)' => Placed(x)
    BY <1>1, <1>5, <1>6, <1>8, <1>9 DEF Placed
  <1>11. \A x \in Item : Apart(x)'
    BY <1>1, <1>5, <1>7, <1>8, <1>9 DEF OnceInv, PlaceInv, Apart
  <1>12. PlaceInv'
    BY <1>1, <1>5, <1>11 DEF OnceInv, PlaceInv, Disjoint
  <1>13. KeptInv'
    BY <1>1, <1>8, <1>10 DEF OnceInv, KeptInv, Item
  <1>14. QED
    BY <1>1, <1>10, <1>12, <1>13, TurnKept

-----------------------------------------------------------------------------
(* The invariant *)

LEMMA OnceStep ==
    ASSUME OnceInv, [Next]_vars
    PROVE  OnceInv'
  <1>1. TypeInv'
    BY TypeStep DEF OnceInv
  <1>2. CASE UNCHANGED vars
    BY <1>2 DEF vars, jobVars, wakeVars, turnVars, OnceInv, TypeInv, TypeOK, HandInv, PlaceInv,
        QueuesApart, Disjoint, Apart, Holds, InQueue, Within, Told, FreshInv, Fresh, Placed,
        KeptInv, SilentInv
  <1>3. ASSUME NEW js \in SUBSET Job, CancelBackgroundJobs(js) PROVE OnceInv'
    <2>1. UNCHANGED <<jpc, hands, buffered, wakes, queue, fate, thread, copy, tpc, posted, inTime,
                      cancelled, panicked>>
      BY <1>3 DEF CancelBackgroundJobs, wakeVars, turnVars
    <2>2. PlaceInv' /\ \A x \in Item : (Placed(x)' <=> Placed(x)) /\ (Told(x)' <=> Told(x))
      BY <2>1, NothingMoved DEF OnceInv, PlaceInv, Disjoint, Holds
    <2>3. QED
      BY <1>1, <2>1, <2>2, HandedOn DEF OnceInv, KeptInv
  <1>4. ASSUME NEW j \in Job, JobStep(j) \/ StartTask(j) \/ FnReturns(j) \/ FnPanics(j) \/ CancelRun(j)
        PROVE  OnceInv'
    BY <1>1, <1>4, JobPlaces, BuildPlaces DEF JobStep
  <1>5. CASE HandStep \/ TakeBufferedWakes
    BY <1>1, <1>5, LookupPlaces, PushPlaces, ClaimPlaces, TakePlaces DEF HandStep
  <1>6. CASE WakeStep
    BY <1>1, <1>6, LoadPlaces, EndPlaces DEF WakeStep
  <1>7. ASSUME NEW t \in Turn, TurnStep(t) \/ OpenSession(t) \/ DrainNotes(t)
        PROVE  OnceInv'
    BY <1>1, <1>7, StillPlaces, DrainPlaces, LeftoverPlaces, SavePlaces DEF TurnStep
  <1>8. ASSUME NEW n \in Note, PostNote(n) \/ LockNote(n) \/ UnlockNote(n) \/ DeleteNote(n)
        PROVE  OnceInv'
    BY <1>1, <1>8, PostPlaces, EditPlaces, DeletePlaces DEF LockNote, UnlockNote
  <1>9. QED
    BY <1>2, <1>3, <1>4, <1>5, <1>6, <1>7, <1>8 DEF Next, Progress

LEMMA InitOnce == Init => OnceInv
  <1> SUFFICES ASSUME Init PROVE OnceInv
    OBVIOUS
  <1>1. \A t \in Turn : Len(queue[t]) = 0
    BY DEF Init
  <1>2. \A x : ~InQueue(x)
    BY <1>1 DEF InQueue, Within
  <1>3. \A x \in Item : ~Placed(x)
    BY <1>2 DEF Init, Placed, Holds, Told
  <1>4. QueuesApart
    BY <1>1 DEF QueuesApart
  <1>5. PlaceInv
    BY <1>2, <1>3, <1>4 DEF Init, PlaceInv, Apart, Placed, Disjoint
  <1>6. FreshInv /\ KeptInv /\ SilentInv
    BY <1>3 DEF Init, FreshInv, KeptInv, SilentInv
  <1>7. QED
    BY <1>5, <1>6, InitType DEF OnceInv

LEMMA OnceInvariant == Spec => []OnceInv
  <1>1. OnceInv /\ [Next]_vars => OnceInv'
    BY OnceStep
  <1>2. QED
    BY InitOnce, <1>1, PTL DEF Spec

\* Being in a queue's notes, read through NotesIn.
LEMMA InNotes ==
    ASSUME TypeOK, NEW t \in Turn, NEW x
    PROVE  x \in NotesIn(queue[t]) <=> Within(queue[t], x)
  <1>1. DOMAIN queue[t] = 1..Len(queue[t])
    BY DEF TypeOK
  <1>2. QED
    BY <1>1 DEF NotesIn, Within

\* A result that finished is announced at most once: by its goroutine, the
\* window, a wake turn or one turn's queue, never by two of them, and by none
\* once a turn told it.
THEOREM ResultsToldOnce == Spec => []ToldOnce
  <1>1. ASSUME OnceInv, NEW x \in Item PROVE Cardinality(Places(x)) <= 1
    <2>1. ASSUME NEW p \in Places(x), NEW r \in Places(x) PROVE p = r
      <3> DEFINE HandAt == {<<"hand", h>> : h \in {g \in hands : x \in g.notes}}
                 WindowAt == {<<"window">> : y \in {x} \cap buffered}
                 WakeAt == {<<"wake", w>> : w \in {v \in wakes : x \in v.notes}}
                 QueueAt == {<<"queue", t>> : t \in {u \in Turn : x \in NotesIn(queue[u])}}
                 ToldAt == {<<"settled">> : y \in {z \in {x} : fate[z] # "none"}}
      <3>1. /\ HandAt # {} => Holds(hands, x)
            /\ WindowAt # {} => x \in buffered
            /\ WakeAt # {} => Holds(wakes, x)
            /\ ToldAt # {} => Told(x)
        BY DEF Holds, Told
      <3>2. QueueAt # {} => InQueue(x)
        BY <1>1, InNotes DEF InQueue, OnceInv, TypeInv
      <3>3. \A a, b \in HandAt : a = b
        BY <1>1 DEF OnceInv, PlaceInv, Disjoint
      <3>4. \A a, b \in WakeAt : a = b
        BY <1>1 DEF OnceInv, PlaceInv, Disjoint
      <3>5. \A a, b \in QueueAt : a = b
        <4>1. ASSUME NEW t \in Turn, NEW u \in Turn,
                     x \in NotesIn(queue[t]), x \in NotesIn(queue[u])
              PROVE  t = u
          <5>1. Within(queue[t], x) /\ Within(queue[u], x)
            BY <1>1, <4>1, InNotes DEF OnceInv, TypeInv
          <5>2. QED
            BY <1>1, <5>1 DEF Within, OnceInv, PlaceInv, QueuesApart
        <4>2. QED
          BY <4>1
      <3>6. (\A a, b \in WindowAt : a = b) /\ \A a, b \in ToldAt : a = b
        OBVIOUS
      <3>7. Places(x) = HandAt \cup WindowAt \cup WakeAt \cup QueueAt \cup ToldAt
        BY DEF Places
      <3> HIDE DEF HandAt, WindowAt, WakeAt, QueueAt, ToldAt
      <3>8. Apart(x)
        BY <1>1 DEF OnceInv, PlaceInv
      <3>9. QED
        BY <2>1, <3>1, <3>2, <3>3, <3>4, <3>5, <3>6, <3>7, <3>8 DEF Apart
    <2>2. CASE Places(x) = {}
      BY <2>2, FS_EmptySet
    <2>3. CASE Places(x) # {}
      <3>1. PICK p : p \in Places(x)
        BY <2>3
      <3>2. Places(x) = {p}
        BY <2>1, <3>1
      <3>3. QED
        BY <3>2, FS_Singleton
    <2>4. QED
      BY <2>2, <2>3
  <1>2. OnceInv => ToldOnce
    BY <1>1 DEF ToldOnce
  <1>3. QED
    BY OnceInvariant, <1>2, PTL

\* A job stopped while it was at work tells the conversation nothing.
THEOREM StopsHeeded == Spec => []StopHeeded
  <1>1. ASSUME OnceInv, NEW j \in inTime \ panicked
        PROVE  jpc[j] \in {"work", "returned", "complete", "done"} /\ Places(j) = {}
    <2>1. jpc[j] \in {"work", "returned", "complete", "done"} /\ ~Placed(j)
      BY <1>1 DEF OnceInv, SilentInv
    <2>2. \A t \in Turn : j \notin NotesIn(queue[t])
      BY <1>1, <2>1, InNotes DEF Placed, InQueue, OnceInv, TypeInv
    <2>3. Places(j) = {}
      BY <2>1, <2>2 DEF Places, Placed, Holds, Told
    <2>4. QED
      BY <2>1, <2>3
  <1>2. OnceInv => StopHeeded
    BY <1>1 DEF StopHeeded
  <1>3. QED
    BY OnceInvariant, <1>2, PTL

-----------------------------------------------------------------------------
(* Cards *)

Posted(j) == fate[j] = "reported"

\* One wake turn at a time is between the load and the save of its card, and
\* the thread it loaded has every card posted so far.
CardInv ==
    /\ \A v, w \in wakes : v.at = "save" /\ w.at = "save" => v = w
    /\ \A w \in wakes : w.at = "save" =>
          \A j \in Job : Posted(j) => j \in w.base \cup clobbered
    /\ CardsKept

LEMMA CardStep ==
    ASSUME TypeOK, CardInv, [Next]_vars
    PROVE  CardInv'
  <1> USE DEF CardInv, CardsKept, Posted
  \* Nobody posts, and no wake turn starts to save.
  <1>1. ASSUME \A j \in Job : Posted(j)' => Posted(j),
               \A w \in wakes' : w.at = "save" => w \in wakes,
               thread \subseteq thread' \cup clobbered', clobbered \subseteq clobbered'
        PROVE  CardInv'
    BY <1>1
  <1>2. ASSUME NEW w \in wakes, AppendSave(w) PROVE CardInv'
    <2>1. /\ wakes' = wakes \ {w} /\ thread' = w.base \cup w.notes /\ clobbered' = clobbered
          /\ \A v \in wakes' : v.at # "save"
      BY <1>2 DEF AppendSave
    <2>2. \A j \in Job : Posted(j)' => Posted(j) \/ j \in w.notes
      BY <1>2 DEF AppendSave, Settle, Item
    <2>3. QED
      BY <1>2, <2>1, <2>2 DEF AppendSave
  <1>3. ASSUME NEW w \in wakes, AppendLoad(w) PROVE CardInv'
    <2>1. w \in Wake
      BY DEF TypeOK
    <2>2. PICK v : /\ v.at = "save" /\ v.base = thread /\ wakes' = (wakes \ {w}) \cup {v}
      BY <1>3, <2>1 DEF AppendLoad, Wake
    <2>3. UNCHANGED <<thread, clobbered, fate>> /\ \A u \in wakes : u.at # "save"
      BY <1>3 DEF AppendLoad
    <2>4. QED
      BY <2>2, <2>3
  <1>4. ASSUME NEW w \in wakes, WakeLoad(w) \/ WakeUnsaid(w) PROVE CardInv'
    <2>1. w \in Wake
      BY DEF TypeOK
    <2>2. UNCHANGED <<thread, clobbered>> /\ \A u \in wakes' : u.at = "save" => u \in wakes
      BY <1>4, <2>1 DEF WakeLoad, WakeUnsaid, Wake
    <2>3. \A j \in Job : Posted(j)' => Posted(j)
      BY <1>4 DEF WakeLoad, WakeUnsaid, Settle, Item
    <2>4. QED
      BY <1>1, <2>2, <2>3
  <1>5. ASSUME NEW h \in hands, LookupQueue(h) \/ Push(h) \/ ClaimWakeWindow(h) PROVE CardInv'
    <2>1. UNCHANGED <<thread, clobbered>> /\ \A u \in wakes' : u.at = "save" => u \in wakes
      BY <1>5 DEF LookupQueue, Push, ClaimWakeWindow, StartWake
    <2>2. \A j \in Job : Posted(j)' => Posted(j)
      BY <1>5 DEF LookupQueue, Push, ClaimWakeWindow, Settle, Item
    <2>3. QED
      BY <1>1, <2>1, <2>2
  <1>6. ASSUME NEW t \in Turn, TurnStep(t) \/ OpenSession(t) \/ DrainNotes(t) PROVE CardInv'
    <2>1. /\ thread \subseteq thread' \cup clobbered' /\ clobbered \subseteq clobbered'
      BY <1>6 DEF TurnStep, OpenSession, RecordUserMessage, RegisterQueue, DrainNotes, SaveReply,
             EndEarly, KeepLeftoverNotes, KeepSave, ReleaseQueue, SaveCopy
    <2>2. \A u \in wakes' : u.at = "save" => u \in wakes
      BY <1>6 DEF TurnStep, OpenSession, RecordUserMessage, RegisterQueue, DrainNotes, SaveReply,
             EndEarly, KeepLeftoverNotes, KeepSave, ReleaseQueue, wakeVars
    <2>3. \A j \in Job : Posted(j)' => Posted(j)
      BY <1>6 DEF TurnStep, OpenSession, RecordUserMessage, RegisterQueue, DrainNotes, SaveReply,
             EndEarly, KeepLeftoverNotes, KeepSave, ReleaseQueue, Settle, Item
    <2>4. QED
      BY <1>1, <2>1, <2>2, <2>3
  <1>7. ASSUME \/ UNCHANGED vars \/ TakeBufferedWakes
               \/ \E j \in Job : \/ JobStep(j) \/ StartTask(j) \/ FnReturns(j) \/ FnPanics(j)
                                 \/ CancelRun(j)
               \/ \E js \in SUBSET Job : CancelBackgroundJobs(js)
               \/ \E n \in Note : PostNote(n) \/ LockNote(n) \/ UnlockNote(n)
        PROVE  CardInv'
    <2>1. UNCHANGED <<wakes, thread, clobbered, fate>>
      BY <1>7 DEF vars, jobVars, wakeVars, turnVars, TakeBufferedWakes, JobStep, StartTask,
             FnReturns, FnPanics, CancelRun, CancelBackgroundJobs, CheckContext,
             FinishBackgroundJob, BuildWakeNote, CompleteBackgroundJob, PostNote, LockNote,
             UnlockNote, EditNote
    <2>2. QED
      BY <2>1
  <1>8. ASSUME NEW n \in Note, DeleteNote(n) PROVE CardInv'
    <2>1. UNCHANGED <<wakes, thread, clobbered>> /\ \A j \in Job : Posted(j)' => Posted(j)
      BY <1>8 DEF DeleteNote, Settle, Item, wakeVars
    <2>2. QED
      BY <1>1, <2>1
  <1>9. QED
    BY <1>2, <1>3, <1>4, <1>5, <1>6, <1>7, <1>8 DEF Next, Progress, HandStep, WakeStep

\* A card a wake turn posted stays in the thread whatever other wake turns
\* post: only a chat turn's save of its own copy can remove it.
THEOREM CardsStay == Spec => []CardsKept
  <1>1. Init => CardInv
    BY DEF Init, CardInv, CardsKept, Posted, Item
  <1>2. TypeOK /\ CardInv /\ [Next]_vars => CardInv'
    BY CardStep
  <1>3. CardInv => CardsKept
    BY DEF CardInv
  <1>4. QED
    BY TypeCorrect, <1>1, <1>2, <1>3, PTL DEF Spec

=============================================================================
