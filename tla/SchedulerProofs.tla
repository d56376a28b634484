--------------------------- MODULE SchedulerProofs ---------------------------
(***************************************************************************)
(* Proofs about Scheduler, for every set of tasks, callers and payloads    *)
(* and every clock bound.  The inductive invariant is built from named     *)
(* parts: who holds the mutex, what a caller's copy of a row can be, why   *)
(* every queued task will be noticed, and what became of dequeued tasks.   *)
(***************************************************************************)
EXTENDS Scheduler, TLAPS

\* Callers in the middle of a locked read-modify-write.
Editing(c) == cpc[c] \in {"update", "reschedule"}

\* schedDBMu is held exactly in the critical sections; the scan before the
\* first select runs without it.
MutexInv ==
    /\ \A c \in Client : mu = c <=> cpc[c] \in {"update", "reschedule", "wakeMoved"}
    /\ mu = "loop" <=> lpc = "fireScan" \/ (lpc = "sleepScan" /\ ~boot)
    /\ lpc \in {"down", "preinit"} => boot
    /\ lpc \in {"select", "done"} => ~boot

\* A caller's copy is the row as it is, unless the row was unscheduled meanwhile.
CopyInv ==
    \A c \in Client :
        /\ cpc[c] # "idle" => ctask[c] \in Task
        /\ Editing(c) => /\ ctask[c] \in used /\ crow[c] \in Row
                         /\ db[ctask[c]] \in {None, crow[c]}

\* A queued task that should run at `at' will be noticed in time.
Covered(t, at) ==
    \/ notify \/ WakePending \/ WillRescan
    \/ lpc = "sleepScan" /\ (t \in scan \/ (earliest # -1 /\ earliest <= at))
    \/ lpc = "select" /\ (timer <= at \/ timer <= now)

\* Every queued task is covered, and so is a row that an update is about to
\* put back after it was unscheduled.
CoverInv ==
    /\ \A t \in Keys : Covered(t, db[t].runAt)
    /\ \A c \in Client : cpc[c] = "update" /\ db[ctask[c]] = None =>
         notify \/ WakePending \/ (lpc = "sleepLock" /\ ~boot)

\* A task was dequeued: launched, or about to be.
Consumed(t) == started[t] # 0 \/ toFire[t] # None

\* A dequeued task is dequeued for good, and nobody holds a copy of its row.
OnceInv ==
    \A t \in Task :
        /\ started[t] \in {0, 1}
        /\ started[t] = 1 => toFire[t] = None
        /\ db[t] # None => t \in used
        /\ Consumed(t) => /\ db[t] = None /\ t \in used
                          /\ \A c \in Client : Editing(c) => ctask[c] # t

\* The row r says what the last successful request for t said.
Says(t, r) == r.payload = askedFor[t] /\ r.runAt = Format(askedAt[t])

AskedInv ==
    /\ \A t \in Task :
         /\ db[t] # None => Says(t, db[t])
         /\ toFire[t] # None => Says(t, toFire[t]) /\ toFire[t].runAt <= now
         /\ fired[t] # None => /\ started[t] # 0
                               /\ fired[t].payload = askedFor[t]
                               /\ Format(askedAt[t]) <= fired[t].at
    /\ \A c \in Client : Editing(c) => Says(ctask[c], crow[c])
    /\ \A t \in used : askedFor[t] \in Payload /\ askedAt[t] \in Time

Inv == TypeOK /\ MutexInv /\ CopyInv /\ CoverInv /\ OnceInv /\ AskedInv

\* Formatting a time drops less than a second.
LEMMA FormatNat ==
    \A t \in Nat : Format(t) \in Nat /\ Format(t) <= t /\ t < Format(t) + Resolution
  BY SchedulerAssumption DEF Format

\* Every step keeps the variables in their types; an edit writes back a row only
\* because CopyInv says its copy is one.
LEMMA TypeStep ==
    ASSUME TypeOK, CopyInv, [Next]_vars
    PROVE  TypeOK'
  <1> USE SchedulerAssumption, FormatNat
    DEF TypeOK, CopyInv, Editing, vars, loopVars, callVars, histVars, Row, LoopPc,
        CallPc, Time, Keys
  <1>1. ASSUME NEW c \in Client, NEW t \in Task, NEW at \in Time, NEW p \in Payload,
               ScheduleTask(c, t, at, p)
        PROVE TypeOK'
    BY <1>1 DEF ScheduleTask, Call
  <1>2. ASSUME NEW c \in Client, NEW t \in Task, UpdateGet(c, t) PROVE TypeOK'
    BY <1>2 DEF UpdateGet, Call
  <1>3. ASSUME NEW c \in Client, NEW p \in Payload, UpdateSet(c, p) PROVE TypeOK'
    BY <1>3 DEF UpdateSet, Call, Return
  <1>4. ASSUME NEW c \in Client, NEW t \in Task, RescheduleGet(c, t) PROVE TypeOK'
    BY <1>4 DEF RescheduleGet, Call
  <1>5. ASSUME NEW c \in Client, NEW at \in Time, RescheduleSet(c, at) PROVE TypeOK'
    BY <1>5 DEF RescheduleSet, Call
  <1>6. ASSUME NEW c \in Client, NEW t \in Task, UnscheduleTask(c, t) PROVE TypeOK'
    BY <1>6 DEF UnscheduleTask, Call
  <1>7. ASSUME NEW c \in Client, WakeScheduler(c) PROVE TypeOK'
    <2>1. mu' \in Client \cup {"loop", "free"} /\ gone' \in SUBSET Task
      BY <1>7 DEF WakeScheduler
    <2>2. cpc' \in [Client -> CallPc] /\ ctask' \in [Client -> Task \cup {None}]
          /\ crow' \in [Client -> Row \cup {None}]
      BY <1>7 DEF WakeScheduler, Call, Return
    <2>3. QED
      BY <1>7, <2>1, <2>2 DEF WakeScheduler
  <1>8. CASE PreInitScheduler
    BY <1>8 DEF PreInitScheduler
  <1>9. CASE StartGlobalScheduler
    BY <1>9 DEF StartGlobalScheduler
  <1>10. CASE FireLock
    BY <1>10 DEF FireLock
  <1>11. ASSUME NEW t \in Task, FireVisit(t) PROVE TypeOK'
    BY <1>11 DEF FireVisit
  <1>12. CASE FireUnlock
    BY <1>12 DEF FireUnlock
  <1>13. ASSUME NEW t \in Task, Launch(t) PROVE TypeOK'
    BY <1>13 DEF Launch
  <1>14. CASE LaunchDone
    BY <1>14 DEF LaunchDone
  <1>15. CASE SleepLock
    BY <1>15 DEF SleepLock
  <1>16. ASSUME NEW t \in Task, SleepVisit(t) PROVE TypeOK'
    BY <1>16 DEF SleepVisit
  <1>17. CASE TimerReset
    <2>1. timer' \in Nat
      <3>1. CASE earliest = -1
        BY <1>17, <3>1 DEF TimerReset
      <3>2. CASE earliest # -1
        BY <1>17, <3>2 DEF TimerReset
      <3>3. QED
        BY <3>1, <3>2
    <2>2. mu' \in Client \cup {"loop", "free"} /\ earliest' \in Nat \cup {-1}
      BY <1>17 DEF TimerReset
    <2>3. QED
      BY <1>17, <2>1, <2>2 DEF TimerReset
  <1>18. CASE SelectNotify
    BY <1>18 DEF SelectNotify
  <1>19. CASE SelectTimer
    BY <1>19 DEF SelectTimer
  <1>20. CASE SelectDone
    BY <1>20 DEF SelectDone
  <1>21. CASE Tick
    BY <1>21 DEF Tick
  <1>22. CASE Cancel
    BY <1>22 DEF Cancel
  <1>23. CASE Crash
    BY <1>23 DEF Crash
  <1>24. CASE UNCHANGED vars
    BY <1>24
  <1>25. QED
    BY <1>1, <1>2, <1>3, <1>4, <1>5, <1>6, <1>7, <1>8, <1>9, <1>10, <1>11, <1>12,
       <1>13, <1>14, <1>15, <1>16, <1>17, <1>18, <1>19, <1>20, <1>21, <1>22, <1>23,
       <1>24
      DEF Next, CallerBegin, CallerFinish, LoopStep

\* Every step keeps schedDBMu in the hands of whoever is in a critical section.
LEMMA MutexStep ==
    ASSUME TypeOK, MutexInv, [Next]_vars
    PROVE  MutexInv'
  <1> USE SchedulerAssumption
    DEF TypeOK, MutexInv, vars, loopVars, callVars, histVars, LoopPc, CallPc, Up
  <1>1. ASSUME NEW c \in Client, NEW t \in Task, NEW at \in Time, NEW p \in Payload,
               ScheduleTask(c, t, at, p)
        PROVE MutexInv'
    BY <1>1 DEF ScheduleTask, Call
  <1>2. ASSUME NEW c \in Client, NEW t \in Task, UpdateGet(c, t) PROVE MutexInv'
    BY <1>2 DEF UpdateGet, Call
  <1>3. ASSUME NEW c \in Client, NEW p \in Payload, UpdateSet(c, p) PROVE MutexInv'
    BY <1>3 DEF UpdateSet, Call, Return
  <1>4. ASSUME NEW c \in Client, NEW t \in Task, RescheduleGet(c, t) PROVE MutexInv'
    BY <1>4 DEF RescheduleGet, Call
  <1>5. ASSUME NEW c \in Client, NEW at \in Time, RescheduleSet(c, at)
        PROVE MutexInv'
    BY <1>5 DEF RescheduleSet, Call
  <1>6. ASSUME NEW c \in Client, NEW t \in Task, UnscheduleTask(c, t)
        PROVE MutexInv'
    BY <1>6 DEF UnscheduleTask, Call
  <1>7. ASSUME NEW c \in Client, WakeScheduler(c) PROVE MutexInv'
    BY <1>7 DEF WakeScheduler, Call, Return
  <1>8. CASE PreInitScheduler
    BY <1>8 DEF PreInitScheduler
  <1>9. CASE StartGlobalScheduler
    BY <1>9 DEF StartGlobalScheduler
  <1>10. CASE FireLock
    BY <1>10 DEF FireLock
  <1>11. ASSUME NEW t \in Task, FireVisit(t) PROVE MutexInv'
    BY <1>11 DEF FireVisit
  <1>12. CASE FireUnlock
    BY <1>12 DEF FireUnlock
  <1>13. ASSUME NEW t \in Task, Launch(t) PROVE MutexInv'
    BY <1>13 DEF Launch
  <1>14. CASE LaunchDone
    BY <1>14 DEF LaunchDone
  <1>15. CASE SleepLock
    BY <1>15 DEF SleepLock
  <1>16. ASSUME NEW t \in Task, SleepVisit(t) PROVE MutexInv'
    BY <1>16 DEF SleepVisit
  <1>17. CASE TimerReset
    BY <1>17 DEF TimerReset
  <1>18. CASE SelectNotify
    BY <1>18 DEF SelectNotify
  <1>19. CASE SelectTimer
    BY <1>19 DEF SelectTimer
  <1>20. CASE SelectDone
    BY <1>20 DEF SelectDone
  <1>21. CASE Tick
    BY <1>21 DEF Tick
  <1>22. CASE Cancel
    BY <1>22 DEF Cancel
  <1>23. CASE Crash
    BY <1>23 DEF Crash
  <1>24. CASE UNCHANGED vars
    BY <1>24
  <1>25. QED
    BY <1>1, <1>2, <1>3, <1>4, <1>5, <1>6, <1>7, <1>8, <1>9, <1>10, <1>11, <1>12,
       <1>13, <1>14, <1>15, <1>16, <1>17, <1>18, <1>19, <1>20, <1>21, <1>22, <1>23,
       <1>24
      DEF Next, CallerBegin, CallerFinish, LoopStep

\* While an edit holds the mutex nobody changes its row except to remove it:
\* ScheduleTask writes fresh ids and fireDueTasks waits for the mutex.
LEMMA CopyStep ==
    ASSUME TypeOK, MutexInv, CopyInv, OnceInv, [Next]_vars
    PROVE  CopyInv'
  <1> USE SchedulerAssumption, FormatNat
    DEF TypeOK, MutexInv, CopyInv, OnceInv, Editing, Row, Time, Keys, vars,
        loopVars, callVars, histVars
  <1>1. ASSUME NEW c \in Client, NEW t \in Task, NEW at \in Time, NEW p \in Payload,
               ScheduleTask(c, t, at, p)
        PROVE CopyInv'
    BY <1>1 DEF ScheduleTask, Call
  <1>2. ASSUME NEW c \in Client, NEW t \in Task, UpdateGet(c, t) PROVE CopyInv'
    <2>1. db[t] \in Row /\ t \in used /\ db' = db /\ used' = used
      BY <1>2 DEF UpdateGet
    <2>2. cpc' = [cpc EXCEPT ![c] = "update"] /\ ctask' = [ctask EXCEPT ![c] = t]
          /\ crow' = [crow EXCEPT ![c] = db[t]]
      BY <1>2 DEF UpdateGet, Call
    <2>3. QED
      BY <2>1, <2>2
  <1>3. ASSUME NEW c \in Client, NEW p \in Payload, UpdateSet(c, p) PROVE CopyInv'
    BY <1>3 DEF UpdateSet, Call, Return
  <1>4. ASSUME NEW c \in Client, NEW t \in Task, RescheduleGet(c, t) PROVE CopyInv'
    <2>1. db[t] \in Row /\ t \in used /\ db' = db /\ used' = used
      BY <1>4 DEF RescheduleGet
    <2>2. cpc' = [cpc EXCEPT ![c] = "reschedule"] /\ ctask' = [ctask EXCEPT ![c] = t]
          /\ crow' = [crow EXCEPT ![c] = db[t]]
      BY <1>4 DEF RescheduleGet, Call
    <2>3. QED
      BY <2>1, <2>2
  <1>5. ASSUME NEW c \in Client, NEW at \in Time, RescheduleSet(c, at)
        PROVE CopyInv'
    BY <1>5 DEF RescheduleSet, Call
  <1>6. ASSUME NEW c \in Client, NEW t \in Task, UnscheduleTask(c, t) PROVE CopyInv'
    BY <1>6 DEF UnscheduleTask, Call
  <1>7. ASSUME NEW c \in Client, WakeScheduler(c) PROVE CopyInv'
    BY <1>7 DEF WakeScheduler, Call, Return
  <1>8. CASE PreInitScheduler
    BY <1>8 DEF PreInitScheduler
  <1>9. CASE StartGlobalScheduler
    BY <1>9 DEF StartGlobalScheduler
  <1>10. CASE FireLock
    BY <1>10 DEF FireLock
  <1>11. ASSUME NEW t \in Task, FireVisit(t) PROVE CopyInv'
    BY <1>11 DEF FireVisit
  <1>12. CASE FireUnlock
    BY <1>12 DEF FireUnlock
  <1>13. ASSUME NEW t \in Task, Launch(t) PROVE CopyInv'
    BY <1>13 DEF Launch
  <1>14. CASE LaunchDone
    BY <1>14 DEF LaunchDone
  <1>15. CASE SleepLock
    BY <1>15 DEF SleepLock
  <1>16. ASSUME NEW t \in Task, SleepVisit(t) PROVE CopyInv'
    BY <1>16 DEF SleepVisit
  <1>17. CASE TimerReset
    BY <1>17 DEF TimerReset
  <1>18. CASE SelectNotify
    BY <1>18 DEF SelectNotify
  <1>19. CASE SelectTimer
    BY <1>19 DEF SelectTimer
  <1>20. CASE SelectDone
    BY <1>20 DEF SelectDone
  <1>21. CASE Tick
    BY <1>21 DEF Tick
  <1>22. CASE Cancel
    BY <1>22 DEF Cancel
  <1>23. CASE Crash
    BY <1>23 DEF Crash
  <1>24. CASE UNCHANGED vars
    BY <1>24
  <1>25. QED
    BY <1>1, <1>2, <1>3, <1>4, <1>5, <1>6, <1>7, <1>8, <1>9, <1>10, <1>11, <1>12,
       <1>13, <1>14, <1>15, <1>16, <1>17, <1>18, <1>19, <1>20, <1>21, <1>22, <1>23,
       <1>24
      DEF Next, CallerBegin, CallerFinish, LoopStep

\* Every step keeps every queued task covered: a write is followed by a token, a
\* token by a scan, a scan by a timer no later than the earliest row.
LEMMA CoverStep ==
    ASSUME TypeOK, MutexInv, CopyInv, OnceInv, CoverInv, [Next]_vars
    PROVE  CoverInv'
  <1> USE SchedulerAssumption, FormatNat
    DEF TypeOK, MutexInv, CopyInv, OnceInv, CoverInv, Editing, Row, Time, Keys,
        Covered, WakePending, WillRescan, Up, vars, loopVars, callVars, histVars
  <1>1. ASSUME NEW c \in Client, NEW t \in Task, NEW at \in Time, NEW p \in Payload,
               ScheduleTask(c, t, at, p)
        PROVE CoverInv'
    BY <1>1 DEF ScheduleTask, Call
  <1>2. ASSUME NEW c \in Client, NEW t \in Task, UpdateGet(c, t) PROVE CoverInv'
    BY <1>2 DEF UpdateGet, Call
  <1>3. ASSUME NEW c \in Client, NEW p \in Payload, UpdateSet(c, p) PROVE CoverInv'
    BY <1>3 DEF UpdateSet, Call, Return
  <1>4. ASSUME NEW c \in Client, NEW t \in Task, RescheduleGet(c, t) PROVE CoverInv'
    BY <1>4 DEF RescheduleGet, Call
  <1>5. ASSUME NEW c \in Client, NEW at \in Time, RescheduleSet(c, at)
        PROVE CoverInv'
    BY <1>5 DEF RescheduleSet, Call
  <1>6. ASSUME NEW c \in Client, NEW t \in Task, UnscheduleTask(c, t)
        PROVE CoverInv'
    BY <1>6 DEF UnscheduleTask, Call
  <1>7. ASSUME NEW c \in Client, WakeScheduler(c) PROVE CoverInv'
    BY <1>7 DEF WakeScheduler, Call, Return
  <1>8. CASE PreInitScheduler
    BY <1>8 DEF PreInitScheduler
  <1>9. CASE StartGlobalScheduler
    BY <1>9 DEF StartGlobalScheduler
  <1>10. CASE FireLock
    BY <1>10 DEF FireLock
  <1>11. ASSUME NEW t \in Task, FireVisit(t) PROVE CoverInv'
    BY <1>11 DEF FireVisit
  <1>12. CASE FireUnlock
    BY <1>12 DEF FireUnlock
  <1>13. ASSUME NEW t \in Task, Launch(t) PROVE CoverInv'
    BY <1>13 DEF Launch
  <1>14. CASE LaunchDone
    BY <1>14 DEF LaunchDone
  <1>15. CASE SleepLock
    BY <1>15 DEF SleepLock
  <1>16. ASSUME NEW t \in Task, SleepVisit(t) PROVE CoverInv'
    BY <1>16 DEF SleepVisit
  <1>17. CASE TimerReset
    BY <1>17 DEF TimerReset
  <1>18. CASE SelectNotify
    BY <1>18 DEF SelectNotify
  <1>19. CASE SelectTimer
    BY <1>19 DEF SelectTimer
  <1>20. CASE SelectDone
    BY <1>20 DEF SelectDone
  <1>21. CASE Tick
    BY <1>21 DEF Tick
  <1>22. CASE Cancel
    BY <1>22 DEF Cancel
  <1>23. CASE Crash
    BY <1>23 DEF Crash
  <1>24. CASE UNCHANGED vars
    BY <1>24
  <1>25. QED
    BY <1>1, <1>2, <1>3, <1>4, <1>5, <1>6, <1>7, <1>8, <1>9, <1>10, <1>11, <1>12,
       <1>13, <1>14, <1>15, <1>16, <1>17, <1>18, <1>19, <1>20, <1>21, <1>22, <1>23,
       <1>24
      DEF Next, CallerBegin, CallerFinish, LoopStep

\* A dequeued task never returns to the table: dequeueing excludes every edit.
LEMMA OnceStep ==
    ASSUME TypeOK, MutexInv, CopyInv, OnceInv, [Next]_vars
    PROVE  OnceInv'
  <1> USE SchedulerAssumption
    DEF TypeOK, MutexInv, CopyInv, OnceInv, Consumed, Editing, Keys, vars, loopVars,
        callVars, histVars
  <1>1. ASSUME NEW c \in Client, NEW t \in Task, NEW at \in Time, NEW p \in Payload,
               ScheduleTask(c, t, at, p)
        PROVE OnceInv'
    BY <1>1 DEF ScheduleTask, Call
  <1>2. ASSUME NEW c \in Client, NEW t \in Task, UpdateGet(c, t) PROVE OnceInv'
    BY <1>2 DEF UpdateGet, Call
  <1>3. ASSUME NEW c \in Client, NEW p \in Payload, UpdateSet(c, p) PROVE OnceInv'
    BY <1>3 DEF UpdateSet, Call, Return
  <1>4. ASSUME NEW c \in Client, NEW t \in Task, RescheduleGet(c, t) PROVE OnceInv'
    BY <1>4 DEF RescheduleGet, Call
  <1>5. ASSUME NEW c \in Client, NEW at \in Time, RescheduleSet(c, at)
        PROVE OnceInv'
    BY <1>5 DEF RescheduleSet, Call
  <1>6. ASSUME NEW c \in Client, NEW t \in Task, UnscheduleTask(c, t) PROVE OnceInv'
    BY <1>6 DEF UnscheduleTask, Call
  <1>7. ASSUME NEW c \in Client, WakeScheduler(c) PROVE OnceInv'
    BY <1>7 DEF WakeScheduler, Call, Return
  <1>8. CASE PreInitScheduler
    BY <1>8 DEF PreInitScheduler
  <1>9. CASE StartGlobalScheduler
    BY <1>9 DEF StartGlobalScheduler
  <1>10. CASE FireLock
    BY <1>10 DEF FireLock
  <1>11. ASSUME NEW t \in Task, FireVisit(t) PROVE OnceInv'
    BY <1>11 DEF FireVisit
  <1>12. CASE FireUnlock
    BY <1>12 DEF FireUnlock
  <1>13. ASSUME NEW t \in Task, Launch(t) PROVE OnceInv'
    BY <1>13 DEF Launch
  <1>14. CASE LaunchDone
    BY <1>14 DEF LaunchDone
  <1>15. CASE SleepLock
    BY <1>15 DEF SleepLock
  <1>16. ASSUME NEW t \in Task, SleepVisit(t) PROVE OnceInv'
    BY <1>16 DEF SleepVisit
  <1>17. CASE TimerReset
    BY <1>17 DEF TimerReset
  <1>18. CASE SelectNotify
    BY <1>18 DEF SelectNotify
  <1>19. CASE SelectTimer
    BY <1>19 DEF SelectTimer
  <1>20. CASE SelectDone
    BY <1>20 DEF SelectDone
  <1>21. CASE Tick
    BY <1>21 DEF Tick
  <1>22. CASE Cancel
    BY <1>22 DEF Cancel
  <1>23. CASE Crash
    BY <1>23 DEF Crash
  <1>24. CASE UNCHANGED vars
    BY <1>24
  <1>25. QED
    BY <1>1, <1>2, <1>3, <1>4, <1>5, <1>6, <1>7, <1>8, <1>9, <1>10, <1>11, <1>12,
       <1>13, <1>14, <1>15, <1>16, <1>17, <1>18, <1>19, <1>20, <1>21, <1>22, <1>23,
       <1>24
      DEF Next, CallerBegin, CallerFinish, LoopStep

\* Rows in the table, dequeued rows and launches agree with the last successful
\* request.
LEMMA AskedStep ==
    ASSUME TypeOK, MutexInv, CopyInv, OnceInv, AskedInv, [Next]_vars
    PROVE  AskedInv'
  <1> USE SchedulerAssumption, FormatNat
    DEF TypeOK, MutexInv, CopyInv, OnceInv, Consumed, AskedInv, Says, Editing, Keys,
        Row, Time, vars, loopVars, callVars, histVars
  <1>1. ASSUME NEW c \in Client, NEW t \in Task, NEW at \in Time, NEW p \in Payload,
               ScheduleTask(c, t, at, p)
        PROVE AskedInv'
    BY <1>1 DEF ScheduleTask, Call
  <1>2. ASSUME NEW c \in Client, NEW t \in Task, UpdateGet(c, t) PROVE AskedInv'
    BY <1>2 DEF UpdateGet, Call
  <1>3. ASSUME NEW c \in Client, NEW p \in Payload, UpdateSet(c, p) PROVE AskedInv'
    BY <1>3 DEF UpdateSet, Call, Return
  <1>4. ASSUME NEW c \in Client, NEW t \in Task, RescheduleGet(c, t) PROVE AskedInv'
    BY <1>4 DEF RescheduleGet, Call
  <1>5. ASSUME NEW c \in Client, NEW at \in Time, RescheduleSet(c, at)
        PROVE AskedInv'
    BY <1>5 DEF RescheduleSet, Call
  <1>6. ASSUME NEW c \in Client, NEW t \in Task, UnscheduleTask(c, t)
        PROVE AskedInv'
    BY <1>6 DEF UnscheduleTask, Call
  <1>7. ASSUME NEW c \in Client, WakeScheduler(c) PROVE AskedInv'
    BY <1>7 DEF WakeScheduler, Call, Return
  <1>8. CASE PreInitScheduler
    BY <1>8 DEF PreInitScheduler
  <1>9. CASE StartGlobalScheduler
    BY <1>9 DEF StartGlobalScheduler
  <1>10. CASE FireLock
    BY <1>10 DEF FireLock
  <1>11. ASSUME NEW t \in Task, FireVisit(t) PROVE AskedInv'
    BY <1>11 DEF FireVisit, Due
  <1>12. CASE FireUnlock
    BY <1>12 DEF FireUnlock
  <1>13. ASSUME NEW t \in Task, Launch(t) PROVE AskedInv'
    BY <1>13 DEF Launch
  <1>14. CASE LaunchDone
    BY <1>14 DEF LaunchDone
  <1>15. CASE SleepLock
    BY <1>15 DEF SleepLock
  <1>16. ASSUME NEW t \in Task, SleepVisit(t) PROVE AskedInv'
    BY <1>16 DEF SleepVisit
  <1>17. CASE TimerReset
    BY <1>17 DEF TimerReset
  <1>18. CASE SelectNotify
    BY <1>18 DEF SelectNotify
  <1>19. CASE SelectTimer
    BY <1>19 DEF SelectTimer
  <1>20. CASE SelectDone
    BY <1>20 DEF SelectDone
  <1>21. CASE Tick
    BY <1>21 DEF Tick
  <1>22. CASE Cancel
    BY <1>22 DEF Cancel
  <1>23. CASE Crash
    BY <1>23 DEF Crash
  <1>24. CASE UNCHANGED vars
    BY <1>24
  <1>25. QED
    BY <1>1, <1>2, <1>3, <1>4, <1>5, <1>6, <1>7, <1>8, <1>9, <1>10, <1>11, <1>12,
       <1>13, <1>14, <1>15, <1>16, <1>17, <1>18, <1>19, <1>20, <1>21, <1>22, <1>23,
       <1>24
      DEF Next, CallerBegin, CallerFinish, LoopStep

\* The initial state satisfies the inductive invariant.
LEMMA InitInv == Init => Inv
  <1> SUFFICES ASSUME Init PROVE Inv
    OBVIOUS
  <1> USE SchedulerAssumption DEF Init
  <1>1. TypeOK
    BY DEF TypeOK, LoopPc, CallPc
  <1>2. MutexInv /\ CopyInv
    BY DEF MutexInv, CopyInv, Editing
  <1>3. CoverInv
    BY DEF CoverInv, Keys
  <1>4. OnceInv
    BY DEF OnceInv, Consumed
  <1>5. AskedInv
    BY DEF AskedInv, Editing
  <1>6. QED
    BY <1>1, <1>2, <1>3, <1>4, <1>5 DEF Inv

\* Every step preserves the inductive invariant.
LEMMA StepInv == Inv /\ [Next]_vars => Inv'
  BY TypeStep, MutexStep, CopyStep, CoverStep, OnceStep, AskedStep DEF Inv

\* The inductive invariant holds in every reachable state.
THEOREM Invariance == Spec => []Inv
  BY InitInv, StepInv, PTL DEF Spec

\* Type correctness of the scheduler's state, for every set of tasks and callers.
THEOREM TypeCorrect == Spec => []TypeOK
  <1>1. Inv => TypeOK
    BY DEF Inv
  <1>2. QED
    BY <1>1, Invariance, PTL

\* No queued task is ever stranded behind a sleep of runSchedulerLoop: the
\* unlocked writes and the unlocked first scan lose no wake-up, whatever the
\* number of callers.
THEOREM WakeupsNotLost == Spec => []NoLostWakeup
  <1>1. Inv => NoLostWakeup
    BY DEF Inv, CoverInv, NoLostWakeup, Covered, WillRescan, MutexInv
  <1>2. QED
    BY <1>1, Invariance, PTL

\* fireDueTasks launches at most one handler for an id, across restarts, and
\* an id that launched never comes back to the table.
THEOREM FiresAtMostOnce == Spec => []AtMostOnce
  <1>1. Inv => AtMostOnce
    <2> SUFFICES ASSUME Inv, NEW t \in Task
                 PROVE  started[t] <= 1 /\ (started[t] = 1 => db[t] = None /\ toFire[t] = None)
      BY DEF AtMostOnce
    <2>1. started[t] \in {0, 1}
      BY DEF Inv, OnceInv
    <2>2. started[t] = 1 => db[t] = None /\ toFire[t] = None
      BY DEF Inv, OnceInv, Consumed
    <2>3. QED
      BY <2>1, <2>2
  <1>2. QED
    BY <1>1, Invariance, PTL

\* A handler runs with the payload and no earlier than the second of the last
\* update and reschedule that returned true.
THEOREM FiresAsAsked == Spec => []FiredAsAsked
  <1>1. Inv => FiredAsAsked
    <2> SUFFICES ASSUME Inv, NEW t \in Task, fired[t] # None
                 PROVE  fired[t].payload = askedFor[t] /\ fired[t].at + Resolution > askedAt[t]
      BY DEF FiredAsAsked
    <2>1. fired[t].payload = askedFor[t] /\ Format(askedAt[t]) <= fired[t].at
      BY DEF Inv, AskedInv
    <2>2. fired[t].at \in Nat /\ askedAt[t] \in Nat
      BY DEF Inv, TypeOK
    <2>3. QED
      BY <2>1, <2>2, FormatNat, SchedulerAssumption
  <1>2. QED
    BY <1>1, Invariance, PTL

-----------------------------------------------------------------------------
(* Scheduler implements DeferredJobs *)

\* A step that leaves what callers can observe alone is a stutter.
LEMMA SilentStep ==
    ASSUME UNCHANGED <<now, db, toFire, started, used, askedFor, askedAt, fired>>
    PROVE  UNCHANGED Jobs!vars
  BY DEF Jobs!vars, JobState

\* ScheduleTask and the two calls that change a task.
LEMMA RequestStep ==
    ASSUME Inv, NEW c \in Client,
           \/ \E t \in Task, at \in Time, p \in Payload : ScheduleTask(c, t, at, p)
           \/ \E p \in Payload : UpdateSet(c, p)
           \/ \E at \in Time : RescheduleSet(c, at)
    PROVE  Jobs!Next
  <1> USE SchedulerAssumption
  <1>1. ASSUME NEW t \in Task, NEW at \in Time, NEW p \in Payload,
               ScheduleTask(c, t, at, p)
        PROVE  Jobs!Schedule(t, p, at)
    <2>1. started[t] = 0 /\ t \notin used
      BY <1>1 DEF ScheduleTask, Inv, OnceInv, Consumed
    <2>2. db'[t] # None
      BY <1>1, FormatNat DEF ScheduleTask, Inv, TypeOK, Row, Time
    <2>3. \A u \in Task : JobState(u)' = IF u = t THEN "queued" ELSE JobState(u)
      BY <1>1, <2>1, <2>2 DEF ScheduleTask, JobState, Inv, TypeOK, loopVars
    <2>4. JobState(t) = "new"
      BY <2>1 DEF JobState
    <2>5. askedFor' = [askedFor EXCEPT ![t] = p] /\ askedAt' = [askedAt EXCEPT ![t] = at]
          /\ UNCHANGED <<now, fired>>
      BY <1>1 DEF ScheduleTask
    <2>6. QED
      BY <2>3, <2>4, <2>5 DEF Jobs!Schedule
  <1>2. ASSUME NEW p \in Payload, UpdateSet(c, p)
        PROVE  \E t \in Task, at \in Time : Jobs!Change(t, p, at)
    <2> DEFINE t == ctask[c]
    <2>1. t \in Task /\ t \in used /\ started[t] = 0 /\ toFire[t] = None
          /\ crow[c] \in Row /\ askedAt[t] \in Time
      BY <1>2 DEF UpdateSet, Inv, CopyInv, Editing, OnceInv, Consumed,
           AskedInv, TypeOK
    <2>2. db'[t] # None
      BY <1>2, <2>1 DEF UpdateSet, Inv, TypeOK, Row
    <2>3. \A u \in Task : JobState(u)' = IF u = t THEN "queued" ELSE JobState(u)
      BY <1>2, <2>1, <2>2 DEF UpdateSet, JobState, Inv, TypeOK, loopVars
    <2>4. Jobs!Change(t, p, askedAt[t])
      BY <1>2, <2>1, <2>3 DEF UpdateSet, Jobs!Change, JobState, Inv, TypeOK
    <2>5. QED
      BY <2>1, <2>4
  <1>3. ASSUME NEW at \in Time, RescheduleSet(c, at)
        PROVE  \E t \in Task, p \in Payload : Jobs!Change(t, p, at)
    <2> DEFINE t == ctask[c]
    <2>1. t \in Task /\ t \in used /\ started[t] = 0 /\ toFire[t] = None
          /\ crow[c] \in Row /\ askedFor[t] \in Payload
      BY <1>3 DEF RescheduleSet, Inv, CopyInv, Editing, OnceInv, Consumed,
           AskedInv, TypeOK
    <2>2. db'[t] # None
      BY <1>3, <2>1, FormatNat DEF RescheduleSet, Inv, TypeOK, Row, Time
    <2>3. \A u \in Task : JobState(u)' = IF u = t THEN "queued" ELSE JobState(u)
      BY <1>3, <2>1, <2>2 DEF RescheduleSet, JobState, Inv, TypeOK, loopVars
    <2>4. Jobs!Change(t, askedFor[t], at)
      BY <1>3, <2>1, <2>3 DEF RescheduleSet, Jobs!Change, JobState, Inv, TypeOK
    <2>5. QED
      BY <2>1, <2>4
  <1>4. QED
    BY <1>1, <1>2, <1>3 DEF Jobs!Next

\* A row leaves the table for its handler, or for nothing.
LEMMA LeaveStep ==
    ASSUME Inv, \/ \E c \in Client, t \in Task : UnscheduleTask(c, t)
                \/ \E t \in Task : FireVisit(t) \/ Launch(t)
                \/ Crash
    PROVE  Jobs!Next \/ UNCHANGED Jobs!vars
  <1> DEFINE Dropped(S) ==
        /\ \A u \in S : JobState(u) = "queued"
        /\ \A u \in Task : JobState(u)' = IF u \in S THEN "dropped" ELSE JobState(u)
        /\ UNCHANGED <<now, askedFor, askedAt, fired>>
  <1>0. ASSUME NEW S \in SUBSET Task, Dropped(S) PROVE Jobs!Next
    <2>1. Jobs!Drop(S)
      BY <1>0 DEF Jobs!Drop
    <2>2. QED
      BY <2>1 DEF Jobs!Next
  <1>1. ASSUME NEW c \in Client, NEW t \in Task, UnscheduleTask(c, t)
        PROVE  Jobs!Next
    <2> DEFINE S == {u \in {t} : JobState(u) = "queued" /\ toFire[u] = None}
    <2>1. Dropped(S)
      BY <1>1 DEF UnscheduleTask, JobState, Inv, TypeOK, loopVars, histVars
    <2>2. QED
      BY <1>0, <2>1
  <1>2. ASSUME NEW t \in Task, FireVisit(t) PROVE UNCHANGED Jobs!vars
    <2>1. \A u \in Task : JobState(u)' = JobState(u)
      BY <1>2 DEF FireVisit, JobState, Inv, TypeOK, histVars
    <2>2. UNCHANGED <<now, askedFor, askedAt, fired>>
      BY <1>2 DEF FireVisit, histVars
    <2>3. QED
      BY <2>1, <2>2 DEF Jobs!vars
  <1>3. ASSUME NEW t \in Task, Launch(t), t \in HandledTask PROVE Jobs!Next
    <2>1. started[t] = 0 /\ t \in used /\ db[t] = None
      BY <1>3 DEF Launch, Inv, OnceInv, Consumed
    <2>2. now + Resolution > askedAt[t]
      <3>1. Format(askedAt[t]) <= now
        BY <1>3 DEF Launch, Inv, AskedInv, Says
      <3>2. QED
        BY <3>1, FormatNat, SchedulerAssumption DEF Inv, TypeOK
    <2>3. \A u \in Task : JobState(u)' = IF u = t THEN "ran" ELSE JobState(u)
      BY <1>3, <2>1 DEF Launch, JobState, Inv, TypeOK
    <2>4. toFire[t].payload = askedFor[t]
      BY <1>3 DEF Launch, Inv, AskedInv, Says
    <2>5. Jobs!Run(t)
      BY <1>3, <2>1, <2>2, <2>3, <2>4 DEF Launch, Jobs!Run, JobState, Inv, TypeOK
    <2>6. QED
      BY <2>5 DEF Jobs!Next
  <1>4. ASSUME NEW t \in Task, Launch(t), t \notin HandledTask PROVE Jobs!Next
    <2>1. started[t] = 0 /\ t \in used /\ db[t] = None
      BY <1>4 DEF Launch, Inv, OnceInv, Consumed
    <2>2. Dropped({t})
      BY <1>4, <2>1 DEF Launch, JobState, Inv, TypeOK
    <2>3. QED
      BY <1>0, <2>2
  <1>5. ASSUME Crash PROVE Jobs!Next
    <2> DEFINE S == {u \in Task : toFire[u] # None}
    <2>1. \A u \in S : started[u] = 0 /\ u \in used /\ db[u] = None
      BY DEF Inv, OnceInv, Consumed
    <2>2. Dropped(S)
      BY <1>5, <2>1 DEF Crash, JobState, Inv, TypeOK, histVars
    <2>3. QED
      BY <1>0, <2>2
  <1>6. QED
    BY <1>1, <1>2, <1>3, <1>4, <1>5

\* Every step of the scheduler is a step of DeferredJobs or a stutter.
LEMMA ImplementsStep == Inv /\ [Next]_vars => [Jobs!Next]_(Jobs!vars)
  <1> SUFFICES ASSUME Inv, [Next]_vars PROVE Jobs!Next \/ UNCHANGED Jobs!vars
    OBVIOUS
  <1>1. ASSUME NEW c \in Client, CallerBegin(c) PROVE Jobs!Next \/ UNCHANGED Jobs!vars
    <2>1. ASSUME NEW t \in Task, UpdateGet(c, t) \/ RescheduleGet(c, t)
          PROVE  UNCHANGED Jobs!vars
      BY <2>1, SilentStep DEF UpdateGet, RescheduleGet, loopVars, histVars
    <2>2. QED
      BY <1>1, <2>1, RequestStep, LeaveStep DEF CallerBegin
  <1>2. ASSUME NEW c \in Client, CallerFinish(c) PROVE Jobs!Next \/ UNCHANGED Jobs!vars
    <2>1. WakeScheduler(c) => UNCHANGED Jobs!vars
      BY SilentStep DEF WakeScheduler, loopVars
    <2>2. QED
      BY <1>2, <2>1, RequestStep DEF CallerFinish
  <1>3. ASSUME LoopStep PROVE Jobs!Next \/ UNCHANGED Jobs!vars
    <2>1. FireLock \/ FireUnlock \/ LaunchDone \/ SleepLock \/ TimerReset
          \/ SelectNotify \/ SelectTimer \/ SelectDone => UNCHANGED Jobs!vars
      BY SilentStep DEF FireLock, FireUnlock, LaunchDone, SleepLock, TimerReset,
           SelectNotify, SelectTimer, SelectDone, callVars, histVars
    <2>2. ASSUME NEW t \in Task, SleepVisit(t) PROVE UNCHANGED Jobs!vars
      BY <2>2, SilentStep DEF SleepVisit, callVars, histVars
    <2>3. QED
      BY <1>3, <2>1, <2>2, LeaveStep DEF LoopStep
  <1>4. ASSUME PreInitScheduler \/ StartGlobalScheduler \/ Cancel \/ UNCHANGED vars
        PROVE  UNCHANGED Jobs!vars
    BY <1>4, SilentStep
      DEF PreInitScheduler, StartGlobalScheduler, Cancel, vars, loopVars, histVars
  <1>5. ASSUME Tick PROVE Jobs!Next
    <2>1. \A u \in Task : JobState(u)' = JobState(u)
      BY <1>5 DEF Tick, JobState, loopVars, histVars
    <2>2. Jobs!Pass
      BY <1>5, <2>1 DEF Tick, Jobs!Pass, histVars
    <2>3. QED
      BY <2>2 DEF Jobs!Next
  <1>6. QED
    BY <1>1, <1>2, <1>3, <1>4, <1>5, LeaveStep DEF Next

\* The scheduler implements DeferredJobs, for every set of tasks, callers and
\* payloads: each launch, grant, removal and crash is one of its steps.
THEOREM ImplementsJobs == Spec => ImplementsDeferredJobs
  <1>1. Init => Jobs!Init
    BY DEF Init, Jobs!Init, JobState
  <1>2. QED
    BY <1>1, ImplementsStep, Invariance, PTL DEF Spec, Jobs!Spec, ImplementsDeferredJobs
=============================================================================
