----------------------- MODULE HarnessSupervisor_proofs -----------------------
(* Theorems about HarnessSupervisor, for every set of ids, calls, monitors   *)
(* and processes and every cap on restart attempts.                          *)
EXTENDS HarnessSupervisor, TLAPS

USE ThreadKinds, AttemptsAssumption, NoneAssumption DEF Threads

\* Every variable starts with its type.
LEMMA TypeInit == Init => TypeOK
<1> SUFFICES ASSUME Init PROVE TypeOK
  OBVIOUS
<1> USE DEF TypeOK, Threads, CallerPC, SpawnPC, MonitorPC
<1>1. \A c \in Callers : pc[c] = "idle"
  BY DEF Init
<1>2. \A m \in Monitors : pc[m] = "unborn"
  BY ThreadKinds DEF Init
<1>3. \A t \in Threads : pc[t] \in {"idle", "unborn"}
  BY <1>1, <1>2
<1>4. pc \in [Threads -> CallerPC \cup SpawnPC \cup MonitorPC]
  BY DEF Init
<1>5. attempts \in [Monitors -> 0 .. MaxAttempts]
  BY AttemptsAssumption DEF Init
<1>6. QED BY <1>1, <1>2, <1>3, <1>4, <1>5 DEF Init

\* Every step keeps the types, and which places callers and monitors can be in.
LEMMA TypeStep == TypeOK /\ [Next]_vars => TypeOK'
<1> USE DEF TypeOK, Threads, CallerPC, SpawnPC, MonitorPC
<1> SUFFICES ASSUME TypeOK, [Next]_vars PROVE TypeOK'
  OBVIOUS
<1> USE DEF Goto, shared, history
<1>1. ASSUME NEW t \in Threads, SpawnFails(t) PROVE TypeOK'
  BY <1>1 DEF SpawnFails, SpawnErr
<1>2. ASSUME NEW t \in Threads, SpawnChild(t) PROVE TypeOK'
  BY <1>2 DEF SpawnChild
<1>3. ASSUME NEW t \in Threads, UnflagStopping(t) PROVE TypeOK'
  BY <1>3 DEF UnflagStopping
<1>4. ASSUME NEW t \in Threads, CheckShutdown(t) PROVE TypeOK'
  BY <1>4 DEF CheckShutdown
<1>5. ASSUME NEW t \in Threads, InsertChild(t) PROVE TypeOK'
  BY <1>5 DEF InsertChild, SpawnOk
<1>6. ASSUME NEW t \in Threads, KillLate(t) PROVE TypeOK'
  BY <1>6 DEF KillLate, SpawnErr
<1>7. ASSUME NEW c \in Callers, NEW i \in Ids, CallStart(c, i) PROVE TypeOK'
  BY <1>7 DEF CallStart
<1>8. ASSUME NEW c \in Callers, NEW i \in Ids, CallStop(c, i) PROVE TypeOK'
  BY <1>8 DEF CallStop
<1>9. ASSUME NEW c \in Callers, CallStopAll(c) PROVE TypeOK'
  BY <1>9 DEF CallStopAll
<1>10. ASSUME NEW c \in Callers, NEW m \in Monitors, StartMonitor(c, m)
       PROVE TypeOK'
  BY <1>10 DEF StartMonitor
<1>11. ASSUME NEW c \in Callers, TakeChild(c) PROVE TypeOK'
  BY <1>11 DEF TakeChild
<1>12. ASSUME NEW c \in Callers, FinishStop(c) PROVE TypeOK'
  BY <1>12 DEF FinishStop
<1>13. ASSUME NEW c \in Callers, LockForDrain(c) PROVE TypeOK'
  BY <1>13 DEF LockForDrain
<1>14. ASSUME NEW c \in Callers, NEW i \in Ids, DrainOne(c, i) PROVE TypeOK'
  BY <1>14 DEF DrainOne
<1>15. ASSUME NEW c \in Callers, DrainDone(c) PROVE TypeOK'
  BY <1>15 DEF DrainDone
<1>16. ASSUME NEW m \in Monitors, Monitor(m) PROVE TypeOK'
  <2>1. CASE \/ LoadShuttingDown(m, "pollFlag", "pollStop")
             \/ LoadShuttingDown(m, "exitFlag", "exitStop")
             \/ LoadShuttingDown(m, "delayFlag", "delayStop")
    BY <2>1 DEF LoadShuttingDown
  <2>2. CASE \/ IsStopping(m, "pollStop", "poll")
             \/ IsStopping(m, "exitStop", "backoff")
             \/ IsStopping(m, "delayStop", "spawn")
    BY <2>2 DEF IsStopping
  <2>3. CASE PollAbsent(m) \/ PollRunning(m)
    BY <2>3 DEF PollAbsent, PollRunning
  <2>4. CASE PollExited(m)
    BY <2>4 DEF PollExited
  <2>5. CASE NextDelay(m)
    <3>1. PICK elapsed \in BOOLEAN :
            /\ AttemptsUsed(m, elapsed) < MaxAttempts
            /\ attempts' = [attempts EXCEPT
                             ![m] = AttemptsUsed(m, elapsed) + 1]
      BY <2>5 DEF NextDelay
    <3>2. AttemptsUsed(m, elapsed) \in 0 .. MaxAttempts
      BY DEF AttemptsUsed
    <3>3. attempts' \in [Monitors -> 0 .. MaxAttempts]
      BY <3>1, <3>2
    <3>4. QED BY <2>5, <3>3 DEF NextDelay
  <2>6. CASE GiveUp(m)
    <3>1. PICK elapsed \in BOOLEAN :
            /\ AttemptsUsed(m, elapsed) >= MaxAttempts
            /\ attempts' = [attempts EXCEPT
                             ![m] = AttemptsUsed(m, elapsed)]
      BY <2>6 DEF GiveUp
    <3>2. AttemptsUsed(m, elapsed) \in 0 .. MaxAttempts
      BY DEF AttemptsUsed
    <3>3. attempts' \in [Monitors -> 0 .. MaxAttempts]
      BY <3>1, <3>2
    <3>4. QED BY <2>6, <3>3 DEF GiveUp
  <2>7. QED BY <1>16, <2>1, <2>2, <2>3, <2>4, <2>5, <2>6 DEF Monitor
<1>17. ASSUME NEW p \in Pids, Crash(p) PROVE TypeOK'
  BY <1>17 DEF Crash
<1>18. CASE UNCHANGED vars
  BY <1>18 DEF vars
<1>19. QED
  BY <1>1, <1>2, <1>3, <1>4, <1>5, <1>6, <1>7, <1>8, <1>9, <1>10, <1>11,
     <1>12, <1>13, <1>14, <1>15, <1>16, <1>17, <1>18
     DEF Next, SpawnProcess, Call, Caller

\* The types of HarnessSupervisor's variables, and which places callers and
\* monitors can be in.
THEOREM Typing == Spec => []TypeOK
BY TypeInit, TypeStep, PTL DEF Spec

-----------------------------------------------------------------------------
(* The parts of the inductive invariant of the supervisor's custody of its   *)
(* processes.                                                                *)

\* The children mutex is held exactly by the thread inside its critical
\* section.
MutexInv == \A t \in Threads : pc[t] \in {"insert", "drain"} <=> lockHolder = t

\* A thread has a Child of its own between a spawn and the insert or kill, and
\* between taking a child and finishing the stop.
Keeping == {"unflag", "check", "insert", "kill"}
HandleInv ==
  \A t \in Threads :
    /\ pc[t] \in Keeping => held[t] \in Pids
    /\ held[t] # NoPid => pc[t] \in Keeping \cup {"finishStop"}

\* After stop_all the flag stays up, the map stays empty, and no thread is
\* past the check of the flag.
DrainInv ==
  /\ \A c \in Callers :
       pc[c] \in {"drainLock", "drain", "stoppedAll"} => shuttingDown
  /\ StopAllReturned => /\ \A i \in Ids : children[i] = NoPid
                        /\ \A t \in Threads : pc[t] # "insert"

\* Mutual exclusion on the map of children.
LEMMA MutexStep == TypeOK /\ MutexInv /\ [Next]_vars => MutexInv'
<1> SUFFICES ASSUME TypeOK, MutexInv, [Next]_vars PROVE MutexInv'
  OBVIOUS
<1> USE DEF Goto, shared, history, TypeOK, MutexInv
<1>1. ASSUME NEW t \in Threads, SpawnFails(t) PROVE MutexInv'
  BY <1>1 DEF SpawnFails, SpawnErr
<1>2. ASSUME NEW t \in Threads, SpawnChild(t) PROVE MutexInv'
  BY <1>2 DEF SpawnChild
<1>3. ASSUME NEW t \in Threads, UnflagStopping(t) PROVE MutexInv'
  BY <1>3 DEF UnflagStopping
<1>4. ASSUME NEW t \in Threads, CheckShutdown(t) PROVE MutexInv'
  BY <1>4 DEF CheckShutdown
<1>5. ASSUME NEW t \in Threads, InsertChild(t) PROVE MutexInv'
  BY <1>5 DEF InsertChild, SpawnOk
<1>6. ASSUME NEW t \in Threads, KillLate(t) PROVE MutexInv'
  BY <1>6 DEF KillLate, SpawnErr
<1>7. ASSUME NEW c \in Callers, NEW i \in Ids, CallStart(c, i) PROVE MutexInv'
  BY <1>7 DEF CallStart
<1>8. ASSUME NEW c \in Callers, NEW i \in Ids, CallStop(c, i) PROVE MutexInv'
  BY <1>8 DEF CallStop
<1>9. ASSUME NEW c \in Callers, CallStopAll(c) PROVE MutexInv'
  BY <1>9 DEF CallStopAll
<1>10. ASSUME NEW c \in Callers, NEW m \in Monitors, StartMonitor(c, m)
      PROVE MutexInv'
  BY <1>10 DEF StartMonitor
<1>11. ASSUME NEW c \in Callers, TakeChild(c) PROVE MutexInv'
  BY <1>11 DEF TakeChild
<1>12. ASSUME NEW c \in Callers, FinishStop(c) PROVE MutexInv'
  BY <1>12 DEF FinishStop
<1>13. ASSUME NEW c \in Callers, LockForDrain(c) PROVE MutexInv'
  BY <1>13 DEF LockForDrain
<1>14. ASSUME NEW c \in Callers, NEW i \in Ids, DrainOne(c, i) PROVE MutexInv'
  BY <1>14 DEF DrainOne
<1>15. ASSUME NEW c \in Callers, DrainDone(c) PROVE MutexInv'
  BY <1>15 DEF DrainDone
<1>16. ASSUME NEW m \in Monitors, Monitor(m) PROVE MutexInv'
  BY <1>16
      DEF Monitor, LoadShuttingDown, IsStopping, PollAbsent,
          PollRunning, PollExited, NextDelay, GiveUp
<1>17. ASSUME NEW p \in Pids, Crash(p) PROVE MutexInv'
  BY <1>17 DEF Crash
<1>18. CASE UNCHANGED vars
  BY <1>18 DEF vars
<1>19. QED
  BY <1>1, <1>2, <1>3, <1>4, <1>5, <1>6, <1>7, <1>8, <1>9,
     <1>10, <1>11, <1>12, <1>13, <1>14, <1>15, <1>16, <1>17, <1>18
     DEF Next, SpawnProcess, Call, Caller

\* Child handles outside the map are where the code keeps them.
LEMMA HandleStep == TypeOK /\ HandleInv /\ [Next]_vars => HandleInv'
<1> SUFFICES ASSUME TypeOK, HandleInv, [Next]_vars PROVE HandleInv'
  OBVIOUS
<1> USE DEF Goto, shared, history, TypeOK, HandleInv, Keeping
<1>1. ASSUME NEW t \in Threads, SpawnFails(t) PROVE HandleInv'
  BY <1>1 DEF SpawnFails, SpawnErr
<1>2. ASSUME NEW t \in Threads, SpawnChild(t) PROVE HandleInv'
  BY <1>2 DEF SpawnChild
<1>3. ASSUME NEW t \in Threads, UnflagStopping(t) PROVE HandleInv'
  BY <1>3 DEF UnflagStopping
<1>4. ASSUME NEW t \in Threads, CheckShutdown(t) PROVE HandleInv'
  BY <1>4 DEF CheckShutdown
<1>5. ASSUME NEW t \in Threads, InsertChild(t) PROVE HandleInv'
  BY <1>5 DEF InsertChild, SpawnOk
<1>6. ASSUME NEW t \in Threads, KillLate(t) PROVE HandleInv'
  BY <1>6 DEF KillLate, SpawnErr
<1>7. ASSUME NEW c \in Callers, NEW i \in Ids, CallStart(c, i)
      PROVE HandleInv'
  BY <1>7 DEF CallStart
<1>8. ASSUME NEW c \in Callers, NEW i \in Ids, CallStop(c, i) PROVE HandleInv'
  BY <1>8 DEF CallStop
<1>9. ASSUME NEW c \in Callers, CallStopAll(c) PROVE HandleInv'
  BY <1>9 DEF CallStopAll
<1>10. ASSUME NEW c \in Callers, NEW m \in Monitors, StartMonitor(c, m)
      PROVE HandleInv'
  BY <1>10 DEF StartMonitor
<1>11. ASSUME NEW c \in Callers, TakeChild(c) PROVE HandleInv'
  BY <1>11 DEF TakeChild
<1>12. ASSUME NEW c \in Callers, FinishStop(c) PROVE HandleInv'
  BY <1>12 DEF FinishStop
<1>13. ASSUME NEW c \in Callers, LockForDrain(c) PROVE HandleInv'
  BY <1>13 DEF LockForDrain
<1>14. ASSUME NEW c \in Callers, NEW i \in Ids, DrainOne(c, i)
      PROVE HandleInv'
  BY <1>14 DEF DrainOne
<1>15. ASSUME NEW c \in Callers, DrainDone(c) PROVE HandleInv'
  BY <1>15 DEF DrainDone
<1>16. ASSUME NEW m \in Monitors, Monitor(m) PROVE HandleInv'
  BY <1>16
      DEF Monitor, LoadShuttingDown, IsStopping, PollAbsent,
          PollRunning, PollExited, NextDelay, GiveUp
<1>17. ASSUME NEW p \in Pids, Crash(p) PROVE HandleInv'
  BY <1>17 DEF Crash
<1>18. CASE UNCHANGED vars
  BY <1>18 DEF vars
<1>19. QED
  BY <1>1, <1>2, <1>3, <1>4, <1>5, <1>6, <1>7, <1>8, <1>9,
     <1>10, <1>11, <1>12, <1>13, <1>14, <1>15, <1>16, <1>17, <1>18
     DEF Next, SpawnProcess, Call, Caller

\* stop_all's drain is final: no insert follows it.
LEMMA DrainStep == TypeOK /\ MutexInv /\ DrainInv /\ [Next]_vars => DrainInv'
<1> SUFFICES ASSUME TypeOK, MutexInv, DrainInv, [Next]_vars PROVE DrainInv'
  OBVIOUS
<1> USE DEF Goto, shared, history, TypeOK, MutexInv, DrainInv, StopAllReturned
<1>1. ASSUME NEW t \in Threads, SpawnFails(t) PROVE DrainInv'
  BY <1>1 DEF SpawnFails, SpawnErr
<1>2. ASSUME NEW t \in Threads, SpawnChild(t) PROVE DrainInv'
  BY <1>2 DEF SpawnChild
<1>3. ASSUME NEW t \in Threads, UnflagStopping(t) PROVE DrainInv'
  BY <1>3 DEF UnflagStopping
<1>4. ASSUME NEW t \in Threads, CheckShutdown(t) PROVE DrainInv'
  BY <1>4 DEF CheckShutdown
<1>5. ASSUME NEW t \in Threads, InsertChild(t) PROVE DrainInv'
  BY <1>5 DEF InsertChild, SpawnOk
<1>6. ASSUME NEW t \in Threads, KillLate(t) PROVE DrainInv'
  BY <1>6 DEF KillLate, SpawnErr
<1>7. ASSUME NEW c \in Callers, NEW i \in Ids, CallStart(c, i) PROVE DrainInv'
  BY <1>7 DEF CallStart
<1>8. ASSUME NEW c \in Callers, NEW i \in Ids, CallStop(c, i) PROVE DrainInv'
  BY <1>8 DEF CallStop
<1>9. ASSUME NEW c \in Callers, CallStopAll(c) PROVE DrainInv'
  BY <1>9 DEF CallStopAll
<1>10. ASSUME NEW c \in Callers, NEW m \in Monitors, StartMonitor(c, m)
      PROVE DrainInv'
  BY <1>10 DEF StartMonitor
<1>11. ASSUME NEW c \in Callers, TakeChild(c) PROVE DrainInv'
  BY <1>11 DEF TakeChild
<1>12. ASSUME NEW c \in Callers, FinishStop(c) PROVE DrainInv'
  BY <1>12 DEF FinishStop
<1>13. ASSUME NEW c \in Callers, LockForDrain(c) PROVE DrainInv'
  BY <1>13 DEF LockForDrain
<1>14. ASSUME NEW c \in Callers, NEW i \in Ids, DrainOne(c, i) PROVE DrainInv'
  BY <1>14 DEF DrainOne
<1>15. ASSUME NEW c \in Callers, DrainDone(c) PROVE DrainInv'
  BY <1>15 DEF DrainDone
<1>16. ASSUME NEW m \in Monitors, Monitor(m) PROVE DrainInv'
  BY <1>16
      DEF Monitor, LoadShuttingDown, IsStopping, PollAbsent,
          PollRunning, PollExited, NextDelay, GiveUp
<1>17. ASSUME NEW p \in Pids, Crash(p) PROVE DrainInv'
  BY <1>17 DEF Crash
<1>18. CASE UNCHANGED vars
  BY <1>18 DEF vars
<1>19. QED
  BY <1>1, <1>2, <1>3, <1>4, <1>5, <1>6, <1>7, <1>8, <1>9,
     <1>10, <1>11, <1>12, <1>13, <1>14, <1>15, <1>16, <1>17, <1>18
     DEF Next, SpawnProcess, Call, Caller

\* Every running process is tracked, but for those in S.
TrackedBut(S) == \A p \in Pids \ S : proc[p] = "alive" => Tracked(p)

\* No step loses a running process.
LEMMA TrackStep ==
  ASSUME NEW S, TypeOK, HandleInv, TrackedBut(S), [Next]_vars
  PROVE  TrackedBut(S)'
<1> USE DEF Goto, shared, history, TypeOK, HandleInv, Keeping, TrackedBut,
           Tracked, InMap, HeldBySome
<1>1. ASSUME NEW t \in Threads, SpawnFails(t) PROVE TrackedBut(S)'
  BY <1>1 DEF SpawnFails, SpawnErr
<1>2. ASSUME NEW t \in Threads, SpawnChild(t) PROVE TrackedBut(S)'
  BY <1>2 DEF SpawnChild
<1>3. ASSUME NEW t \in Threads, UnflagStopping(t) PROVE TrackedBut(S)'
  BY <1>3 DEF UnflagStopping
<1>4. ASSUME NEW t \in Threads, CheckShutdown(t) PROVE TrackedBut(S)'
  BY <1>4 DEF CheckShutdown
<1>5. ASSUME NEW t \in Threads, InsertChild(t) PROVE TrackedBut(S)'
  BY <1>5 DEF InsertChild, SpawnOk
<1>6. ASSUME NEW t \in Threads, KillLate(t) PROVE TrackedBut(S)'
  BY <1>6 DEF KillLate, SpawnErr
<1>7. ASSUME NEW c \in Callers, NEW i \in Ids, CallStart(c, i)
      PROVE TrackedBut(S)'
  BY <1>7 DEF CallStart
<1>8. ASSUME NEW c \in Callers, NEW i \in Ids, CallStop(c, i)
      PROVE TrackedBut(S)'
  BY <1>8 DEF CallStop
<1>9. ASSUME NEW c \in Callers, CallStopAll(c) PROVE TrackedBut(S)'
  BY <1>9 DEF CallStopAll
<1>10. ASSUME NEW c \in Callers, NEW m \in Monitors, StartMonitor(c, m)
      PROVE TrackedBut(S)'
  BY <1>10 DEF StartMonitor
<1>11. ASSUME NEW c \in Callers, TakeChild(c) PROVE TrackedBut(S)'
  BY <1>11 DEF TakeChild
<1>12. ASSUME NEW c \in Callers, FinishStop(c) PROVE TrackedBut(S)'
  BY <1>12 DEF FinishStop
<1>13. ASSUME NEW c \in Callers, LockForDrain(c) PROVE TrackedBut(S)'
  BY <1>13 DEF LockForDrain
<1>14. ASSUME NEW c \in Callers, NEW i \in Ids, DrainOne(c, i)
      PROVE TrackedBut(S)'
  BY <1>14 DEF DrainOne
<1>15. ASSUME NEW c \in Callers, DrainDone(c) PROVE TrackedBut(S)'
  BY <1>15 DEF DrainDone
<1>16. ASSUME NEW m \in Monitors, Monitor(m) PROVE TrackedBut(S)'
  BY <1>16
      DEF Monitor, LoadShuttingDown, IsStopping, PollAbsent,
          PollRunning, PollExited, NextDelay, GiveUp
<1>17. ASSUME NEW p \in Pids, Crash(p) PROVE TrackedBut(S)'
  BY <1>17 DEF Crash
<1>18. CASE UNCHANGED vars
  BY <1>18 DEF vars
<1>19. QED
  BY <1>1, <1>2, <1>3, <1>4, <1>5, <1>6, <1>7, <1>8, <1>9,
     <1>10, <1>11, <1>12, <1>13, <1>14, <1>15, <1>16, <1>17, <1>18
     DEF Next, SpawnProcess, Call, Caller

\* The custody invariant: what the code keeps true of map, handles, mutex and
\* shutdown flag together.
CustodyInv == MutexInv /\ HandleInv /\ NoUntrackedProcess /\ DrainInv

\* The four parts hold together in every reachable state.
THEOREM Custody == Spec => []CustodyInv
<1>1. Init => CustodyInv
  <2> SUFFICES ASSUME Init PROVE CustodyInv
    OBVIOUS
  <2>1. \A t \in Threads : pc[t] \in {"idle", "unborn"}
    BY DEF Init
  <2>2. \A t \in Threads : held[t] = NoPid /\ lockHolder # t
    BY NoneAssumption DEF Init
  <2>3. QED
    BY <2>1, <2>2 DEF Init, CustodyInv, MutexInv, HandleInv, Keeping, DrainInv,
       StopAllReturned, NoUntrackedProcess
<1>2. TypeOK /\ CustodyInv /\ [Next]_vars => CustodyInv'
  <2> SUFFICES ASSUME TypeOK, CustodyInv, [Next]_vars PROVE CustodyInv'
    OBVIOUS
  <2>1. TrackedBut({}) BY DEF CustodyInv, NoUntrackedProcess, TrackedBut
  <2>2. TrackedBut({})' BY <2>1, TrackStep DEF CustodyInv
  <2>3. NoUntrackedProcess' BY <2>2 DEF NoUntrackedProcess, TrackedBut
  <2>4. QED BY <2>3, MutexStep, HandleStep, DrainStep DEF CustodyInv
<1>3. QED
  BY Typing, <1>1, <1>2, PTL DEF Spec

\* No running harness leaves the supervisor's reach, unless an insert drops
\* its entry.
THEOREM NoProcessLost == Spec => []NoUntrackedProcess
<1>1. CustodyInv => NoUntrackedProcess
  BY DEF CustodyInv
<1>2. QED
  BY Custody, <1>1, PTL

\* What a thread still has when stop_all has returned, it is about to kill.
LEMMA AfterDrain ==
  ASSUME HandleInv, DrainInv, StopAllReturned, NEW p \in Pids, Tracked(p)
  PROVE  Doomed(p) \/ p \in replaced
<1>1. \A i \in Ids : children[i] = NoPid
  BY DEF DrainInv
<1>2. p # NoPid
  BY NoneAssumption
<1>3. CASE HeldBySome(p)
  <2>1. PICK t \in Threads : held[t] = p BY <1>3 DEF HeldBySome
  <2>2. pc[t] \in {"unflag", "check", "insert", "kill", "finishStop"}
    BY <1>2, <2>1 DEF HandleInv, Keeping
  <2>3. pc[t] # "insert" BY DEF DrainInv
  <2>4. QED BY <2>1, <2>2, <2>3 DEF Doomed, HeldAt
<1>4. QED BY <1>1, <1>2, <1>3 DEF Tracked, InMap

\* The comment on the race of spawn_process with stop_all is right: whatever a
\* shutdown finds in flight is killed by the thread that has it.
THEOREM ShutdownSafe == Spec => []ShutdownCannotOrphan
<1>1. CustodyInv => ShutdownCannotOrphan
  BY AfterDrain DEF CustodyInv, NoUntrackedProcess, ShutdownCannotOrphan
<1>2. QED
  BY Custody, <1>1, PTL

\* What CallsReturn rests on: whoever holds the mutex needs nobody else to go on.
\* It is a thread with a child to insert under its id, or a call that drains.
THEOREM HolderGoesOn ==
  Spec => [](lockHolder # NoThread =>
               \/ /\ pc[lockHolder] = "insert"
                  /\ held[lockHolder] \in Pids
               \/ lockHolder \in Callers /\ pc[lockHolder] = "drain")
<1>1. TypeOK /\ CustodyInv =>
        (lockHolder # NoThread =>
           \/ /\ pc[lockHolder] = "insert"
              /\ held[lockHolder] \in Pids
           \/ lockHolder \in Callers /\ pc[lockHolder] = "drain")
  <2> SUFFICES ASSUME TypeOK, CustodyInv, lockHolder # NoThread
               PROVE  \/ /\ pc[lockHolder] = "insert"
                         /\ held[lockHolder] \in Pids
                      \/ lockHolder \in Callers /\ pc[lockHolder] = "drain"
    OBVIOUS
  <2>1. lockHolder \in Threads BY DEF TypeOK
  <2>2. pc[lockHolder] \in {"insert", "drain"}
    BY <2>1 DEF CustodyInv, MutexInv
  <2>3. lockHolder \in Monitors => pc[lockHolder] # "drain"
    BY DEF TypeOK, MonitorPC, SpawnPC
  <2>4. QED
    BY <2>1, <2>2, <2>3 DEF CustodyInv, HandleInv, Keeping, Threads
<1>2. QED
  BY Typing, Custody, <1>1, PTL

-----------------------------------------------------------------------------
(* An id that is started once.                                              *)

\* Where a thread may still insert a child for its id, now or after restarts.
Live == SpawnPC \cup {"startMonitor", "pollFlag", "pollStop", "poll",
                      "exitFlag", "exitStop", "backoff", "delayFlag",
                      "delayStop"}
\* Where a thread has taken it on itself to put a child into the map.
Restarting == SpawnPC \cup {"exitFlag", "exitStop", "backoff", "delayFlag",
                            "delayStop"}

\* An id started at most once has at most one live thread, and no child in the
\* map while that thread is about to put one there.
OneStarterInv ==
  \A i \in Ids \ startedAgain :
    /\ i \notin started => \A t \in Threads : arg[t] = i => pc[t] \notin Live
    /\ i \notin started => children[i] = NoPid
    /\ \A t, u \in Threads :
         (arg[t] = i /\ arg[u] = i /\ pc[t] \in Live /\ pc[u] \in Live)
           => t = u
    /\ \A t \in Threads :
         (arg[t] = i /\ pc[t] \in Restarting) => children[i] = NoPid

\* LockFileNamesOwnedChild, with the owner working on that very id.
LockFileInv ==
  \A i \in Ids \ startedAgain :
    lockFile[i] # NoPid =>
      \/ lockFile[i] = children[i]
      \/ \E t \in Threads :
           /\ held[t] = lockFile[i]
           /\ arg[t] = i
           /\ pc[t] \in Keeping \cup {"finishStop"}

\* Start, restart, stop and shutdown never make a second live thread.
LEMMA OneStarterStep == TypeOK /\ OneStarterInv /\ [Next]_vars => OneStarterInv'
<1> SUFFICES ASSUME TypeOK, OneStarterInv, [Next]_vars PROVE OneStarterInv'
  OBVIOUS
<1> USE DEF Goto, shared, history, TypeOK, OneStarterInv, Live, Restarting,
           SpawnPC
<1>1. ASSUME NEW t \in Threads, SpawnFails(t) PROVE OneStarterInv'
  BY <1>1 DEF SpawnFails, SpawnErr
<1>2. ASSUME NEW t \in Threads, SpawnChild(t) PROVE OneStarterInv'
  BY <1>2 DEF SpawnChild
<1>3. ASSUME NEW t \in Threads, UnflagStopping(t) PROVE OneStarterInv'
  BY <1>3 DEF UnflagStopping
<1>4. ASSUME NEW t \in Threads, CheckShutdown(t) PROVE OneStarterInv'
  BY <1>4 DEF CheckShutdown
<1>5. ASSUME NEW t \in Threads, InsertChild(t) PROVE OneStarterInv'
  BY <1>5 DEF InsertChild, SpawnOk
<1>6. ASSUME NEW t \in Threads, KillLate(t) PROVE OneStarterInv'
  BY <1>6 DEF KillLate, SpawnErr
<1>7. ASSUME NEW c \in Callers, NEW i \in Ids, CallStart(c, i)
      PROVE OneStarterInv'
  BY <1>7 DEF CallStart
<1>8. ASSUME NEW c \in Callers, NEW i \in Ids, CallStop(c, i)
      PROVE OneStarterInv'
  BY <1>8 DEF CallStop
<1>9. ASSUME NEW c \in Callers, CallStopAll(c) PROVE OneStarterInv'
  BY <1>9 DEF CallStopAll
<1>10. ASSUME NEW c \in Callers, NEW m \in Monitors, StartMonitor(c, m)
      PROVE OneStarterInv'
  BY <1>10 DEF StartMonitor
<1>11. ASSUME NEW c \in Callers, TakeChild(c) PROVE OneStarterInv'
  BY <1>11 DEF TakeChild
<1>12. ASSUME NEW c \in Callers, FinishStop(c) PROVE OneStarterInv'
  BY <1>12 DEF FinishStop
<1>13. ASSUME NEW c \in Callers, LockForDrain(c) PROVE OneStarterInv'
  BY <1>13 DEF LockForDrain
<1>14. ASSUME NEW c \in Callers, NEW i \in Ids, DrainOne(c, i)
      PROVE OneStarterInv'
  BY <1>14 DEF DrainOne
<1>15. ASSUME NEW c \in Callers, DrainDone(c) PROVE OneStarterInv'
  BY <1>15 DEF DrainDone
<1>16. ASSUME NEW m \in Monitors, Monitor(m) PROVE OneStarterInv'
  BY <1>16
      DEF Monitor, LoadShuttingDown, IsStopping, PollAbsent,
          PollRunning, PollExited, NextDelay, GiveUp
<1>17. ASSUME NEW p \in Pids, Crash(p) PROVE OneStarterInv'
  BY <1>17 DEF Crash
<1>18. CASE UNCHANGED vars
  BY <1>18 DEF vars
<1>19. QED
  BY <1>1, <1>2, <1>3, <1>4, <1>5, <1>6, <1>7, <1>8, <1>9,
     <1>10, <1>11, <1>12, <1>13, <1>14, <1>15, <1>16, <1>17, <1>18
     DEF Next, SpawnProcess, Call, Caller

\* A lock file is removed with the child it names.
LEMMA LockFileStep ==
  TypeOK /\ HandleInv /\ OneStarterInv /\ LockFileInv /\ [Next]_vars
    => LockFileInv'
<1> SUFFICES ASSUME TypeOK, HandleInv, OneStarterInv, LockFileInv, [Next]_vars
             PROVE  LockFileInv'
  OBVIOUS
<1> USE DEF Goto, shared, history, TypeOK, HandleInv, OneStarterInv,
           LockFileInv, Keeping, Restarting, SpawnPC
<1>1. ASSUME NEW t \in Threads, SpawnFails(t) PROVE LockFileInv'
  BY <1>1 DEF SpawnFails, SpawnErr
<1>2. ASSUME NEW t \in Threads, SpawnChild(t) PROVE LockFileInv'
  BY <1>2 DEF SpawnChild
<1>3. ASSUME NEW t \in Threads, UnflagStopping(t) PROVE LockFileInv'
  BY <1>3 DEF UnflagStopping
<1>4. ASSUME NEW t \in Threads, CheckShutdown(t) PROVE LockFileInv'
  BY <1>4 DEF CheckShutdown
<1>5. ASSUME NEW t \in Threads, InsertChild(t) PROVE LockFileInv'
  BY <1>5 DEF InsertChild, SpawnOk
<1>6. ASSUME NEW t \in Threads, KillLate(t) PROVE LockFileInv'
  BY <1>6 DEF KillLate, SpawnErr
<1>7. ASSUME NEW c \in Callers, NEW i \in Ids, CallStart(c, i)
      PROVE LockFileInv'
  BY <1>7 DEF CallStart
<1>8. ASSUME NEW c \in Callers, NEW i \in Ids, CallStop(c, i)
      PROVE LockFileInv'
  BY <1>8 DEF CallStop
<1>9. ASSUME NEW c \in Callers, CallStopAll(c) PROVE LockFileInv'
  BY <1>9 DEF CallStopAll
<1>10. ASSUME NEW c \in Callers, NEW m \in Monitors, StartMonitor(c, m)
      PROVE LockFileInv'
  BY <1>10 DEF StartMonitor
<1>11. ASSUME NEW c \in Callers, TakeChild(c) PROVE LockFileInv'
  BY <1>11 DEF TakeChild
<1>12. ASSUME NEW c \in Callers, FinishStop(c) PROVE LockFileInv'
  BY <1>12 DEF FinishStop
<1>13. ASSUME NEW c \in Callers, LockForDrain(c) PROVE LockFileInv'
  BY <1>13 DEF LockForDrain
<1>14. ASSUME NEW c \in Callers, NEW i \in Ids, DrainOne(c, i)
      PROVE LockFileInv'
  BY <1>14 DEF DrainOne
<1>15. ASSUME NEW c \in Callers, DrainDone(c) PROVE LockFileInv'
  BY <1>15 DEF DrainDone
<1>16. ASSUME NEW m \in Monitors, Monitor(m) PROVE LockFileInv'
  BY <1>16
      DEF Monitor, LoadShuttingDown, IsStopping, PollAbsent,
          PollRunning, PollExited, NextDelay, GiveUp
<1>17. ASSUME NEW p \in Pids, Crash(p) PROVE LockFileInv'
  BY <1>17 DEF Crash
<1>18. CASE UNCHANGED vars
  BY <1>18 DEF vars
<1>19. QED
  BY <1>1, <1>2, <1>3, <1>4, <1>5, <1>6, <1>7, <1>8, <1>9,
     <1>10, <1>11, <1>12, <1>13, <1>14, <1>15, <1>16, <1>17, <1>18
     DEF Next, SpawnProcess, Call, Caller

\* What the code keeps true of an id that is started once.
SingleStartInv == HandleInv /\ OneStarterInv /\ LockFileInv

\* One start makes one live thread, an empty entry for it to fill and a lock
\* file that follows the child, in every reachable state.
THEOREM SingleStart == Spec => []SingleStartInv
<1>1. Init => SingleStartInv
  <2> SUFFICES ASSUME Init PROVE SingleStartInv
    OBVIOUS
  <2>1. \A t \in Threads : pc[t] \in {"idle", "unborn"}
    BY DEF Init
  <2>2. \A t \in Threads : held[t] = NoPid /\ arg[t] \notin Ids
    BY NoneAssumption DEF Init
  <2>3. QED
    BY <2>1, <2>2 DEF Init, SingleStartInv, HandleInv, Keeping, OneStarterInv,
       Live, Restarting, SpawnPC, LockFileInv
<1>2. TypeOK /\ SingleStartInv /\ [Next]_vars => SingleStartInv'
  BY HandleStep, OneStarterStep, LockFileStep DEF SingleStartInv
<1>3. QED
  BY Typing, <1>1, <1>2, PTL DEF Spec

\* A second start is the only way to make an insert drop a running child.
THEOREM SingleStartSafe == Spec => []SingleStartNeverReplaces
<1>1. TypeOK /\ SingleStartInv => SingleStartNeverReplaces
  BY DEF TypeOK, SingleStartInv, OneStarterInv, SingleStartNeverReplaces,
     Restarting, SpawnPC
<1>2. QED
  BY Typing, SingleStart, <1>1, PTL

\* For an id started once no lock file is left naming a process that is
\* neither supervised nor about to be killed.
THEOREM LockFileSafe == Spec => []LockFileNamesOwnedChild
<1>1. SingleStartInv => LockFileNamesOwnedChild
  BY DEF SingleStartInv, LockFileInv, LockFileNamesOwnedChild, HeldAt, Keeping
<1>2. QED
  BY SingleStart, <1>1, PTL

-----------------------------------------------------------------------------
(* The map as one atomic table.                                              *)

\* A child has been spawned, and one thread or one entry of the map owns it.
OwnerInv ==
  /\ \A t \in Threads : held[t] # NoPid => proc[held[t]] # "unborn"
  /\ \A i \in Ids : children[i] # NoPid => proc[children[i]] # "unborn"
  /\ \A t, u \in Threads : held[t] # NoPid /\ held[t] = held[u] => t = u
  /\ \A i, j \in Ids : children[i] # NoPid /\ children[i] = children[j] => i = j
  /\ \A t \in Threads, i \in Ids : held[t] # NoPid => held[t] # children[i]

\* A handle moves from the spawn to the map and from the map to a stop, and is
\* never copied.
LEMMA OwnerStep == TypeOK /\ HandleInv /\ OwnerInv /\ [Next]_vars => OwnerInv'
<1> SUFFICES ASSUME TypeOK, HandleInv, OwnerInv, [Next]_vars PROVE OwnerInv'
  OBVIOUS
<1> USE DEF TypeOK, HandleInv, OwnerInv, Keeping, shared, history
<1>1. ASSUME NEW t \in Threads, SpawnChild(t) PROVE OwnerInv'
  BY <1>1 DEF SpawnChild
<1>2. ASSUME NEW t \in Threads, InsertChild(t) PROVE OwnerInv'
  BY <1>2 DEF InsertChild
<1>3. ASSUME NEW t \in Threads, KillLate(t) PROVE OwnerInv'
  BY <1>3 DEF KillLate
<1>4. ASSUME NEW c \in Callers, TakeChild(c) PROVE OwnerInv'
  BY <1>4 DEF TakeChild
<1>5. ASSUME NEW c \in Callers, FinishStop(c) PROVE OwnerInv'
  BY <1>5 DEF FinishStop
<1>6. ASSUME NEW c \in Callers, NEW i \in Ids, DrainOne(c, i) PROVE OwnerInv'
  BY <1>6 DEF DrainOne
<1>7. ASSUME NEW m \in Monitors, PollExited(m) PROVE OwnerInv'
  BY <1>7 DEF PollExited
<1>8. ASSUME NEW p \in Pids, Crash(p) PROVE OwnerInv'
  BY <1>8 DEF Crash
<1>9. CASE UNCHANGED <<proc, children, held>>
  BY <1>9
<1>10. ASSUME NEW t \in Threads, SpawnProcess(t) PROVE OwnerInv'
  BY <1>1, <1>2, <1>3, <1>9, <1>10
     DEF SpawnProcess, SpawnFails, UnflagStopping, CheckShutdown, Goto
<1>11. ASSUME NEW c \in Callers, Call(c) \/ Caller(c) PROVE OwnerInv'
  BY <1>4, <1>5, <1>6, <1>9, <1>11
     DEF Call, CallStart, CallStop, CallStopAll, Caller, StartMonitor,
         LockForDrain, DrainDone
<1>12. ASSUME NEW m \in Monitors, Monitor(m) PROVE OwnerInv'
  BY <1>7, <1>9, <1>12
     DEF Monitor, Goto, LoadShuttingDown, IsStopping, PollAbsent, PollRunning,
         NextDelay, GiveUp
<1>13. QED
  BY <1>8, <1>9, <1>10, <1>11, <1>12 DEF Next, vars

\* A step of threads outside the critical sections, other than to the end of
\* stop_all, does not show in the table.
LEMMA Bystanders ==
  ASSUME TypeOK, MutexInv, NEW T \in SUBSET Threads,
         \A t \in T : /\ pc[t] \notin {"insert", "drain", "stoppedAll"}
                      /\ pc'[t] \notin {"insert", "drain", "stoppedAll"},
         \A t \in Threads \ T :
           pc'[t] = pc[t] /\ arg'[t] = arg[t] /\ held'[t] = held[t],
         UNCHANGED <<children, lockHolder>>
  PROVE  /\ entry' = entry
         /\ Inside("drain")' <=> Inside("drain")
         /\ StopAllReturned' <=> StopAllReturned
         /\ proc' = proc => life' = life
         /\ shuttingDown' = shuttingDown => phase' = phase
<1>1. lockHolder # NoThread => lockHolder \in Threads \ T
  BY DEF TypeOK, MutexInv
<1>2. Inside("drain")' <=> Inside("drain")
  BY <1>1 DEF Inside
<1>3. Inside("insert")' <=> Inside("insert")
  BY <1>1 DEF Inside
<1>4. StopAllReturned' <=> StopAllReturned
  BY DEF StopAllReturned
<1>5. Inside("insert") =>
        arg'[lockHolder] = arg[lockHolder] /\ held'[lockHolder] = held[lockHolder]
  BY <1>1 DEF Inside
<1>6. entry' = entry
  BY <1>2, <1>3, <1>5 DEF entry
<1>7. proc' = proc => life' = life
  BY <1>2 DEF life, InMap
<1>8. shuttingDown' = shuttingDown => phase' = phase
  BY <1>2, <1>4 DEF phase
<1> QED BY <1>2, <1>4, <1>6, <1>7, <1>8

\* While nobody has the mutex the table is the map.
Shown == lockHolder = NoThread => entry = children /\ life = proc

LEMMA Unlocked == TypeOK => Shown
<1> SUFFICES ASSUME TypeOK, lockHolder = NoThread PROVE entry = children /\ life = proc
  BY DEF Shown
<1>1. ~Inside("drain") /\ ~Inside("insert")
  BY DEF Inside
<1> QED BY <1>1 DEF TypeOK, entry, life

\* A process that a thread or nobody kills dies in the table, if it has not
\* died there with the drain.
LEMMA Dies ==
  ASSUME TypeOK, NEW p \in Pids, proc[p] # "unborn", proc' = [proc EXCEPT ![p] = "dead"],
         UNCHANGED <<entry, phase, children>>, Inside("drain")' <=> Inside("drain")
  PROVE  Table!Die(p) \/ UNCHANGED <<entry, life, phase>>
<1>1. life' = [life EXCEPT ![p] = "dead"]
  BY DEF TypeOK, life, InMap
<1>2. life \in [Pids -> {"unborn", "alive", "dead"}] /\ life[p] # "unborn"
  BY DEF TypeOK, life
<1> QED BY <1>1, <1>2 DEF Table!Die

\* What the code keeps true, of a state and of the one after it.
TableInv == TypeOK /\ MutexInv /\ HandleInv /\ DrainInv /\ OwnerInv

\* The threads' own steps: spawn_process.
LEMMA SpawnRefines ==
  ASSUME TableInv, TableInv', NEW t \in Threads, SpawnProcess(t)
  PROVE  [Table!Next]_<<entry, life, phase>>
<1> USE DEF TableInv, shared, history
<1>0. {t} \in SUBSET Threads
  OBVIOUS
<1>1. CASE SpawnFails(t) \/ UnflagStopping(t)
  <2>1. UNCHANGED <<proc, children, lockHolder, shuttingDown>>
    BY <1>1 DEF SpawnFails, UnflagStopping, Goto
  <2>2. /\ pc[t] \notin {"insert", "drain", "stoppedAll"}
        /\ pc'[t] \notin {"insert", "drain", "stoppedAll"}
        /\ \A u \in Threads \ {t} :
             pc'[u] = pc[u] /\ arg'[u] = arg[u] /\ held'[u] = held[u]
    BY <1>1 DEF SpawnFails, SpawnErr, UnflagStopping, Goto, TypeOK
  <2> QED BY <1>0, <2>1, <2>2, Bystanders
<1>2. CASE SpawnChild(t)
  <2>1. PICK p \in Pids : proc[p] = "unborn" /\ proc' = [proc EXCEPT ![p] = "alive"]
    BY <1>2 DEF SpawnChild
  <2>2. /\ pc[t] \notin {"insert", "drain", "stoppedAll"}
        /\ pc'[t] \notin {"insert", "drain", "stoppedAll"}
        /\ \A u \in Threads \ {t} :
             pc'[u] = pc[u] /\ arg'[u] = arg[u] /\ held'[u] = held[u]
        /\ UNCHANGED <<children, lockHolder, shuttingDown>>
    BY <1>2 DEF SpawnChild, TypeOK
  <2>3. UNCHANGED <<entry, phase>> /\ (Inside("drain")' <=> Inside("drain"))
    BY <1>0, <2>2, Bystanders
  <2>4. ~InMap(p) /\ ~InMap(p)'
    BY <2>1, <2>2 DEF InMap, OwnerInv, TypeOK
  <2>5. life[p] = "unborn" /\ life' \in [Pids -> {"unborn", "alive", "dead"}]
    BY <2>1, <2>4 DEF life, TypeOK
  <2>6. ASSUME NEW q \in Pids PROVE life'[q] = IF q = p THEN "alive" ELSE life[q]
    <3>1. InMap(q)' <=> InMap(q)
      BY <2>2 DEF InMap
    <3> QED BY <2>1, <2>3, <2>4, <3>1 DEF life, TypeOK
  <2>7. life' = [life EXCEPT ![p] = "alive"]
    BY <2>5, <2>6 DEF life
  <2> QED BY <2>3, <2>5, <2>7 DEF Table!Next, Table!Spawn
<1>3. CASE CheckShutdown(t) /\ shuttingDown
  <2>1. UNCHANGED <<proc, children, lockHolder, shuttingDown>>
    BY <1>3 DEF CheckShutdown
  <2>2. /\ pc[t] \notin {"insert", "drain", "stoppedAll"}
        /\ pc'[t] \notin {"insert", "drain", "stoppedAll"}
        /\ \A u \in Threads \ {t} :
             pc'[u] = pc[u] /\ arg'[u] = arg[u] /\ held'[u] = held[u]
    BY <1>3 DEF CheckShutdown, TypeOK
  <2> QED BY <1>0, <2>1, <2>2, Bystanders
<1>4. CASE CheckShutdown(t) /\ ~shuttingDown
  <2>1. /\ lockHolder = NoThread /\ lockHolder' = t /\ pc[t] = "check" /\ pc'[t] = "insert"
        /\ UNCHANGED <<proc, children, shuttingDown, arg, held>>
        /\ \A u \in Threads \ {t} : pc'[u] = pc[u]
    BY <1>4 DEF CheckShutdown, TypeOK
  <2>2. entry = children /\ life = proc
    BY <2>1, Unlocked DEF Shown
  <2>3. Inside("insert")' /\ ~Inside("drain")' /\ ~Inside("drain")
    BY <2>1 DEF Inside
  <2>4. entry' = [children EXCEPT ![arg[t]] = held[t]] /\ life' = proc
    BY <2>1, <2>3 DEF entry, life, TypeOK
  <2>5. phase = "open" /\ phase' = "open"
    BY <1>4, <2>1, <2>3 DEF phase, DrainInv, StopAllReturned
  <2>6. arg[t] \in Ids /\ held[t] \in Pids /\ held[t] # NoPid
    BY <2>1 DEF TypeOK, HandleInv, Keeping
  <2>7. life[held[t]] # "unborn" /\ held[t] \notin Table!Entered
    BY <2>2, <2>6 DEF OwnerInv, Table!Entered
  <2>8. Table!Enter(arg[t], held[t])
    BY <2>2, <2>4, <2>5, <2>7 DEF Table!Enter
  <2> QED BY <2>6, <2>8 DEF Table!Next
<1>5. CASE InsertChild(t)
  <2>1. /\ pc[t] = "insert" /\ lockHolder' = NoThread /\ lockHolder = t
        /\ children' = [children EXCEPT ![arg[t]] = held[t]]
        /\ UNCHANGED <<proc, shuttingDown>>
        /\ pc'[t] # "stoppedAll" /\ \A u \in Threads \ {t} : pc'[u] = pc[u]
    BY <1>5 DEF InsertChild, SpawnOk, MutexInv, TypeOK
  <2>2. entry' = children' /\ life' = proc'
    <3>1. TypeOK'
      OBVIOUS
    <3>2. Shown'
      BY <3>1, Unlocked, PTL
    <3> QED BY <2>1, <3>2 DEF Shown
  <2>3. Inside("insert") /\ ~Inside("drain") /\ ~Inside("drain")'
    BY <2>1 DEF Inside
  <2>4. entry = [children EXCEPT ![arg[t]] = held[t]] /\ life = proc
    BY <2>1, <2>3 DEF entry, life, TypeOK
  <2>5. phase' = phase
    BY <2>1, <2>3 DEF phase, StopAllReturned
  <2> QED BY <2>1, <2>2, <2>4, <2>5
<1>6. CASE KillLate(t)
  <2>1. /\ pc[t] \notin {"insert", "drain", "stoppedAll"}
        /\ pc'[t] \notin {"insert", "drain", "stoppedAll"}
        /\ \A u \in Threads \ {t} :
             pc'[u] = pc[u] /\ arg'[u] = arg[u] /\ held'[u] = held[u]
        /\ UNCHANGED <<children, lockHolder, shuttingDown>>
    BY <1>6 DEF KillLate, SpawnErr, TypeOK
  <2>2. UNCHANGED <<entry, phase>> /\ (Inside("drain")' <=> Inside("drain"))
    BY <1>0, <2>1, Bystanders
  <2>3. held[t] \in Pids /\ proc[held[t]] # "unborn"
    BY <1>6 DEF KillLate, HandleInv, OwnerInv, Keeping
  <2>4. proc' = [proc EXCEPT ![held[t]] = "dead"]
    BY <1>6 DEF KillLate
  <2>5. Table!Die(held[t]) \/ UNCHANGED <<entry, life, phase>>
    BY <2>1, <2>2, <2>3, <2>4, Dies
  <2> QED BY <2>3, <2>5 DEF Table!Next
<1> QED BY <1>1, <1>2, <1>3, <1>4, <1>5, <1>6 DEF SpawnProcess

\* stop, stop_all and the rest of start.
LEMMA CallRefines ==
  ASSUME TableInv, TableInv', NEW c \in Callers, Call(c) \/ Caller(c)
  PROVE  [Table!Next]_<<entry, life, phase>>
<1> USE DEF TableInv, shared, history
<1>1. ASSUME NEW i \in Ids, CallStart(c, i) \/ CallStop(c, i)
      PROVE  [Table!Next]_<<entry, life, phase>>
  <2>1. UNCHANGED <<proc, children, lockHolder, shuttingDown>>
    BY <1>1 DEF CallStart, CallStop
  <2>2. /\ pc[c] \notin {"insert", "drain", "stoppedAll"}
        /\ pc'[c] \notin {"insert", "drain", "stoppedAll"}
        /\ \A u \in Threads \ {c} :
             pc'[u] = pc[u] /\ arg'[u] = arg[u] /\ held'[u] = held[u]
    BY <1>1 DEF CallStart, CallStop, TypeOK
  <2>3. {c} \in SUBSET Threads
    OBVIOUS
  <2> QED BY <2>1, <2>2, <2>3, Bystanders
<1>2. CASE CallStopAll(c)
  <2>1. /\ UNCHANGED <<proc, children, lockHolder>> /\ shuttingDown'
        /\ pc[c] \notin {"insert", "drain", "stoppedAll"}
        /\ pc'[c] \notin {"insert", "drain", "stoppedAll"}
        /\ \A u \in Threads \ {c} :
             pc'[u] = pc[u] /\ arg'[u] = arg[u] /\ held'[u] = held[u]
    BY <1>2 DEF CallStopAll, TypeOK
  <2>2. {c} \in SUBSET Threads
    OBVIOUS
  <2>3. /\ UNCHANGED <<entry, life>> /\ (Inside("drain")' <=> Inside("drain"))
        /\ StopAllReturned' <=> StopAllReturned
    BY <2>1, <2>2, Bystanders
  <2>4. phase' = phase \/ (phase = "open" /\ phase' = "closing")
    BY <2>1, <2>3 DEF phase
  <2> QED BY <2>3, <2>4 DEF Table!Next, Table!Close
<1>3. ASSUME NEW m \in Monitors, StartMonitor(c, m)
      PROVE  [Table!Next]_<<entry, life, phase>>
  <2>1. UNCHANGED <<proc, children, lockHolder, shuttingDown>>
    BY <1>3 DEF StartMonitor
  <2>2. /\ {c, m} \in SUBSET Threads
        /\ \A t \in {c, m} : /\ pc[t] \notin {"insert", "drain", "stoppedAll"}
                             /\ pc'[t] \notin {"insert", "drain", "stoppedAll"}
        /\ \A u \in Threads \ {c, m} :
             pc'[u] = pc[u] /\ arg'[u] = arg[u] /\ held'[u] = held[u]
    BY <1>3 DEF StartMonitor, TypeOK
  <2> QED BY <2>1, <2>2, Bystanders
<1>4. CASE TakeChild(c)
  <2>1. /\ lockHolder = NoThread /\ lockHolder' = NoThread /\ arg[c] \in Ids
        /\ children' = [children EXCEPT ![arg[c]] = NoPid]
        /\ UNCHANGED <<proc, shuttingDown>>
        /\ pc[c] # "stoppedAll" /\ pc'[c] # "stoppedAll"
        /\ \A u \in Threads \ {c} : pc'[u] = pc[u]
    BY <1>4 DEF TakeChild, TypeOK
  <2>2. entry = children /\ life = proc
    BY <2>1, Unlocked DEF Shown
  <2>3. entry' = children' /\ life' = proc'
    <3>1. TypeOK'
      OBVIOUS
    <3>2. Shown'
      BY <3>1, Unlocked, PTL
    <3> QED BY <2>1, <3>2 DEF Shown
  <2>4. phase' = phase
    BY <2>1 DEF phase, Inside, StopAllReturned
  <2>5. Table!Remove(arg[c])
    BY <2>1, <2>2, <2>3, <2>4 DEF Table!Remove
  <2> QED BY <2>1, <2>5 DEF Table!Next
<1>5. CASE FinishStop(c)
  <2>1. /\ {c} \in SUBSET Threads
        /\ pc[c] \notin {"insert", "drain", "stoppedAll"}
        /\ pc'[c] \notin {"insert", "drain", "stoppedAll"}
        /\ \A u \in Threads \ {c} :
             pc'[u] = pc[u] /\ arg'[u] = arg[u] /\ held'[u] = held[u]
        /\ UNCHANGED <<children, lockHolder, shuttingDown>>
    BY <1>5 DEF FinishStop, TypeOK
  <2>2. /\ UNCHANGED <<entry, phase>> /\ (Inside("drain")' <=> Inside("drain"))
        /\ proc' = proc => life' = life
    BY <2>1, Bystanders
  <2>3. CASE held[c] = NoPid
    <3>1. proc' = proc
      BY <1>5, <2>3 DEF FinishStop, TypeOK
    <3> QED BY <2>2, <3>1
  <2>4. CASE held[c] # NoPid
    <3>1. held[c] \in Pids /\ proc[held[c]] # "unborn"
      BY <2>4 DEF TypeOK, OwnerInv
    <3>2. proc' = [proc EXCEPT ![held[c]] = "dead"]
      BY <1>5, <3>1 DEF FinishStop, TypeOK
    <3>3. Table!Die(held[c]) \/ UNCHANGED <<entry, life, phase>>
      BY <2>1, <2>2, <3>1, <3>2, Dies
    <3> QED BY <3>1, <3>3 DEF Table!Next
  <2> QED BY <2>3, <2>4
<1>6. CASE LockForDrain(c)
  <2>1. /\ pc[c] = "drainLock" /\ pc'[c] = "drain"
        /\ lockHolder = NoThread /\ lockHolder' = c
        /\ UNCHANGED <<proc, children, shuttingDown>>
        /\ \A u \in Threads \ {c} : pc'[u] = pc[u]
    BY <1>6 DEF LockForDrain, TypeOK
  <2>2. entry = children /\ life = proc
    BY <2>1, Unlocked DEF Shown
  <2>3. Inside("drain")' /\ ~Inside("drain")
    BY <2>1 DEF Inside
  <2>4. /\ entry' = [i \in Ids |-> NoPid]
        /\ life' = [p \in Pids |-> IF InMap(p) THEN "dead" ELSE proc[p]]
    BY <2>1, <2>3 DEF entry, life, InMap
  <2>5. phase' = "drained"
    BY <2>3 DEF phase
  <2>6. CASE StopAllReturned
    <3>1. \A i \in Ids : children[i] = NoPid
      BY <2>6 DEF DrainInv
    <3>2. children = [i \in Ids |-> NoPid] /\ \A p \in Pids : ~InMap(p)
      BY <3>1 DEF TypeOK, InMap
    <3>3. phase = "drained"
      BY <2>6 DEF phase
    <3>4. life' = proc
      BY <2>4, <3>2 DEF TypeOK
    <3> QED BY <2>2, <2>4, <2>5, <3>2, <3>3, <3>4
  <2>7. CASE ~StopAllReturned
    <3>1. phase = "closing"
      BY <2>1, <2>3, <2>7 DEF phase, DrainInv
    <3>2. \A p \in Pids : InMap(p) <=> p \in Table!Entered
      BY <2>2 DEF InMap, Table!Entered
    <3>3. Table!Drain
      BY <2>2, <2>4, <2>5, <3>1, <3>2 DEF Table!Drain
    <3> QED BY <3>3 DEF Table!Next
  <2> QED BY <2>6, <2>7
<1>7. ASSUME NEW i \in Ids, DrainOne(c, i)
      PROVE  [Table!Next]_<<entry, life, phase>>
  <2>1. /\ lockHolder = c /\ UNCHANGED <<lockHolder, pc>> /\ children[i] \in Pids
        /\ proc' = [proc EXCEPT ![children[i]] = "dead"]
        /\ children' = [children EXCEPT ![i] = NoPid]
    BY <1>7 DEF DrainOne, MutexInv, TypeOK
  <2>2. Inside("drain") /\ Inside("drain")'
    BY <1>7, <2>1 DEF DrainOne, Inside
  <2>3. entry' = entry /\ phase' = phase
    BY <2>2 DEF entry, phase
  <2>4. \A p \in Pids : p # children[i] => (InMap(p)' <=> InMap(p)) /\ proc'[p] = proc[p]
    BY <2>1 DEF InMap, TypeOK
  <2>5. InMap(children[i]) /\ proc'[children[i]] = "dead"
    BY <2>1 DEF InMap, TypeOK
  <2>6. life' = life
    BY <2>2, <2>4, <2>5 DEF life
  <2> QED BY <2>3, <2>6
<1>8. CASE DrainDone(c)
  <2>1. /\ lockHolder = c /\ lockHolder' = NoThread /\ pc[c] = "drain" /\ pc'[c] = "stoppedAll"
        /\ UNCHANGED <<proc, children>> /\ \A i \in Ids : children[i] = NoPid
    BY <1>8 DEF DrainDone, MutexInv, TypeOK
  <2>2. entry' = children' /\ life' = proc'
    <3>1. TypeOK'
      OBVIOUS
    <3>2. Shown'
      BY <3>1, Unlocked, PTL
    <3> QED BY <2>1, <3>2 DEF Shown
  <2>3. Inside("drain")
    BY <2>1 DEF Inside
  <2>4. entry = children /\ life = proc
    BY <2>1, <2>3 DEF entry, life, InMap, TypeOK
  <2>5. phase = "drained" /\ phase' = "drained"
    BY <2>1, <2>3 DEF phase, StopAllReturned
  <2> QED BY <2>1, <2>2, <2>4, <2>5
<1> QED BY <1>1, <1>2, <1>3, <1>4, <1>5, <1>6, <1>7, <1>8 DEF Call, Caller

\* The monitor: only a poll that finds an exit changes the table.
LEMMA MonitorRefines ==
  ASSUME TableInv, TableInv', NEW m \in Monitors, Monitor(m)
  PROVE  [Table!Next]_<<entry, life, phase>>
<1> USE DEF TableInv, shared, history
<1>1. CASE PollExited(m)
  <2>1. /\ lockHolder = NoThread /\ lockHolder' = NoThread /\ arg[m] \in Ids
        /\ children' = [children EXCEPT ![arg[m]] = NoPid]
        /\ UNCHANGED <<proc, shuttingDown>>
        /\ pc[m] # "stoppedAll" /\ pc'[m] # "stoppedAll"
        /\ \A u \in Threads \ {m} : pc'[u] = pc[u]
    BY <1>1 DEF PollExited, TypeOK
  <2>2. entry = children /\ life = proc
    BY <2>1, Unlocked DEF Shown
  <2>3. entry' = children' /\ life' = proc'
    <3>1. TypeOK'
      OBVIOUS
    <3>2. Shown'
      BY <3>1, Unlocked, PTL
    <3> QED BY <2>1, <3>2 DEF Shown
  <2>4. phase' = phase
    BY <2>1 DEF phase, Inside, StopAllReturned
  <2>5. Table!Remove(arg[m])
    BY <2>1, <2>2, <2>3, <2>4 DEF Table!Remove
  <2> QED BY <2>1, <2>5 DEF Table!Next
<1>2. CASE ~PollExited(m)
  <2>1. UNCHANGED <<proc, children, lockHolder, shuttingDown>>
    BY <1>2 DEF Monitor, Goto, LoadShuttingDown, IsStopping, PollAbsent, PollRunning,
                NextDelay, GiveUp
  <2>2. /\ pc[m] \notin {"insert", "drain", "stoppedAll"}
        /\ pc'[m] \notin {"insert", "drain", "stoppedAll"}
        /\ \A u \in Threads \ {m} :
             pc'[u] = pc[u] /\ arg'[u] = arg[u] /\ held'[u] = held[u]
    BY <1>2 DEF Monitor, Goto, LoadShuttingDown, IsStopping, PollAbsent, PollRunning,
                NextDelay, GiveUp, TypeOK
  <2>3. {m} \in SUBSET Threads
    OBVIOUS
  <2> QED BY <2>1, <2>2, <2>3, Bystanders
<1> QED BY <1>1, <1>2

\* The supervisor's map, with its mutex and its flag, is a table that changes at
\* once and that stays empty when it was closed and drained.
THEOREM Implements == Spec => MapIsOneTable
<1>1. Init => OwnerInv
  BY DEF Init, OwnerInv
<1>2. TypeOK /\ HandleInv /\ OwnerInv /\ [Next]_vars => OwnerInv'
  BY OwnerStep
<1>3. Init /\ TypeOK => Table!Init
  <2> SUFFICES ASSUME Init, TypeOK PROVE Table!Init
    OBVIOUS
  <2>1. entry = children /\ life = proc
    BY Unlocked DEF Init, Shown
  <2>2. phase = "open"
    BY DEF Init, phase, Inside, StopAllReturned
  <2> QED BY <2>1, <2>2 DEF Init, Table!Init
<1>4. TableInv /\ TableInv' /\ [Next]_vars => [Table!Next]_<<entry, life, phase>>
  <2> SUFFICES ASSUME TableInv, TableInv', [Next]_vars
               PROVE  [Table!Next]_<<entry, life, phase>>
    OBVIOUS
  <2>1. ASSUME NEW p \in Pids, Crash(p) PROVE [Table!Next]_<<entry, life, phase>>
    <3>1. /\ proc[p] # "unborn" /\ proc' = [proc EXCEPT ![p] = "dead"]
          /\ UNCHANGED <<children, lockHolder, shuttingDown, pc, arg, held>>
      BY <2>1 DEF Crash, shared
    <3>2. UNCHANGED <<entry, phase>> /\ (Inside("drain")' <=> Inside("drain"))
      BY <3>1 DEF entry, phase, Inside, StopAllReturned
    <3>3. Table!Die(p) \/ UNCHANGED <<entry, life, phase>>
      BY <3>1, <3>2, Dies DEF TableInv
    <3> QED BY <3>3 DEF Table!Next
  <2>2. CASE UNCHANGED vars
    BY <2>2 DEF vars, shared, entry, life, phase, Inside, InMap, StopAllReturned
  <2> QED BY <2>1, <2>2, SpawnRefines, CallRefines, MonitorRefines DEF Next
<1>5. TypeOK /\ CustodyInv /\ OwnerInv => TableInv
  BY DEF TableInv, CustodyInv
<1> QED
  BY <1>1, <1>2, <1>3, <1>4, <1>5, Typing, Custody, PTL
     DEF Spec, CustodyInv, MapIsOneTable, Table!Spec

-----------------------------------------------------------------------------
\* A stop that meets no restart in flight is final until the next start.
THEOREM StopHolds == Spec => StoppedUntilStarted
<1> DEFINE Stays == \A i \in Ids :
                      Stopped(i) => Stopped(i)' \/ \E c \in Callers : CallStart(c, i)
<1>1. TypeOK /\ [Next]_vars => [Stays]_vars
  <2> SUFFICES ASSUME TypeOK, Next, NEW i \in Ids, Stopped(i),
                      \A c \in Callers : ~CallStart(c, i)
               PROVE  Stopped(i)'
    OBVIOUS
  <2> USE DEF TypeOK, Stopped, SpawnPC, Goto, shared, history
  <2>1. ASSUME NEW t \in Threads, SpawnProcess(t) PROVE Stopped(i)'
    BY <2>1 DEF SpawnProcess, SpawnFails, SpawnChild, UnflagStopping, CheckShutdown,
                InsertChild, KillLate, SpawnErr, SpawnOk
  <2>2. ASSUME NEW c \in Callers, Call(c) PROVE Stopped(i)'
    <3>1. ASSUME NEW j \in Ids, CallStart(c, j) PROVE Stopped(i)'
      <4>1. j # i
        BY <3>1
      <4> QED BY <3>1, <4>1 DEF CallStart
    <3>2. ASSUME NEW j \in Ids, CallStop(c, j) PROVE Stopped(i)'
      BY <3>2 DEF CallStop
    <3>3. CASE CallStopAll(c)
      BY <3>3 DEF CallStopAll
    <3> QED BY <2>2, <3>1, <3>2, <3>3 DEF Call
  <2>3. ASSUME NEW c \in Callers, Caller(c) PROVE Stopped(i)'
    BY <2>3 DEF Caller, StartMonitor, TakeChild, FinishStop, LockForDrain, DrainOne,
                DrainDone
  <2>4. ASSUME NEW m \in Monitors, Monitor(m) PROVE Stopped(i)'
    BY <2>4 DEF Monitor, LoadShuttingDown, IsStopping, PollAbsent, PollRunning,
                PollExited, NextDelay, GiveUp
  <2>5. ASSUME NEW p \in Pids, Crash(p) PROVE Stopped(i)'
    BY <2>5 DEF Crash
  <2> QED BY <2>1, <2>2, <2>3, <2>4, <2>5 DEF Next
<1> QED BY <1>1, Typing, PTL DEF Spec, StoppedUntilStarted

=============================================================================
