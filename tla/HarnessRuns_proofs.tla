-------------------------- MODULE HarnessRuns_proofs --------------------------
(* Theorems about HarnessRuns: what the supervisor keeps within a run, the    *)
(* sweep restores between runs.                                              *)
EXTENDS HarnessRuns, HarnessSupervisor_proofs

USE RunsAssumption, ThreadKinds, AttemptsAssumption, NoneAssumption
USE DEF Threads

\* No thread of the application is at work, and its memory is as at the start.
AtRest ==
  /\ \A i \in Ids : children[i] = NoPid
  /\ \A t \in Threads : /\ pc[t] \in {"idle", "unborn"}
                        /\ arg[t] = NoId
                        /\ held[t] = NoPid
  /\ lockHolder = NoThread
  /\ started = {} /\ startedAgain = {}

\* Memory is fresh until the sweep has ended; from then on the supervisor keeps
\* its invariant, whatever processes of earlier runs still run.
RunsInv ==
  /\ app \in {"off", "sweep"} => AtRest
  /\ app = "up" => SingleStartInv

\* The sweep's end starts a run with the supervisor's invariant.
LEMMA CleanSlate == AtRest /\ Swept => SingleStartInv
<1> SUFFICES ASSUME AtRest, Swept PROVE SingleStartInv
  OBVIOUS
<1>1. \A t \in Threads : arg[t] \notin Ids
  BY DEF AtRest
<1>2. QED
  BY <1>1 DEF AtRest, Swept, SingleStartInv, HandleInv, Keeping,
     OneStarterInv, Live, Restarting, SpawnPC, LockFileInv

\* The end of a run leaves its memory behind, whatever its threads were doing.
LEMMA EndsAtRest == EndRun => AtRest'
BY DEF EndRun, AtRest

\* The end of a run keeps the types.
LEMMA EndTypes == TypeOK /\ EndRun => TypeOK'
<1> SUFFICES ASSUME TypeOK, EndRun PROVE TypeOK'
  OBVIOUS
<1> USE DEF EndRun
<1>1. /\ \A c \in Callers : pc'[c] = "idle"
      /\ \A m \in Monitors : pc'[m] = "unborn"
  OBVIOUS
<1>2. /\ pc' \in [Threads -> CallerPC \cup SpawnPC \cup MonitorPC]
      /\ \A t \in Threads : pc'[t] \in {"idle", "unborn"}
  BY DEF CallerPC, MonitorPC
<1>3. /\ attempts' \in [Monitors -> 0 .. MaxAttempts]
      /\ arg' \in [Threads -> Ids \cup {NoId}]
      /\ held' \in [Threads -> Pids \cup {NoPid}]
      /\ children' \in [Ids -> Pids \cup {NoPid}]
  OBVIOUS
<1>4. lateStops' \subseteq Callers /\ replaced' \subseteq Pids
  OBVIOUS
<1>5. QED BY <1>1, <1>2, <1>3, <1>4 DEF TypeOK, CallerPC, MonitorPC

\* The types of the supervisor's variables and of the runs', in every run.
THEOREM RunsTyping == RunsSpec => []RunsTypeOK
<1>1. RunsInit => RunsTypeOK
  BY TypeInit DEF RunsInit, RunsTypeOK
<1>2. RunsTypeOK /\ [RunsNext]_runVars => RunsTypeOK'
  <2> SUFFICES ASSUME RunsTypeOK, [RunsNext]_runVars PROVE RunsTypeOK'
    OBVIOUS
  <2> USE DEF RunsTypeOK
  <2>1. UNCHANGED vars => TypeOK' BY TypeStep
  <2>2. CASE StartApp
    <3>1. runs' \in 0 .. MaxRuns BY <2>2 DEF StartApp
    <3>2. QED BY <2>1, <2>2, <3>1 DEF StartApp
  <2>3. ASSUME NEW i \in Ids, SweepLock(i) PROVE RunsTypeOK'
    BY <2>3 DEF SweepLock, TypeOK, shared, history
  <2>4. CASE FinishSweep BY <2>1, <2>4 DEF FinishSweep
  <2>5. CASE Next /\ UNCHANGED <<app, runs, strays>> BY <2>5, TypeStep
  <2>6. CASE EndRun BY <2>6, EndTypes DEF EndRun
  <2>7. CASE UNCHANGED runVars BY <2>1, <2>7 DEF runVars
  <2>8. QED
    BY <2>2, <2>3, <2>4, <2>5, <2>6, <2>7 DEF RunsNext, AppExits, AppKilled
<1>3. QED BY <1>1, <1>2, PTL DEF RunsSpec

\* RunsInv is inductive: a step of a run keeps the supervisor's invariant, the
\* end of one puts its memory back, and the sweep prepares the next.
THEOREM EveryRun == RunsSpec => []RunsInv
<1>1. RunsInit => RunsInv
  BY DEF RunsInit, Init, RunsInv, AtRest
<1>2. RunsTypeOK /\ RunsInv /\ [RunsNext]_runVars => RunsInv'
  <2> SUFFICES ASSUME RunsTypeOK, RunsInv, [RunsNext]_runVars PROVE RunsInv'
    OBVIOUS
  <2> USE DEF RunsInv
  <2>1. UNCHANGED vars => (AtRest => AtRest')
    BY DEF vars, shared, history, AtRest
  <2>2. CASE StartApp BY <2>1, <2>2 DEF StartApp
  <2>3. ASSUME NEW i \in Ids, SweepLock(i) PROVE RunsInv'
    BY <2>3 DEF SweepLock, AtRest, shared, history
  <2>4. CASE FinishSweep
    <3>1. SingleStartInv BY <2>4, CleanSlate DEF FinishSweep
    <3>2. SingleStartInv'
      BY <2>4, <3>1, HandleStep, OneStarterStep, LockFileStep
      DEF FinishSweep, RunsTypeOK, SingleStartInv
    <3>3. QED BY <2>4, <3>2 DEF FinishSweep
  <2>5. CASE app = "up" /\ Next /\ UNCHANGED <<app, runs, strays>>
    <3>1. SingleStartInv'
      BY <2>5, HandleStep, OneStarterStep, LockFileStep
      DEF RunsTypeOK, SingleStartInv
    <3>2. QED BY <2>5, <3>1
  <2>6. CASE EndRun BY <2>6, EndsAtRest DEF EndRun
  <2>7. CASE UNCHANGED runVars
    <3>1. app = "up" => SingleStartInv'
      BY <2>7, HandleStep, OneStarterStep, LockFileStep
      DEF runVars, RunsTypeOK, SingleStartInv
    <3>2. QED BY <2>1, <2>7, <3>1 DEF runVars
  <2>8. QED
    BY <2>2, <2>3, <2>4, <2>5, <2>6, <2>7 DEF RunsNext, AppExits, AppKilled
<1>3. QED BY <1>1, <1>2, RunsTyping, PTL DEF RunsSpec

\* While the application is up, no lock file names a harness of an earlier run:
\* each names a child that is supervised or about to be.
THEOREM LockFilesFresh == RunsSpec => []LockFilesOfThisRun
<1>1. RunsInv => LockFilesOfThisRun
  <2>1. SingleStartInv => LockFileNamesOwnedChild
    BY DEF SingleStartInv, LockFileInv, LockFileNamesOwnedChild, HeldAt,
       Keeping
  <2>2. QED BY <2>1 DEF RunsInv, LockFilesOfThisRun
<1>2. QED BY <1>1, EveryRun, PTL

-----------------------------------------------------------------------------
(* What a run loses.                                                        *)

\* Between two runs every running harness is a stray.  During a run the others
\* are tracked, and the drain of stop_all is final.
ReachInv ==
  /\ app \in {"off", "sweep"} => \A p \in Pids : proc[p] = "alive" => p \in strays
  /\ app = "up" => MutexInv /\ DrainInv /\ TrackedBut(strays)

\* ReachInv is inductive, with RunsInv.
THEOREM EveryRunReaches == RunsSpec => []ReachInv
<1>1. RunsInit => ReachInv
  BY DEF RunsInit, Init, ReachInv
<1>2. RunsTypeOK /\ RunsInv /\ ReachInv /\ [RunsNext]_runVars => ReachInv'
  <2> SUFFICES ASSUME RunsTypeOK, RunsInv, ReachInv, [RunsNext]_runVars
               PROVE  ReachInv'
    OBVIOUS
  <2> USE DEF ReachInv
  <2>1. CASE StartApp BY <2>1 DEF StartApp, vars
  <2>2. ASSUME NEW i \in Ids, SweepLock(i) PROVE ReachInv'
    BY <2>2 DEF SweepLock, IsExpectedProcess, RecordsImageName
  <2>3. CASE FinishSweep
    <3>1. AtRest /\ UNCHANGED <<vars, strays>> /\ app' = "up"
      BY <2>3 DEF FinishSweep, RunsInv
    <3>2. /\ \A t \in Threads : pc'[t] \in {"idle", "unborn"}
          /\ lockHolder' \notin Threads
      BY <3>1 DEF AtRest, vars, shared
    <3>3. MutexInv' BY <3>2 DEF MutexInv
    <3>4. DrainInv' BY <3>2 DEF DrainInv, StopAllReturned
    <3>5. TrackedBut(strays)' BY <2>3, <3>1 DEF FinishSweep, vars, TrackedBut
    <3>6. QED BY <3>1, <3>3, <3>4, <3>5
  <2>4. ASSUME app = "up", [Next]_vars, UNCHANGED <<app, strays>>
        PROVE  ReachInv'
    <3>1. MutexInv' /\ DrainInv'
      BY <2>4, MutexStep, DrainStep DEF RunsTypeOK
    <3>2. HandleInv BY <2>4 DEF RunsInv, SingleStartInv
    <3>3. PICK S : S = strays OBVIOUS
    <3>4. TrackedBut(S)'
      BY <2>4, <3>2, <3>3, TrackStep DEF RunsTypeOK
    <3>5. TrackedBut(strays)' BY <2>4, <3>3, <3>4 DEF TrackedBut
    <3>6. QED BY <2>4, <3>1, <3>5
  <2>5. CASE EndRun BY <2>5 DEF EndRun
  <2>6. CASE UNCHANGED runVars
    <3>1. CASE app = "up" BY <2>4, <2>6, <3>1 DEF runVars
    <3>2. CASE app # "up" BY <2>6, <3>2 DEF runVars, vars
    <3>3. QED BY <3>1, <3>2
  <2>7. QED
    BY <2>1, <2>2, <2>3, <2>4, <2>5, <2>6 DEF RunsNext, AppExits, AppKilled
<1>3. QED BY <1>1, <1>2, RunsTyping, EveryRun, PTL DEF RunsSpec

\* In every run an exit leaves of its harnesses at most those that a thread was
\* about to kill, and those dropped by an insert.
THEOREM ExitReaches == RunsSpec => ExitOrphansOnlyInFlight
<1>1. RunsInv /\ ReachInv /\ [RunsNext]_runVars =>
        [AppExits => \A p \in strays' \ strays : Doomed(p) \/ p \in replaced]_runVars
  <2> SUFFICES ASSUME RunsInv, ReachInv, AppExits, NEW p \in strays' \ strays
               PROVE  Doomed(p) \/ p \in replaced
    OBVIOUS
  <2>1. app = "up" /\ StopAllReturned BY DEF AppExits, EndRun
  <2>2. p \in Pids /\ proc[p] = "alive" BY DEF AppExits, EndRun
  <2>3. Tracked(p) BY <2>1, <2>2 DEF ReachInv, TrackedBut
  <2>4. QED
    BY <2>1, <2>2, <2>3, AfterDrain DEF RunsInv, SingleStartInv, ReachInv
<1>2. QED BY <1>1, EveryRun, EveryRunReaches, PTL
          DEF RunsSpec, ExitOrphansOnlyInFlight

=============================================================================
