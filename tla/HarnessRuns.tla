----------------------------- MODULE HarnessRuns -----------------------------
(***************************************************************************)
(* The harness supervisor over several runs of the application: the exit   *)
(* handler and a force-kill end a run with whatever its threads were doing *)
(* (lib.rs: run), and the next run starts with the sweep of the harness    *)
(* lock files that are still there (cleanup_stale_harness_locks).  Only    *)
(* processes and lock files outlive a run.                                 *)
(***************************************************************************)
EXTENDS HarnessSupervisor

CONSTANT MaxRuns   \* bound on the runs of the application

ASSUME RunsAssumption == MaxRuns \in Nat

VARIABLES
  app,      \* "off", "sweep" or "up"
  runs,     \* how often the application was started
  strays    \* history: the harnesses that outlived an earlier run

runVars == <<vars, app, runs, strays>>

RunsTypeOK ==
  /\ TypeOK
  /\ app \in {"off", "sweep", "up"}
  /\ runs \in 0 .. MaxRuns
  /\ strays \subseteq Pids

RunsInit ==
  /\ Init
  /\ app = "off"
  /\ runs = 0
  /\ strays = {}

StartApp ==
  /\ app = "off"
  /\ runs < MaxRuns
  /\ app' = "sweep"
  /\ runs' = runs + 1
  /\ UNCHANGED <<vars, strays>>

\* spawn_process writes the pid and nothing else, and without an image name
\* is_expected_process is false whatever runs at that pid.
RecordsImageName == FALSE
IsExpectedProcess(p) == RecordsImageName /\ proc[p] = "alive"

\* cleanup_worker_lock on one harness lock: kill if the process is proven to be
\* ours, and remove the file in either case.
SweepLock(i) ==
  /\ app = "sweep"
  /\ lockFile[i] # NoPid
  /\ proc' = [p \in Pids |-> IF p = lockFile[i] /\ IsExpectedProcess(p)
                               THEN "dead" ELSE proc[p]]
  /\ lockFile' = [lockFile EXCEPT ![i] = NoPid]
  /\ UNCHANGED <<shared, pc, arg, held, attempts, history, app, runs, strays>>

\* Mutant of Swept: the sweep does not look at every file.
SweptAny == TRUE

Swept == \A i \in Ids : lockFile[i] = NoPid

FinishSweep ==
  /\ app = "sweep"
  /\ Swept
  /\ app' = "up"
  /\ UNCHANGED <<vars, runs, strays>>

\* The threads of a run and all they hold in memory are gone; no Child is
\* killed by being dropped.
EndRun ==
  /\ app = "up"
  /\ app' = "off"
  /\ children' = [i \in Ids |-> NoPid]
  /\ stopping' = {}
  /\ shuttingDown' = FALSE
  /\ lockHolder' = NoThread
  /\ pc' = [t \in Threads |-> IF t \in Callers THEN "idle" ELSE "unborn"]
  /\ arg' = [t \in Threads |-> NoId]
  /\ held' = [t \in Threads |-> NoPid]
  /\ attempts' = [m \in Monitors |-> 0]
  /\ started' = {} /\ startedAgain' = {} /\ lateStops' = {} /\ replaced' = {}
  /\ strays' = {p \in Pids : proc[p] = "alive"}
  /\ UNCHANGED <<proc, lockFile, runs>>

\* RunEvent::Exit: stop_all has returned, and the process ends.
AppExits == StopAllReturned /\ EndRun

AppKilled == ~StopAllReturned /\ EndRun

RunsNext ==
  \/ StartApp
  \/ \E i \in Ids : SweepLock(i)
  \/ FinishSweep
  \/ app = "up" /\ Next /\ UNCHANGED <<app, runs, strays>>
  \/ AppExits
  \/ AppKilled

RunsSpec == RunsInit /\ [][RunsNext]_runVars

-----------------------------------------------------------------------------
(* Properties.                                                              *)

\* The sweep gives every run a clean slate: while the application is up, a lock
\* file never names a process of an earlier run, however that run ended.
LockFilesOfThisRun == app = "up" => LockFileNamesOwnedChild

\* "Stop all supervised harness children so none are orphaned": of the harnesses
\* of a run, an exit leaves at most those that were in the hands of a thread about
\* to kill them when the process ended, and those dropped by an insert.
ExitOrphansOnlyInFlight ==
  [][AppExits => \A p \in strays' \ strays : Doomed(p) \/ p \in replaced]_runVars

\* "Force-kill any harness process left behind by a crash": once a lock file
\* has been swept, the process it named does not run.  The code never kills
\* one.
SweepKillsLeftBehind ==
  [][\A i \in Ids : SweepLock(i) => proc'[lockFile[i]] # "alive"]_runVars

=============================================================================
