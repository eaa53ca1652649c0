--------------------------- MODULE SidecarLifecycle ---------------------------
(***************************************************************************)
(* The application side of the sidecar's life, src-tauri/src/lib.rs, on    *)
(* top of the servers of SidecarServer: the start-up sweep, the launch,    *)
(* the monitor that restarts a crashed server, the update preparation, the *)
(* exit, and the force-kill of the application, over several runs of it.   *)
(*                                                                         *)
(* The main thread (sweep, launch, exit, and the prepare_for_update task,  *)
(* which is taken not to overlap an exit) and the monitor task interleave. *)
(* They share the SidecarSupervisor: the child handle, whose mutex never   *)
(* spans two steps, and the shutting_down flag.                            *)
(*                                                                         *)
(* The tools of the operating system (tasklist, taskkill) and the removal  *)
(* of a file may fail at any time, and the code goes on.                   *)
(***************************************************************************)
EXTENDS SidecarServer

CONSTANTS
  MaxAttempts,   \* SIDECAR_RESTART_DELAYS_SECS.len()
  MaxRuns        \* bound on the runs of the application

ASSUME BoundsAssumption == MaxAttempts \in Nat /\ MaxRuns \in Nat

VARIABLES
  app,           \* where the main thread is; "off" if the application is not up
  mon,           \* where the monitor task is
  child,         \* SidecarSupervisor.child
  shuttingDown,  \* SidecarSupervisor.shutting_down
  spawned,       \* the Child the monitor has and has not stored yet
  target,        \* the pid the main thread read in the lock file
  updating,      \* whether cleanup_workers runs for prepare_for_update
  attempts,      \* the monitor's restart attempts
  runs,          \* how often the application was started
  leftover,      \* history: servers that outlived a run of the application
  missed,        \* history: the servers this run's last clean-up may leave;
                 \* all pids when it promises nothing
  flagStuck,     \* history: whether this run's start-up left a flag file
  newcomers,     \* history: the strangers that came in this run since its last
                 \* check of an image name
  wronged        \* history: whether a stranger of longer standing was killed

appVars == <<app, mon, child, shuttingDown, spawned, target, updating,
             attempts, runs, leftover, missed, flagStuck, newcomers, wronged>>
vars == <<serverVars, appVars>>

\* What a step of one thread leaves alone, by thread.
history == <<runs, leftover, missed, flagStuck, newcomers, wronged>>
monVars == <<mon, spawned, attempts>>
mainVars == <<child, shuttingDown, updating>>

CleanupAt == {"flag", "read", "check", "poll", "kill", "unlink", "unflag"}
SweepAt == {"sweep", "sweepRead", "sweepCheck", "sweepKill", "sweepUnlink",
            "launch"}
TypeOK ==
  /\ ServerTypeOK
  /\ app \in {"off", "up", "take", "killAll", "confirm"} \cup SweepAt \cup CleanupAt
  /\ mon \in {"none", "flag", "poll", "recheck", "delay", "asleep", "spawn",
              "store", "over"}
  /\ {child, spawned, target} \subseteq Pids \cup {NoPid}
  /\ {shuttingDown, updating, flagStuck, wronged} \subseteq BOOLEAN
  /\ attempts \in 0 .. MaxAttempts
  /\ runs \in 0 .. MaxRuns
  /\ {leftover, missed, newcomers} \subseteq SUBSET Pids

Init ==
  /\ ServerInit
  /\ app = "off"
  /\ mon = "none"
  /\ child = NoPid
  /\ shuttingDown = FALSE
  /\ spawned = NoPid
  /\ target = NoPid
  /\ updating = FALSE
  /\ attempts = 0
  /\ runs = 0
  /\ leftover = {}
  /\ missed = Pids
  /\ flagStuck = FALSE
  /\ newcomers = {}
  /\ wronged = FALSE

AppGoes(from, to) ==
  /\ app = from
  /\ app' = to

MonGoes(from, to) ==
  /\ mon = from
  /\ mon' = to

\* What the operating system knows of a pid.  running_image_name asks tasklist,
\* and answers with this or, when the tool cannot be run or its output not be
\* read, with "none": a name it gives is true.
RunningImageName(p) ==
  IF IsServer(p) THEN "sidecar" ELSE IF at[p] = "gone" THEN "none" ELSE "other"

IsProcessRunning(p) == RunningImageName(p) # "none"

\* is_expected_process: the lock file of a server records its image name.
IsExpectedProcess(p) == RunningImageName(p) = "sidecar"

\* remove_file, whose error is only logged.
RemoveLock == lockFile' \in {NoPid, lockFile}
RemoveShutdownFlag == shutdownFlag' \in {FALSE, shutdownFlag}

Servers == {p \in Pids : IsServer(p)}

\* The clean-up passes over a server because a tool or a file has failed it.
Misses(p) == missed' = missed \cup ({p} \cap Servers)

\* A kill by pid hits whatever process has that pid now.
Kill(p) ==
  /\ IF at[p] = "gone" THEN UNCHANGED serverVars ELSE Die(p)
  /\ wronged' = (wronged \/ (at[p] = "stranger" /\ p \notin newcomers))

KillFails == UNCHANGED <<serverVars, wronged>>

-----------------------------------------------------------------------------
(* Start-up.                                                                *)

StartApp ==
  /\ AppGoes("off", "sweep")
  /\ runs < MaxRuns
  /\ runs' = runs + 1
  /\ UNCHANGED <<serverVars, monVars, mainVars, target, leftover, missed,
                 flagStuck, newcomers, wronged>>

\* recover_sqlite_wal: opening and closing sidecar.db folds its WAL back in; an
\* error is logged and leaves it.
RecoverSqliteWal(dir) == staleWal' \in {staleWal, staleWal \ {dir}}

\* cleanup_stale_workers: the flag file goes, and WAL recovery is tried on
\* sidecar.db in the data directory itself.  If the .index directory cannot be
\* made, none of this is done and the lock file is not looked at either, as when
\* every step of the sweep fails.
RecoveryDir == "data"

Sweep ==
  /\ AppGoes("sweep", "sweepRead")
  /\ RemoveShutdownFlag
  /\ flagStuck' = shutdownFlag'
  /\ RecoverSqliteWal(RecoveryDir)
  /\ UNCHANGED <<at, seen, lockFile, tokenFile, port, monVars, mainVars,
                 target, runs, leftover, missed, newcomers, wronged>>

\* No lock file, or one that cannot be read or holds no pid.
SweepRead ==
  /\ \/ /\ AppGoes("sweepRead", "sweepCheck")
        /\ lockFile # NoPid
        /\ target' = lockFile
     \/ AppGoes("sweepRead", "launch") /\ UNCHANGED target
  /\ UNCHANGED <<serverVars, monVars, mainVars, history>>

\* Mutant of SweepCheck: a bare liveness check.
SweepCheckLive ==
  /\ \/ /\ AppGoes("sweepCheck", "sweepKill")
        /\ IsProcessRunning(target)
        /\ UNCHANGED <<lockFile, target>>
     \/ /\ AppGoes("sweepCheck", "launch")
        /\ RemoveLock
        /\ target' = NoPid
  /\ newcomers' = {}
  /\ UNCHANGED <<exceptLock, monVars, mainVars, runs, leftover, missed,
                 flagStuck, wronged>>

\* is_expected_process compares image names.  A lock that names no process of
\* ours, as far as the tool can tell, is removed and nothing is killed.
SweepCheck ==
  /\ \/ /\ AppGoes("sweepCheck", "sweepKill")
        /\ IsExpectedProcess(target)
        /\ UNCHANGED <<lockFile, target>>
     \/ /\ AppGoes("sweepCheck", "launch")
        /\ RemoveLock
        /\ target' = NoPid
  /\ newcomers' = {}
  /\ UNCHANGED <<exceptLock, monVars, mainVars, runs, leftover, missed,
                 flagStuck, wronged>>

SweepKill ==
  /\ AppGoes("sweepKill", "sweepUnlink")
  /\ Kill(target) \/ KillFails
  /\ UNCHANGED <<monVars, mainVars, target, runs, leftover, missed, flagStuck,
                 newcomers>>

SweepUnlink ==
  /\ AppGoes("sweepUnlink", "launch")
  /\ RemoveLock
  /\ target' = NoPid
  /\ UNCHANGED <<exceptLock, monVars, mainVars, history>>

\* A pid is free for a new process when its process is gone and no handle of
\* the application refers to it.
Free(p) == at[p] = "gone" /\ p \notin {child, spawned}

\* A fresh server writes every file anew, so the servers of earlier runs that
\* are gone by now do not concern it.
ForgetGone == leftover' = {p \in leftover : IsServer(p)}

\* start_sidecar_server: spawn, store the child, start the monitor.  Without
\* a sidecar binary the application goes on with neither.
Launch ==
  /\ AppGoes("launch", "up")
  /\ \E p \in Pids :
       /\ Free(p)
       /\ Boot(p)
       /\ child' = p
  /\ mon' = "flag"
  /\ attempts' = 0
  /\ ForgetGone
  /\ UNCHANGED <<shuttingDown, spawned, target, updating, runs, missed,
                 flagStuck, newcomers, wronged>>

LaunchFails ==
  /\ AppGoes("launch", "up")
  /\ UNCHANGED <<serverVars, monVars, mainVars, target, history>>

-----------------------------------------------------------------------------
(* spawn_sidecar_monitor.                                                   *)

\* Mutant of MonFlag: the monitor does not look at the flag.
MonFlagIgnored(from, to) ==
  /\ MonGoes(from, to)
  /\ UNCHANGED <<serverVars, app, child, shuttingDown, spawned, target,
                 updating, attempts, history>>

MonFlag(from, to) ==
  /\ MonGoes(from, IF shuttingDown THEN "over" ELSE to)
  /\ UNCHANGED <<serverVars, app, child, shuttingDown, spawned, target,
                 updating, attempts, history>>

\* Mutant of PollChild: a poll error counts as an exit.
PollChildGivesUpChild ==
  /\ child # NoPid
  /\ MonGoes("poll", "recheck")
  /\ child' = NoPid
  /\ UNCHANGED <<serverVars, app, shuttingDown, spawned, target, updating,
                 attempts, history>>

\* try_wait under the mutex; an error counts as still running.
PollChild ==
  /\ \/ child = NoPid /\ MonGoes("poll", "over") /\ UNCHANGED child
     \/ child # NoPid /\ MonGoes("poll", "flag") /\ UNCHANGED child
     \/ /\ child # NoPid
        /\ ~IsServer(child)
        /\ MonGoes("poll", "recheck")
        /\ child' = NoPid
  /\ UNCHANGED <<serverVars, app, shuttingDown, spawned, target, updating,
                 attempts, history>>

\* The counter may start over after an exit, when the window has elapsed.
MonRecheck ==
  /\ MonGoes("recheck", IF shuttingDown THEN "over" ELSE "delay")
  /\ attempts' \in {attempts, 0}
  /\ UNCHANGED <<serverVars, app, child, shuttingDown, spawned, target,
                 updating, history>>

MonDelay ==
  /\ IF attempts >= MaxAttempts
       THEN MonGoes("delay", "over") /\ UNCHANGED attempts
       ELSE MonGoes("delay", "asleep") /\ attempts' = attempts + 1
  /\ UNCHANGED <<serverVars, app, child, shuttingDown, spawned, target,
                 updating, history>>

MonSpawn ==
  /\ MonGoes("spawn", "store")
  /\ \E p \in Pids :
       /\ Free(p)
       /\ Boot(p)
       /\ spawned' = p
  /\ ForgetGone
  /\ UNCHANGED <<app, mainVars, target, attempts, runs, missed, flagStuck,
                 newcomers, wronged>>

MonSpawnFails ==
  /\ MonGoes("spawn", "delay")
  /\ UNCHANGED <<serverVars, app, child, shuttingDown, spawned, target,
                 updating, attempts, history>>

\* The new child is stored whether or not a shutdown has begun meanwhile.
MonStore ==
  /\ MonGoes("store", "flag")
  /\ child' = spawned
  /\ spawned' = NoPid
  /\ UNCHANGED <<serverVars, app, shuttingDown, target, updating, attempts,
                 history>>

Monitor ==
  \/ MonFlag("flag", "poll")
  \/ PollChild
  \/ MonRecheck
  \/ MonDelay
  \/ MonFlag("asleep", "spawn")
  \/ MonSpawn
  \/ MonSpawnFails
  \/ MonStore

-----------------------------------------------------------------------------
(* Exit and prepare_for_update share cleanup_workers.                       *)

\* The lock file names every server, as that server wrote it, and the monitor is
\* not between its last check of the flag and a spawn.
InSight ==
  /\ \A p \in Servers :
       at[p] \notin {"boot", "judge", "lock"} /\ lockFile = p
  /\ mon # "spawn"

BeginExit ==
  /\ AppGoes("up", "take")
  /\ shuttingDown' = TRUE
  /\ missed' = IF InSight THEN {} ELSE Pids
  /\ UNCHANGED <<serverVars, monVars, child, target, updating, runs,
                 leftover, flagStuck, newcomers, wronged>>

\* The child handle is dropped, not killed.
TakeChild ==
  /\ AppGoes("take", "flag")
  /\ child' = NoPid
  /\ UNCHANGED <<serverVars, monVars, shuttingDown, target, updating,
                 history>>

BeginUpdate ==
  /\ AppGoes("up", "flag")
  /\ shuttingDown' = TRUE
  /\ updating' = TRUE
  /\ missed' = Pids
  /\ UNCHANGED <<serverVars, monVars, child, target, runs, leftover, flagStuck,
                 newcomers, wronged>>

WriteFlag ==
  /\ AppGoes("flag", "read")
  /\ shutdownFlag' \in {TRUE, shutdownFlag}
  /\ UNCHANGED <<exceptFlag, monVars, mainVars, target, history>>

CleanupRead ==
  /\ \/ /\ AppGoes("read", "check")
        /\ lockFile # NoPid
        /\ target' = lockFile
        /\ UNCHANGED missed
     \/ AppGoes("read", "unflag") /\ UNCHANGED target /\ Misses(lockFile)
  /\ UNCHANGED <<serverVars, monVars, mainVars, runs, leftover, flagStuck,
                 newcomers, wronged>>

CleanupCheck ==
  /\ \/ /\ AppGoes("check", "poll")
        /\ IsExpectedProcess(target)
        /\ UNCHANGED <<lockFile, target, missed>>
     \/ /\ AppGoes("check", "unflag")
        /\ RemoveLock
        /\ target' = NoPid
        /\ Misses(target)
  /\ newcomers' = {}
  /\ UNCHANGED <<exceptLock, monVars, mainVars, runs, leftover, flagStuck,
                 wronged>>

\* Mutant of PollTarget: no forced kill after the timeout.
PollTargetNoKill ==
  /\ AppGoes("poll", "unlink")
  /\ UNCHANGED <<serverVars, monVars, mainVars, target, history>>

\* graceful_shutdown_worker: a taskkill without /F, which a server without a
\* window does not notice, then polls for any process of that pid, which after
\* three seconds is killed by pid alone.
PollTarget ==
  /\ \/ /\ AppGoes("poll", "kill")
        /\ IsProcessRunning(target)
        /\ UNCHANGED missed
     \/ AppGoes("poll", "unlink") /\ Misses(target)
  /\ UNCHANGED <<serverVars, monVars, mainVars, target, runs, leftover,
                 flagStuck, newcomers, wronged>>

\* The status of taskkill is not looked at.  If it cannot be run at all, the
\* clean-up of this worker ends here and the lock file stays.
ForceKill ==
  /\ \/ AppGoes("kill", "unlink") /\ Kill(target) /\ UNCHANGED missed
     \/ AppGoes("kill", "unlink") /\ KillFails /\ Misses(target)
     \/ AppGoes("kill", "unflag") /\ KillFails /\ Misses(target)
  /\ target' = IF app' = "unflag" THEN NoPid ELSE target
  /\ UNCHANGED <<monVars, mainVars, runs, leftover, flagStuck, newcomers>>

CleanupUnlink ==
  /\ AppGoes("unlink", "unflag")
  /\ RemoveLock
  /\ target' = NoPid
  /\ UNCHANGED <<exceptLock, monVars, mainVars, history>>

RemoveFlag(to) ==
  /\ AppGoes("unflag", to)
  /\ RemoveShutdownFlag
  /\ UNCHANGED exceptFlag

\* The end of the process: its threads and handles are no more.
GoesOff ==
  /\ mon' = "none"
  /\ child' = NoPid
  /\ shuttingDown' = FALSE
  /\ spawned' = NoPid
  /\ target' = NoPid
  /\ updating' = FALSE
  /\ attempts' = 0
  /\ leftover' = Servers
  /\ missed' = Pids
  /\ flagStuck' = FALSE
  /\ newcomers' = {}
  /\ UNCHANGED <<runs, wronged>>

EndExit ==
  /\ ~updating
  /\ RemoveFlag("off")
  /\ GoesOff

EndCleanupForUpdate ==
  /\ updating
  /\ RemoveFlag("killAll")
  /\ UNCHANGED <<monVars, mainVars, target, history>>

\* taskkill by the sidecar's image name, whose result is not looked at: any
\* server may survive.  A server that the monitor, past its last check of the
\* flag, has yet to spawn is out of its reach.
KillByName ==
  /\ AppGoes("killAll", "confirm")
  /\ \E killed \in SUBSET Servers :
       /\ at' = [p \in Pids |-> IF p \in killed THEN "gone" ELSE at[p]]
       /\ seen' = [p \in Pids |-> IF p \in killed THEN NoPid ELSE seen[p]]
       /\ port' = IF port \in killed THEN NoPid ELSE port
       /\ staleWal' = staleWal \cup
            (IF \E p \in killed : at[p] = "storage" THEN {ServerDbDir} ELSE {})
       /\ missed' = IF mon = "spawn" THEN Pids ELSE Servers \ killed
  /\ UNCHANGED <<lockFile, tokenFile, shutdownFlag, monVars, mainVars,
                 target, runs, leftover, flagStuck, newcomers, wronged>>

\* Polls for a process of that name, and Ok whatever they say after two seconds.
\* shutting_down stays set while the application goes on.
Confirm ==
  /\ AppGoes("confirm", "up")
  /\ updating' = FALSE
  /\ UNCHANGED <<serverVars, monVars, child, shuttingDown, target, history>>

Cleanup ==
  \/ TakeChild
  \/ WriteFlag
  \/ CleanupRead
  \/ CleanupCheck
  \/ PollTarget
  \/ ForceKill
  \/ CleanupUnlink
  \/ EndExit
  \/ EndCleanupForUpdate
  \/ KillByName
  \/ Confirm

-----------------------------------------------------------------------------
(* The environment.                                                         *)

\* The application is killed by the operating system.
AppKilled ==
  /\ app # "off"
  /\ app' = "off"
  /\ GoesOff
  /\ UNCHANGED serverVars

ServerStep(p) ==
  /\ \/ Serve(p)
     \/ IsServer(p) /\ Die(p)
  /\ UNCHANGED appVars

StrangerComes(p) ==
  /\ Free(p)
  /\ at' = [at EXCEPT ![p] = "stranger"]
  /\ newcomers' = newcomers \cup {p}
  /\ UNCHANGED <<seen, lockFile, tokenFile, port, shutdownFlag, staleWal,
                 app, monVars, mainVars, target, runs, leftover, missed,
                 flagStuck, wronged>>

StrangerLeaves(p) ==
  /\ Move(p, "stranger", "gone")
  /\ newcomers' = newcomers \ {p}
  /\ UNCHANGED <<seen, lockFile, tokenFile, port, shutdownFlag, staleWal,
                 app, monVars, mainVars, target, runs, leftover, missed,
                 flagStuck, wronged>>

Startup ==
  \/ Sweep
  \/ SweepRead
  \/ SweepCheck
  \/ SweepKill
  \/ SweepUnlink
  \/ Launch
  \/ LaunchFails

Next ==
  \/ StartApp
  \/ Startup
  \/ Monitor
  \/ BeginExit
  \/ BeginUpdate
  \/ Cleanup
  \/ AppKilled
  \/ \E p \in Pids : ServerStep(p) \/ StrangerComes(p) \/ StrangerLeaves(p)

Spec == Init /\ [][Next]_vars

-----------------------------------------------------------------------------
(* Properties.                                                              *)

\* The supervisor's discipline with the child handle: within a run of the
\* application there is never a second server of that run, whatever the
\* monitor, an update and an exit do at the same time.
OneServerPerRun ==
  Cardinality({p \in Pids : IsServer(p)} \ leftover) <= 1

\* While no server of an earlier run is about and no shutdown has begun, nothing
\* that crashes, kills and failed clean-ups have left behind stands in the way of
\* the server: no port, no token, and no shutdown flag unless the start-up could
\* not remove it.  (A lock file may, if the pid in it is the server's own by now.)
\* And a serving one can be reached and stopped: the port and the token file are
\* its own (with any other token every client is Unauthorized), and the lock file
\* holds its pid.
LoneServerIsReachable ==
  (leftover = {} /\ ~shuttingDown) =>
    \A p \in Servers :
      /\ port \in {p, NoPid}
      /\ at[p] = "tokenCreate" => tokenFile = NoPid
      /\ shutdownFlag => flagStuck
      /\ at[p] = "serving" => {port, tokenFile, lockFile} = {p}

\* An exit that begins when the lock file names every server and no spawn is
\* under way leaves only servers that a tool or a file failed it for: the flag,
\* the lock file and the forced kill stop the server at whatever step of its
\* start, its service or its end it is, and the monitor does not bring it back.
ExitStopsWhatItSees == [][EndExit => leftover' \subseteq missed]_vars

\* "Ensure the NSIS installer can overwrite the sidecar binary": once an update
\* is prepared there is no server but those that survived the kill by name, and
\* none comes until the application ends, however long the installer lets it run
\* and wherever the monitor was, a spawn already under way excepted.
PreparedUpdateIsQuiet ==
  (app = "up" /\ shuttingDown) => Servers \subseteq missed

\* "Only kill a process this app can prove is its own worker": a stranger that
\* already had its pid when the name was last compared is never killed, at
\* start-up, exit or update.
KnownStrangersSurvive == ~wronged

\* "Runs on every normal exit path so background workers are never orphaned":
\* a run without a server of an earlier run leaves none when it exits.  The
\* code does not keep this.
ExitLeavesNoOrphan == [][EndExit /\ leftover = {} => leftover' = {}]_vars

\* "Opening a connection triggers automatic WAL recovery and checkpoint, so
\* this runs before any worker touches the database": once recovery has run at
\* start-up no stale WAL is left.  The code looks for it in another directory.
StartupRecoversWal == [][Sweep => staleWal' = {}]_vars

===============================================================================
