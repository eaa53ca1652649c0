-------------------------- MODULE HarnessSupervisor --------------------------
(***************************************************************************)
(* The supervisor of N external processes ("harnesses") of                 *)
(* src-tauri/src/supervisor.rs, with its shared state from state.rs.       *)
(*                                                                         *)
(* Threads of two kinds share the supervisor.  A caller is one API call    *)
(* of the embedding application: start (spawn_process followed by          *)
(* spawn_harness_monitor), stop or stop_all.  A monitor is one task made   *)
(* by spawn_harness_monitor.  A step of a thread is what it does between   *)
(* two points where another thread can be scheduled to an effect: the two  *)
(* mutexes, the shutting_down flag, the operating system's processes and   *)
(* the lock files.  The stopping mutex only ever guards a single set       *)
(* operation, so each of those is one step; the children mutex is held     *)
(* over several steps and is modelled by its holder.                       *)
(***************************************************************************)
EXTENDS Naturals

CONSTANTS
  Ids,           \* the harness ids
  Callers,       \* API calls; each makes at most one (the bound on calls)
  Monitors,      \* monitor tasks; the bound on successful start calls
  Pids,          \* operating system processes; the bound on spawns
  MaxAttempts,   \* HARNESS_RESTART_DELAYS_SECS.len()
  NoId, NoPid, NoThread

Threads == Callers \cup Monitors

ASSUME ThreadKinds == Callers \cap Monitors = {}
ASSUME AttemptsAssumption == MaxAttempts \in Nat
ASSUME NoneAssumption == /\ NoId \notin Ids
                         /\ NoPid \notin Pids
                         /\ NoThread \notin Threads

VARIABLES
  proc,          \* the operating system's view of each process
  children,      \* HarnessSupervisor.children: the child in the map, if any
  stopping,      \* HarnessSupervisor.stopping
  shuttingDown,  \* HarnessSupervisor.shutting_down
  lockHolder,    \* who holds the mutex of children
  lockFile,      \* the pid written in harness_<id>.lock, if the file exists
  pc,            \* where each thread is
  arg,           \* the harness id a thread works on
  held,          \* a Child handle owned by a thread and not by the map
  attempts,      \* RestartTracker.attempts of each monitor
  started,       \* history: ids for which start was called
  startedAgain,  \* history: ids for which start was called more than once
  lateStops,     \* history: stop calls made after a start of their id returned
  replaced       \* history: children dropped by an insert over their entry

history == <<started, startedAgain, lateStops, replaced>>
shared == <<children, stopping, shuttingDown, lockHolder>>
vars == <<proc, shared, lockFile, pc, arg, held, attempts, history>>

CallerPC == {"idle", "startMonitor", "started", "notStarted",
             "take", "finishStop", "stopped",
             "drainLock", "drain", "stoppedAll"}
SpawnPC == {"spawn", "unflag", "check", "insert", "kill"}
MonitorPC == {"unborn", "pollFlag", "pollStop", "poll", "exitFlag",
              "exitStop", "backoff", "delayFlag", "delayStop", "ended"}

TypeOK ==
  /\ proc \in [Pids -> {"unborn", "alive", "dead"}]
  /\ children \in [Ids -> Pids \cup {NoPid}]
  /\ stopping \subseteq Ids
  /\ shuttingDown \in BOOLEAN
  /\ lockHolder \in Threads \cup {NoThread}
  /\ lockFile \in [Ids -> Pids \cup {NoPid}]
  /\ pc \in [Threads -> CallerPC \cup SpawnPC \cup MonitorPC]
  /\ \A c \in Callers : pc[c] \in CallerPC \cup SpawnPC
  /\ \A m \in Monitors : pc[m] \in MonitorPC \cup SpawnPC
  /\ arg \in [Threads -> Ids \cup {NoId}]
  /\ \A t \in Threads :
        pc[t] \notin {"idle", "unborn", "drainLock", "drain", "stoppedAll"}
          => arg[t] \in Ids
  /\ held \in [Threads -> Pids \cup {NoPid}]
  /\ attempts \in [Monitors -> 0 .. MaxAttempts]
  /\ started \subseteq Ids
  /\ startedAgain \subseteq started
  /\ lateStops \subseteq Callers
  /\ replaced \subseteq Pids

Init ==
  /\ proc = [p \in Pids |-> "unborn"]
  /\ children = [i \in Ids |-> NoPid]
  /\ stopping = {}
  /\ shuttingDown = FALSE
  /\ lockHolder = NoThread
  /\ lockFile = [i \in Ids |-> NoPid]
  /\ pc = [t \in Threads |-> IF t \in Callers THEN "idle" ELSE "unborn"]
  /\ arg = [t \in Threads |-> NoId]
  /\ held = [t \in Threads |-> NoPid]
  /\ attempts = [m \in Monitors |-> 0]
  /\ started = {}
  /\ startedAgain = {}
  /\ lateStops = {}
  /\ replaced = {}

\* A step of t that changes nothing but its own place.
Goto(t, from, to) ==
  /\ pc[t] = from
  /\ pc' = [pc EXCEPT ![t] = to]
  /\ UNCHANGED <<shared, proc, lockFile, arg, held, attempts, history>>

-----------------------------------------------------------------------------
(* spawn_process, run by a start call or by a monitor that restarts.        *)

\* Where spawn_process returns Err to: the call fails, a monitor tries again.
SpawnErr(t) == IF t \in Callers THEN "notStarted" ELSE "backoff"

\* Where it returns Ok to.
SpawnOk(t) == IF t \in Callers THEN "startMonitor" ELSE "pollFlag"

SpawnFails(t) == Goto(t, "spawn", SpawnErr(t))

\* The new pid is known to this thread alone until it is in the map, so
\* creating the process and writing its lock file (a failed write is only
\* logged) are one step.
SpawnChild(t) ==
  /\ pc[t] = "spawn"
  /\ \E p \in Pids :
       /\ proc[p] = "unborn"
       /\ proc' = [proc EXCEPT ![p] = "alive"]
       /\ held' = [held EXCEPT ![t] = p]
       /\ lockFile' \in {lockFile, [lockFile EXCEPT ![arg[t]] = p]}
  /\ pc' = [pc EXCEPT ![t] = "unflag"]
  /\ UNCHANGED <<shared, arg, attempts, history>>

UnflagStopping(t) ==
  /\ pc[t] = "unflag"
  /\ stopping' = stopping \ {arg[t]}
  /\ pc' = [pc EXCEPT ![t] = "check"]
  /\ UNCHANGED <<proc, children, shuttingDown, lockHolder, lockFile, arg,
                 held, attempts, history>>

\* Mutant of CheckShutdown: the mutex is let go before the insert.
CheckShutdownUnlocked(t) ==
  /\ lockHolder = NoThread
  /\ Goto(t, "check", IF shuttingDown THEN "kill" ELSE "insert")

\* Mutant of CheckShutdown: the early return keeps the mutex.
CheckShutdownKeepsLock(t) ==
  /\ pc[t] = "check"
  /\ lockHolder = NoThread
  /\ pc' = [pc EXCEPT ![t] = IF shuttingDown THEN "kill" ELSE "insert"]
  /\ lockHolder' = t
  /\ UNCHANGED <<proc, children, stopping, shuttingDown, lockFile, arg, held,
                 attempts, history>>

\* Takes the children mutex and reads shutting_down under it; on shutdown the
\* mutex is released at once, otherwise it is kept for the insert.
CheckShutdown(t) ==
  /\ pc[t] = "check"
  /\ lockHolder = NoThread
  /\ \/ /\ shuttingDown
        /\ pc' = [pc EXCEPT ![t] = "kill"]
        /\ UNCHANGED lockHolder
     \/ /\ ~shuttingDown
        /\ pc' = [pc EXCEPT ![t] = "insert"]
        /\ lockHolder' = t
  /\ UNCHANGED <<proc, children, stopping, shuttingDown, lockFile, arg, held,
                 attempts, history>>

\* HashMap::insert: an entry already there is dropped, and dropping a Child
\* does not kill its process.
InsertChild(t) ==
  /\ pc[t] = "insert"
  /\ children' = [children EXCEPT ![arg[t]] = held[t]]
  /\ replaced' = replaced \cup ({children[arg[t]]} \ {NoPid})
  /\ held' = [held EXCEPT ![t] = NoPid]
  /\ lockHolder' = NoThread
  /\ pc' = [pc EXCEPT ![t] = SpawnOk(t)]
  /\ UNCHANGED <<proc, stopping, shuttingDown, lockFile, arg, attempts,
                 started, startedAgain, lateStops>>

\* Mutant of KillLate: the lock file stays behind.
KillLateKeepsFile(t) ==
  /\ pc[t] = "kill"
  /\ proc' = [proc EXCEPT ![held[t]] = "dead"]
  /\ held' = [held EXCEPT ![t] = NoPid]
  /\ pc' = [pc EXCEPT ![t] = SpawnErr(t)]
  /\ UNCHANGED <<shared, lockFile, arg, attempts, history>>

\* The supervisor is shutting down: kill, wait, remove the lock file, Err.
KillLate(t) ==
  /\ pc[t] = "kill"
  /\ proc' = [proc EXCEPT ![held[t]] = "dead"]
  /\ held' = [held EXCEPT ![t] = NoPid]
  /\ lockFile' = [lockFile EXCEPT ![arg[t]] = NoPid]
  /\ pc' = [pc EXCEPT ![t] = SpawnErr(t)]
  /\ UNCHANGED <<shared, arg, attempts, history>>

SpawnProcess(t) ==
  \/ SpawnFails(t)
  \/ SpawnChild(t)
  \/ UnflagStopping(t)
  \/ CheckShutdown(t)
  \/ InsertChild(t)
  \/ KillLate(t)

-----------------------------------------------------------------------------
(* The API calls.                                                           *)

CallStart(c, i) ==
  /\ pc[c] = "idle"
  /\ pc' = [pc EXCEPT ![c] = "spawn"]
  /\ arg' = [arg EXCEPT ![c] = i]
  /\ started' = started \cup {i}
  /\ startedAgain' = startedAgain \cup (started \cap {i})
  /\ UNCHANGED <<proc, shared, lockFile, held, attempts, lateStops, replaced>>

StartMonitor(c, m) ==
  /\ pc[c] = "startMonitor"
  /\ pc[m] = "unborn"
  /\ pc' = [pc EXCEPT ![c] = "started", ![m] = "pollFlag"]
  /\ arg' = [arg EXCEPT ![m] = arg[c]]
  /\ UNCHANGED <<proc, shared, lockFile, held, attempts, history>>

CallStop(c, i) ==
  /\ pc[c] = "idle"
  /\ pc' = [pc EXCEPT ![c] = "take"]
  /\ arg' = [arg EXCEPT ![c] = i]
  /\ stopping' = stopping \cup {i}
  /\ lateStops' = lateStops \cup
       {d \in {c} : \E s \in Callers : pc[s] = "started" /\ arg[s] = i}
  /\ UNCHANGED <<proc, children, shuttingDown, lockHolder, lockFile, held,
                 attempts, started, startedAgain, replaced>>

TakeChild(c) ==
  /\ pc[c] = "take"
  /\ lockHolder = NoThread
  /\ held' = [held EXCEPT ![c] = children[arg[c]]]
  /\ children' = [children EXCEPT ![arg[c]] = NoPid]
  /\ pc' = [pc EXCEPT ![c] = "finishStop"]
  /\ UNCHANGED <<proc, stopping, shuttingDown, lockHolder, lockFile, arg,
                 attempts, history>>

\* Mutant of FinishStop: the handle is dropped without a kill.
FinishStopDropsHandle(c) ==
  /\ pc[c] = "finishStop"
  /\ held' = [held EXCEPT ![c] = NoPid]
  /\ lockFile' = [lockFile EXCEPT ![arg[c]] = NoPid]
  /\ pc' = [pc EXCEPT ![c] = "stopped"]
  /\ UNCHANGED <<proc, shared, arg, attempts, history>>

\* Kill and wait for the child it took, if any; the lock file goes either way.
FinishStop(c) ==
  /\ pc[c] = "finishStop"
  /\ proc' = [p \in Pids |-> IF p = held[c] THEN "dead" ELSE proc[p]]
  /\ held' = [held EXCEPT ![c] = NoPid]
  /\ lockFile' = [lockFile EXCEPT ![arg[c]] = NoPid]
  /\ pc' = [pc EXCEPT ![c] = "stopped"]
  /\ UNCHANGED <<shared, arg, attempts, history>>

CallStopAll(c) ==
  /\ pc[c] = "idle"
  /\ shuttingDown' = TRUE
  /\ pc' = [pc EXCEPT ![c] = "drainLock"]
  /\ UNCHANGED <<proc, children, stopping, lockHolder, lockFile, arg, held,
                 attempts, history>>

LockForDrain(c) ==
  /\ pc[c] = "drainLock"
  /\ lockHolder = NoThread
  /\ lockHolder' = c
  /\ pc' = [pc EXCEPT ![c] = "drain"]
  /\ UNCHANGED <<proc, children, stopping, shuttingDown, lockFile, arg, held,
                 attempts, history>>

DrainOne(c, i) ==
  /\ pc[c] = "drain"
  /\ children[i] # NoPid
  /\ proc' = [proc EXCEPT ![children[i]] = "dead"]
  /\ children' = [children EXCEPT ![i] = NoPid]
  /\ lockFile' = [lockFile EXCEPT ![i] = NoPid]
  /\ UNCHANGED <<stopping, shuttingDown, lockHolder, pc, arg, held, attempts,
                 history>>

DrainDone(c) ==
  /\ pc[c] = "drain"
  /\ \A i \in Ids : children[i] = NoPid
  /\ lockHolder' = NoThread
  /\ pc' = [pc EXCEPT ![c] = "stoppedAll"]
  /\ UNCHANGED <<proc, children, stopping, shuttingDown, lockFile, arg, held,
                 attempts, history>>

Call(c) ==
  \/ \E i \in Ids : CallStart(c, i) \/ CallStop(c, i)
  \/ CallStopAll(c)

Caller(c) ==
  \/ \E m \in Monitors : StartMonitor(c, m)
  \/ TakeChild(c)
  \/ FinishStop(c)
  \/ LockForDrain(c)
  \/ \E i \in Ids : DrainOne(c, i)
  \/ DrainDone(c)

-----------------------------------------------------------------------------
(* The monitor task.  It leaves its loop where the code returns: the pairs  *)
(* of checks of shutting_down and is_stopping before a poll, after an exit  *)
(* and after a back-off, each of which is two reads.                        *)

\* Mutant of LoadShuttingDown: the monitor does not look at the flag.
LoadShuttingDownIgnored(m, from, to) == Goto(m, from, to)

LoadShuttingDown(m, from, to) ==
  Goto(m, from, IF shuttingDown THEN "ended" ELSE to)

\* Mutant of IsStopping: the monitor does not look at the set.
IsStoppingIgnored(m, from, to) == Goto(m, from, to)

IsStopping(m, from, to) ==
  Goto(m, from, IF arg[m] \in stopping THEN "ended" ELSE to)

PollAbsent(m) ==
  /\ Goto(m, "poll", "ended")
  /\ lockHolder = NoThread
  /\ children[arg[m]] = NoPid

\* The child runs, or try_wait failed and is taken to mean that it runs.
PollRunning(m) ==
  /\ Goto(m, "poll", "pollFlag")
  /\ lockHolder = NoThread
  /\ children[arg[m]] # NoPid

\* Mutant of PollExited: the entry of the exited child stays in the map.
PollExitedKeepsEntry(m) ==
  /\ pc[m] = "poll"
  /\ lockHolder = NoThread
  /\ children[arg[m]] # NoPid
  /\ proc[children[arg[m]]] = "dead"
  /\ lockFile' = [lockFile EXCEPT ![arg[m]] = NoPid]
  /\ pc' = [pc EXCEPT ![m] = "exitFlag"]
  /\ UNCHANGED <<proc, shared, arg, held, attempts, history>>

\* The entry and its lock file go under one hold of the children mutex.
PollExited(m) ==
  /\ pc[m] = "poll"
  /\ lockHolder = NoThread
  /\ children[arg[m]] # NoPid
  /\ proc[children[arg[m]]] = "dead"
  /\ children' = [children EXCEPT ![arg[m]] = NoPid]
  /\ lockFile' = [lockFile EXCEPT ![arg[m]] = NoPid]
  /\ pc' = [pc EXCEPT ![m] = "exitFlag"]
  /\ UNCHANGED <<proc, stopping, shuttingDown, lockHolder, arg, held, attempts,
                 history>>

\* RestartTracker::next_delay.  Whether the window has elapsed is a choice
\* here: this module has no clock.
AttemptsUsed(m, elapsed) == IF elapsed THEN 0 ELSE attempts[m]

\* Mutant of NextDelay: the cap is compared with > instead of >=.
NextDelayPastCap(m) ==
  /\ pc[m] = "backoff"
  /\ \E elapsed \in BOOLEAN :
       /\ AttemptsUsed(m, elapsed) <= MaxAttempts
       /\ attempts' = [attempts EXCEPT ![m] = AttemptsUsed(m, elapsed) + 1]
  /\ pc' = [pc EXCEPT ![m] = "delayFlag"]
  /\ UNCHANGED <<proc, shared, lockFile, arg, held, history>>

NextDelay(m) ==
  /\ pc[m] = "backoff"
  /\ \E elapsed \in BOOLEAN :
       /\ AttemptsUsed(m, elapsed) < MaxAttempts
       /\ attempts' = [attempts EXCEPT ![m] = AttemptsUsed(m, elapsed) + 1]
  /\ pc' = [pc EXCEPT ![m] = "delayFlag"]
  /\ UNCHANGED <<proc, shared, lockFile, arg, held, history>>

GiveUp(m) ==
  /\ pc[m] = "backoff"
  /\ \E elapsed \in BOOLEAN :
       /\ AttemptsUsed(m, elapsed) >= MaxAttempts
       /\ attempts' = [attempts EXCEPT ![m] = AttemptsUsed(m, elapsed)]
  /\ lockFile' = [lockFile EXCEPT ![arg[m]] = NoPid]
  /\ pc' = [pc EXCEPT ![m] = "ended"]
  /\ UNCHANGED <<proc, shared, arg, held, history>>

Monitor(m) ==
  \/ LoadShuttingDown(m, "pollFlag", "pollStop")
  \/ IsStopping(m, "pollStop", "poll")
  \/ PollAbsent(m)
  \/ PollRunning(m)
  \/ PollExited(m)
  \/ LoadShuttingDown(m, "exitFlag", "exitStop")
  \/ IsStopping(m, "exitStop", "backoff")
  \/ NextDelay(m)
  \/ GiveUp(m)
  \/ LoadShuttingDown(m, "delayFlag", "delayStop")
  \/ IsStopping(m, "delayStop", "spawn")

-----------------------------------------------------------------------------
\* A harness process ends on its own.
Crash(p) ==
  /\ proc[p] = "alive"
  /\ proc' = [proc EXCEPT ![p] = "dead"]
  /\ UNCHANGED <<shared, lockFile, pc, arg, held, attempts, history>>

Next ==
  \/ \E t \in Threads : SpawnProcess(t)
  \/ \E c \in Callers : Call(c) \/ Caller(c)
  \/ \E m \in Monitors : Monitor(m)
  \/ \E p \in Pids : Crash(p)

Spec == Init /\ [][Next]_vars

\* Every thread is scheduled again and again by its runtime, so a step it can
\* take is taken.  Nothing obliges the application to make a call or a harness
\* to crash.
FairSpec ==
  /\ Spec
  /\ \A t \in Threads : WF_vars(SpawnProcess(t))
  /\ \A c \in Callers : WF_vars(Caller(c))
  /\ \A m \in Monitors : WF_vars(Monitor(m))

-----------------------------------------------------------------------------
(* Properties.                                                              *)

StopAllReturned == \E c \in Callers : pc[c] = "stoppedAll"

InMap(p) == \E i \in Ids : children[i] = p
HeldAt(p, steps) == \E t \in Threads : held[t] = p /\ pc[t] \in steps
HeldBySome(p) == \E t \in Threads : held[t] = p
Tracked(p) == InMap(p) \/ HeldBySome(p) \/ p \in replaced

\* In the hands of a thread whose remaining steps kill it.
Doomed(p) == HeldAt(p, {"unflag", "check", "kill", "finishStop"})

\* spawn_process's comment on the shutdown race: "a shutdown racing this spawn
\* cannot orphan the child".  Once stop_all has returned, a harness that still
\* runs is in the hands of a thread whose remaining steps kill it, or it was
\* dropped from the map earlier by an insert over its entry.
ShutdownCannotOrphan ==
  StopAllReturned =>
    \A p \in Pids : proc[p] = "alive" => Doomed(p) \/ p \in replaced

\* No harness is lost on the way between the map, the threads and the
\* operating system: the only way for a running one to be out of the
\* supervisor's reach is an insert over its entry.
NoUntrackedProcess == \A p \in Pids : proc[p] = "alive" => Tracked(p)

\* That insert takes two starts of one id.  For an id started once, crashes,
\* restarts, stop and stop_all in any order never make an insert find an entry
\* to drop.
SingleStartNeverReplaces ==
  \A t \in Threads :
    (pc[t] = "insert" /\ arg[t] \notin startedAgain)
      => children[arg[t]] = NoPid

\* poll_exit's comment: a lock file must not make "a zombie ... be mistaken
\* for a live external daemon".  For an id started once, a lock file names the
\* child in the map, or one that a thread is about to insert or about to kill
\* and whose file that thread removes.
LockFileNamesOwnedChild ==
  \A i \in Ids \ startedAgain :
    lockFile[i] # NoPid =>
      \/ lockFile[i] = children[i]
      \/ HeldAt(lockFile[i], {"unflag", "check", "insert", "kill",
                              "finishStop"})

\* What stop promises ("flag it (so the monitor won't restart)"): when an id
\* was started once and stop was called after that start had returned, then
\* once the stop has returned no harness of that id is in the map.  The code
\* does not keep this: a monitor past its last check restarts the harness.
StopIsFinal ==
  \A c \in lateStops :
    (pc[c] = "stopped" /\ arg[c] \notin startedAgain)
      => children[arg[c]] = NoPid

\* "Insert under the children lock and re-check shutting_down while holding it":
\* so the map and its closing are one atomic object, although the flag is set
\* without the lock and stop_all empties the map step by step.  An entry counts
\* from the check of the flag on, the emptying from when stop_all has the lock.
\* This module implements ChildTable.
Inside(step) == lockHolder # NoThread /\ pc[lockHolder] = step
entry ==
  [i \in Ids |->
    IF Inside("drain") THEN NoPid
    ELSE IF Inside("insert") /\ arg[lockHolder] = i THEN held[lockHolder]
    ELSE children[i]]
life == [p \in Pids |-> IF Inside("drain") /\ InMap(p) THEN "dead" ELSE proc[p]]
phase == IF Inside("drain") \/ StopAllReturned THEN "drained"
         ELSE IF shuttingDown THEN "closing" ELSE "open"
Table == INSTANCE ChildTable
MapIsOneTable == Table!Spec

\* Where StopIsFinal does hold: an id that is flagged and out of the map, while
\* no thread is between the last check of a restart and its insert, stays so
\* until start is called for it again.
Stopped(i) ==
  /\ i \in stopping
  /\ children[i] = NoPid
  /\ \A t \in Threads : arg[t] = i => pc[t] \notin SpawnPC

StoppedUntilStarted ==
  [][\A i \in Ids :
       Stopped(i) => Stopped(i)' \/ \E c \in Callers : CallStart(c, i)]_vars

\* After shutdown the supervisor comes to rest for good: every monitor has
\* returned and no harness runs but one that an insert had dropped before.
Settled ==
  /\ \A m \in Monitors : pc[m] \in {"unborn", "ended"}
  /\ \A p \in Pids : proc[p] = "alive" => p \in replaced

ShutdownSettles == shuttingDown ~> []Settled

\* No call waits for ever on the children mutex, whoever else holds it.
CallsReturn ==
  \A c \in Callers :
    pc[c] # "idle" ~> pc[c] \in {"started", "notStarted", "stopped",
                                 "stoppedAll"}

\* A stopped id loses its monitors, unless a restart that was already past its
\* last check takes the flag away again.
StopEndsMonitors ==
  \A i \in Ids :
    i \in stopping ~> \/ i \notin stopping
                      \/ \A m \in Monitors :
                           arg[m] = i => pc[m] = "ended"

=============================================================================
