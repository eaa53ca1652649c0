# Verification of tauri-python-sidecar

TLA+ models of the process supervision and its restarts in time, the sidecar
server's life cycle, the requests and their progress events, the schema migration
and the update flow of this repository, with the TLC runs that check them on small
instances and TLAPS proofs of the safety properties for all instances.

## The system

| Component | Code | State it keeps | Operations | Talks to |
|---|---|---|---|---|
| Sidecar supervision | `src-tauri/src/lib.rs`, `state.rs` | child handle (mutex), `shutting_down` (atomic), restart attempts and window of the monitor task | start-up sweep, WAL recovery, launch, monitor and restart, exit, `prepare_for_update` | the server process by handle, by the pid in its lock file, by image name, and by `shutdown.flag` |
| Harness supervisor | `src-tauri/src/supervisor.rs`, `state.rs` | map of children (mutex), set of stopping ids (mutex), `shutting_down`, one restart tracker per monitor, `harness_<id>.lock` files | `spawn_process`, `poll_exit`, `stop`, `stop_all`, monitor task, status and probes | N external processes; the exit handler; the start-up sweep |
| Sidecar server | `sidecar/server.py`, `shutdown.py`, `config.py` | lock file, token file, listening socket, connections | `run_server`: check and write lock, migrate, token, bind, serve, notice shutdown, clean up | lib.rs through files and its exit status; clients over TCP |
| Schema migration | `sidecar/storage/schema.py`, `migration_lock.py` | tables, `schema_version` sentinel, `<db>.migrate.lock` | `open_database`, `init_schema` | every process that opens the database |
| Client and request command | `sidecar_client.rs`, `commands/sidecar.rs` | none between calls | connect, authenticate, send, stream, time out, one-shot fallback | the server; a one-shot process |
| Connections, dispatcher, progress | `server.py`, `dispatcher.py`, `progress.py`, `handlers.py` | handler registry, progress queue per request | authenticate, dispatch, stream progress, respond | the client |
| Updater hook, UI | `ui/src/hooks/useUpdater.ts`, `App.tsx` | React state of the update flow | check, download, backup, install, retry, dismiss | `prepare_for_update`; the updater plugin |
| Paths, loader, errors | `paths.rs`, `loader.py`, `errors.py` | none | path and command construction, bootstrap, error envelopes | all of the above |
| Packaging and release | `packaging/`, `.github/` | none at run time | build, sign, publish | |

What is hard here, and what makes each part correct:

- **Harness supervisor.** Monitor tasks, API calls and the exit handler race on
  three pieces of shared state under two mutexes and an atomic. Correct: no
  interleaving loses a process, orphans one at shutdown, drops a live handle, or
  leaves a lock file for a process nobody owns; calls return; monitors end.
- **Sidecar supervision and server.** Two programs coordinate through files
  that either may leave behind when it is killed at any point; pids are reused;
  the server writes its lock only some time after it was spawned. Correct: one
  server per run, reachable with the token on disk; an exit stops it; a
  stranger's process is not killed; a crash's leftovers are repaired.
- **Schema migration.** Processes of possibly different versions open one
  database and may die anywhere. Correct: nobody uses a half-migrated schema,
  migrations are applied one process at a time, nobody waits for ever.
- **Requests.** A call meets a server that is starting, stopping, crashing or
  beside another one, and reads its token from a file that changes meanwhile; its
  timeouts race the handler, which cannot be stopped. Correct: a request that may
  have been executed is not executed again by the fallback; the caller is told
  what happened; a healthy server refuses nobody; calls end, and a server stops.
- **Progress.** Events pass through a queue between threads that is polled with
  two nested timeouts, and an expired poll goes on in its thread. Correct: events
  arrive in order, once, before one response, and the response arrives.
- **Restart schedule.** Two monitors count attempts in a window and sleep between
  them while processes crash, flags are set and sleepers wake late. Correct: a
  crash loop is bounded, giving up is earned, health is rewarded, and no crash
  goes unanswered.
- **Updater.** Overlapping asynchronous calls read a rendered state and write the
  next one. Correct: automatic downloads do not overlap, the progress bar is that
  of a download, an update found is downloaded, an install ends in the installer
  or in an error.

The lines at which these hazards bite are listed in `PROJECT.json` under
`hazards`, each with the properties that would catch it.

## Modules

| Module | Models | Notes |
|---|---|---|
| `ChildTable` | the promise of the supervisor's map of children | abstract specification |
| `HarnessSupervisor` | `supervisor.rs`, `state.rs` | the core: all threads of one run; implements `ChildTable` |
| `HarnessSupervisor_proofs` | | theorems about it, and the refinement |
| `HarnessRuns` | `run`, `cleanup_stale_harness_locks`, `cleanup_worker_lock` in `lib.rs` | extends `HarnessSupervisor` with exits, kills and restarts of the application |
| `HarnessRuns_proofs` | | theorems about it, on top of `HarnessSupervisor_proofs` |
| `RestartLadder` | `spawn_sidecar_monitor` in `lib.rs`, `RestartTracker` and `spawn_harness_monitor` in `supervisor.rs` | both monitors with a clock |
| `RestartLadder_proofs` | | theorems about it |
| `SidecarServer` | `run_server` in `server.py` | any number of server processes on one data directory |
| `SidecarLifecycle` | `lib.rs` | extends `SidecarServer` with the application, its runs, pid reuse |
| `SidecarLifecycle_proofs` | | theorems about it |
| `CallOnce` | the promise of `sidecar_request` | abstract specification |
| `SidecarRequest` | `commands/sidecar.rs`, `sidecar_client.rs`, the connections of `server.py` | extends `SidecarServer` with calls, connections and handlers; implements `CallOnce` |
| `SidecarRequest_proofs` | | theorems about it, and the refinement |
| `ProgressStream` | `_execute_with_progress_streaming`, `progress.py`, `send_request_with_progress` | one request: handler, queue, polls, loop, client |
| `ProgressStream_proofs` | | theorems about it |
| `SingleApply` | the promise of `init_schema` | abstract specification |
| `SchemaMigration` | `schema.py`, `migration_lock.py` | implements `SingleApply` |
| `SchemaMigration_proofs` | | theorems about it, and the refinement |
| `UpdateFlow` | `useUpdater.ts` | the hook's state, its effects and its asynchronous calls |
| `UpdateFlow_proofs` | | theorems about it |
| `MC*` | | constants and symmetry for TLC |

### HarnessSupervisor

A *caller* is one API call of the embedding application: `start` (which is
`spawn_process`, then `spawn_harness_monitor`), `stop` or `stop_all`. A *monitor*
is one task made by `spawn_harness_monitor`. `pc`, `arg` and `held` are a
thread's program counter, harness id and owned `Child`.

| Code | Actions |
|---|---|
| `spawn_process` | `SpawnFails`, `SpawnChild` (process and lock file), `UnflagStopping`, `CheckShutdown` (takes the mutex), then `InsertChild` or `KillLate` |
| `stop` | `CallStop`, `TakeChild`, `FinishStop` |
| `stop_all` | `CallStopAll`, `LockForDrain`, `DrainOne` per child, `DrainDone` |
| `poll_exit` | `PollAbsent`, `PollRunning`, `PollExited` |
| `RestartTracker::next_delay` | `NextDelay`, `GiveUp` |
| the checks of `shutting_down` and `stopping` | `LoadShuttingDown`, `IsStopping`, two reads at three places |

The children mutex is held over several steps (`lockHolder`), the stopping mutex
never is. Where a pid is known to one thread alone, an effect on it and an
effect nobody can order against it share a step: `FinishStop` kills and removes
the file, `SpawnChild` spawns and writes it (or fails to write it). There is no
clock: `next_delay` finds the window elapsed or not by choice, which covers
every timing. A `try_wait` that fails counts as "running", as in the code.
`started`, `startedAgain`, `lateStops` and `replaced` are history variables that
only properties read.

`ChildTable` is what the map promises to someone who sees neither the mutex nor the
flag: one table that is closed in one step and emptied in another, together with the
death of all that is in it. The refinement needs two points where the code's effect
counts before the code has made it: an entry counts from the check of the flag
under the mutex (`CheckShutdown`) and not from the insert that follows, and the
emptying from when `stop_all` has the mutex (`LockForDrain`) and not from the last
child. The flag itself is set without the mutex, which is why a closed table
may still have an insert ahead of it that counts as made before.

The properties say *for an id started once* where the code's own guarantee ends:
two starts of one id make `HashMap::insert` drop a live child
(`supervisor.rs:334`), and `replaced` is the set of those.

### HarnessRuns

Adds the application's runs: `EndRun` drops everything a run has in memory,
whatever its threads were doing, and keeps processes and lock files; `SweepLock`
is `cleanup_worker_lock` on one harness lock. A failing file removal is not
modelled. `strays` is a history variable: the harnesses that outlived a run.

### RestartLadder

`kind` says whose monitor it is. `Tick` is one second; `timer` is what a sleeper may
still sleep, and it wakes (`Wakes`) during the last `MaxLate` ticks of it. The two
monitors differ in `ResetsOn`: the sidecar's compares the age of the window once
per crash (`lib.rs:168-172`), the tracker of a harness before every attempt
(`supervisor.rs:285-289`), also between the failing spawns of one ladder. `Window`
starts when the monitor does and again at each reset; its age is not the server's
health, which is why `upFor` is a variable of its own that no guard reads. `made`
holds the ages of the attempts. `Halt` stands for an exit, an update or a stop, whose
order against a restart is the subject of `HarnessSupervisor` and `SidecarLifecycle`.

### SidecarServer and SidecarLifecycle

`at[p]` is where the process with pid `p` is: gone, an unrelated program (a
*stranger*), or a step of `run_server`. A pid is reused once its process is gone
and the application holds no handle on it (Windows keeps a pid while a handle is
open). The lock file holds a pid; its second line, the image name, is the same
for all servers and so is represented by `IsServer`. The platform is Windows,
the one the application is shipped for: `taskkill` without `/F` has no effect on
a process without a window, so the shutdown flag is the only polite signal, and
whether the server polls it in time is a choice.

The main thread is `app`: `Sweep` ... `SweepUnlink` for `cleanup_stale_workers`,
`Launch`, then `BeginExit`, `TakeChild` and the shared `WriteFlag` ...
`RemoveFlag` of `cleanup_workers`, or the same from `BeginUpdate` followed by
`KillByName` and `Confirm`. The monitor task is `mon`; `MonSpawn` and `MonStore` are two steps
because the spawn (`lib.rs:208`) and the store (`lib.rs:210`) are. `RunningImageName` is
what `tasklist` says of a pid; `IsExpectedProcess` and `IsProcessRunning` are the
two questions that the cleanup asks of it. `staleWal` names the directories in
which a killed server left a WAL.

Whatever the code asks of the operating system may fail, and the code goes on:

| Code | In the model |
|---|---|
| `tasklist` cannot be run or its output not be read (`lib.rs:253-255`, `server.py:379-382`): `None`, as if nobody were there | the branch for a dead process is always open (`SweepCheck`, `CleanupCheck`, `PollTarget`, `DropStaleLock`); a name that is given is true |
| `taskkill` fails or cannot be run (`lib.rs:402-406`, `:517-525`) | `KillFails` in `SweepKill` and `ForceKill`; an exit that cannot run it at all leaves the lock file, too |
| `taskkill` by image name spares servers (`lib.rs:873-876`), the polls end with "may still be running" (`:898-903`) | `KillByName` kills any set of servers, `Confirm` goes on whatever is left |
| a lock file or the flag cannot be read, written or removed | `RemoveLock`, `RemoveShutdownFlag`, `WriteFlag`, and the second branch of `SweepRead` and `CleanupRead` |
| `start` of a server raises, for whatever reason (`server.py:156-162`, `:541-551`) | `StartFails`: on to the `finally` block |

Two history variables keep account of it. `missed` is the set of servers that the
last clean-up may leave: every pid if it began without `InSight`, else those at which
a tool or a file failed it (`Misses`), and after an update those that the kill by name
spared. `flagStuck` says that this run's start-up did not get the flag file removed.
`InSight` is what an exit needs to find every server: the lock file names each of
them, as that server wrote it, and the monitor is not about to spawn another.

A second instance of the application is not modelled, and neither is the launcher
process of a development virtual environment (`README.md:300-305`).

### SidecarRequest

`call[c]` is where `sidecar_request` is with the call `c`, `conn[c]` where
`_handle_client` is with its connection (each call opens one of its own),
`job[c]` where its handler is in the thread pool; `token[c]`, `request[c]` and
`reply[c]` are the lines on the wire.

| Code | Actions |
|---|---|
| `sidecar_request` | `RefuseMethod`, `Connect` or `ConnectFails`, and the outcome |
| `send_request_inner` | `Send`, `SendFails`, `Receive`, `ReadFails` |
| `sidecar_request_spawn`, `_run_oneshot` | `SpawnOneShot`, `RunOneShot`, `OneShotDies` |
| `_authenticate` | `Authenticate`, `Reject`, `AuthTimesOut` |
| `_handle_client` | `StartJob`, `Respond`, `CloseIdle`, `WriteFails` |
| `handle_jsonrpc_message` | `RunJob` |
| `stop` | `CloseConnection`; the rest of it is in `SidecarServer` |

A pid is one server process here and so its session token too; pids are not
reused. The servers take every step of `SidecarServer`, may run side by side, and
are started (`Start`), killed (`Crash`) and asked to stop (`SetFlag`) at any time, and
the application may remove the lock file at any time (`UnlinkLock`), as the end of
each of its clean-ups does.
The outcome *failed* stands for every error but the server's refusal, and leaves
open whether the request was executed. A handler may take for ever, goes on when
its connection or its server's main task has ended, and dies with the process.
`wait_closed` of the listening socket does not wait for connections in Python
3.11, the version of the releases (`.github/workflows/release.yml:31`); later
versions do. `ReadFails` and `CallsEnd` are about the simple client, the one that all
methods of the template use; the streaming client starts its timeout anew with every
line (`sidecar_client.rs:174`, `:202`), so that endless progress would keep a call
open. A partial write of a line is not told from none. `CallOnce` states what the renderer is
promised; the refinement maps a call that is over to its outcome and counts its
executions. `executed`, `booted`
and `rivals` are history variables that no action of the code reads.

### ProgressStream

One request with its events. `poll` is the get the loop waits for, in the pool's
queue (`pending`), in a thread (`getting`) or finished; `WaitExpires` is the outer
timeout, which cancels a pending poll, drops what a finished one has brought and
leaves a running one to itself as one of `strays`. A stray may take an event or
the sentinel for nobody (`StrayEnds`), so events can be lost, which `late` records;
`NothingLost` says that this and the drain's limit are the only ways.
`LONG_RUNNING_METHODS` is empty in the template, so its renderer uses the simple
client: the streaming one is modelled as the code that the template offers.

### SchemaMigration

`pc[p]` follows `open_database`; `schema` is the set of migrations in effect,
`version` the sentinel. DDL commits by itself in Python's `sqlite3`, so each
migration is a step of its own and survives a crash. `Current` gives each
process's `CURRENT_SCHEMA_VERSION`, so old and new programs may share a
database. The model's chain has as many migrations as the version says; the
template ships one.

### UpdateFlow

A setState, and the code between two awaits, is one action. `state` is React's
state, `rendered` that of the last rendering, whose closures the user calls; `due`
are the effects of that rendering. `Effects` runs them in the order they are
declared: the download effect (`useUpdater.ts:193-212`), then the effect that
resets `downloadInitiatedRef` when the version changes. An `Update` object is what
one `check()` returned; `loading`, `verifying` and `downloaded` say where its
downloads are, since the event `Finished` is handled before the promise of the
download returns. `install[i]` is where a call of `installAndRestart` is; the backup
and `prepare_for_update` are steps that may fail, and a failure of the second is only
logged, as in the code. `checking` and `progress` are display only and left out, and
the plugin is modelled from how the hook uses it.

## Runs

| Run | Shows | Instance, states |
|---|---|---|
| `harness_supervisor` | shutdown orphans nothing, no process lost, single start never replaces, lock files name owned children; implements `ChildTable`; a stop that meets no restart is final; calls return, shutdown settles, stop ends monitors | 1 id, 2 calls, 2 monitors, 3 processes, 2 attempts; 83 000 |
| `harness_stop` (violation) | `stop` is undone by a restart in flight | 1 id, 2 calls, 1 monitor |
| `harness_runs` | after any end of a run the next starts with clean lock files; an exit orphans only what a thread was about to kill | 2 ids, 3 calls, 1 monitor, 3 processes, 2 runs; 266 000 |
| `harness_sweep` (violation) | the sweep never kills a harness | 2 ids, 2 calls, 1 monitor, 3 processes, 2 runs |
| `restart_ladder` | attempts per window are bounded, giving up follows a whole ladder, a window of health is forgiven, no crash goes unanswered | ladder 1, 2, 2, window 8, polls of 1, 1 late; 1 048 000 |
| `sidecar_lifecycle` | with tools and removals that fail at will: one server of its own per run, in whose way nothing left behind stands; an exit or update that sees every server leaves none but those a failing tool spared; strangers survive | 2 pids, 1 restart, 2 runs; 2 659 000 |
| `sidecar_exit` (violation) | an exit during a start or restart orphans the server | as above |
| `sidecar_wal` (violation) | the WAL of a killed server is not recovered | as above |
| `schema_migration` | opened means migrated; implements `SingleApply`; the lock is freed | versions 1, 2, 2; 9 200 |
| `request_calls` | a call is executed at most once and its outcome tells what happened; refusals have a cause; implements `CallOnce`; calls end, servers stop | 2 servers, 1 permitted call, 1 other; 111 000 |
| `progress_stream` | events in order before one response; without an abandoned poll the renderer is shown every one; the response arrives | 4 events, drain limit 2, 2 strays; 28 400 |
| `update_flow` | automatic downloads do not overlap, progress is real, the first update is downloaded, an install is answered | 3 update objects of 2 versions, 1 install, 2 checks, 1 retry; 671 000 |

The type invariants of `RestartLadder`, `HarnessRuns`, `SidecarLifecycle` and
`SidecarRequest` are proved and not run.

Bounds. Each caller makes one call, so two callers give every pair of start, stop
and shutdown on one id, with two monitors and three processes for the start, its
restart and a rival; ids share nothing but the flag and the mutex, and three
callers on two ids are in `harness_runs`. Two attempts reach both a restart after a
failed restart and the give-up. A ladder of three rungs has two different delays
and a repeated one, like that of the code (1, 2, 5, 5, 5 seconds), and a window of 8
holds it with every sleeper late (`LadderFitsWindow`), as 300 seconds hold 18; ages
saturate above the last number that a guard or a property compares. Two pids are
enough for a server, its successor and a stranger that takes either pid, because
pids are reused; two runs make leftovers of a run meet the next one; one restart
reaches both the retry and the give-up. Calls share nothing but the servers, so one
permitted call against two servers, which may follow or overlap each other, and one
that is not permitted give every situation a call can be in. Four events with a
drain limit of two (100 in the code) exceed the limit while two strays take others
away. Three processes of two versions give an applier, a waiter and a late comer,
upgrade and downgrade. Two checks and a retry are what two overlapping answers, of
one version or of two, and a download beside an automatic one take; the theorems
about `UpdateFlow` hold for any number of them. All bounds are
in the configurations; the models' actions have no others. Deadlock is not checked
where the system may stop: when its calls, pids, runs and events are used up, when a
monitor has ended, and when the installer has taken over; it is for the migrations.

Fairness. `harness_supervisor` and `schema_migration` assume weak
fairness of each thread or process: a thread that can take its next step takes
it, since its runtime and the operating system schedule it. `CallsEnd`,
`ServerStops` and `AnswerArrives` assume it of the client's thread (whose reads
have a timeout), of the server's main task and event loop, of the closing of a
connection, and of polls that have a thread (whose gets have a timeout). Handlers
are not assumed to end, polls not to get a thread, and connects, one-shot
processes and crashes not to happen. `CrashIsAnswered` assumes it of the clock and
of the monitor, and strong fairness of noticing an exit, because a `try_wait` may
fail now and then but not for ever. `update_flow` assumes it of React's renderings and
effects and of the steps of an install, and not of checks and downloads, which have
no timeout. No call, crash,
failure or timeout is obliged to happen. Mutexes are not assumed to be fair.

## Disagreements between the code and its documentation

Shown by a run that TLC finds violated:

1. `harness_stop`: `stop` promises that the monitor will not restart
   (`supervisor.rs:407-408`), but a monitor past its last check does, and
   `spawn_process` takes the stopping flag away. `StoppedUntilStarted` says when the
   promise does hold.
2. `harness_sweep`: the sweep of harness locks is said to force-kill
   (`lib.rs:667-672`); the locks hold no image name, so it never does.
3. `sidecar_exit`: background workers are "never orphaned" on a normal exit
   (`lib.rs:967-969`), but a server without a lock file yet is, without any tool or
   file failing. `ExitStopsWhatItSees` says that beside such a server, and one the
   monitor is about to spawn, an exit leaves only those that a failing tool or file
   made it pass over, and `ServingIsInSight` that a server that serves is neither of
   the first two.
4. `sidecar_wal`: recovery opens `sidecar.db` in the data directory
   (`lib.rs:716`), while the server keeps it in `.index/` (`config.py:43-44`).
Met while modelling, and described here only:

5. Migrations apply "exactly once" (`schema.py:34`), but a chain and its sentinel are
   committed separately (`schema.py:55-56`): a process that dies between them makes
   the next one run the chain again. `SingleApply` promises one applier at a time,
   and no more.
6. The restart counter resets "after 300 seconds of health" (`README.md:357`, also
   `lib.rs:61-65`), but it is the age of the window that counts (`lib.rs:169`,
   `supervisor.rs:286`): a server that crashes once in every 70 seconds is restarted
   for ever. `BurstBounded` and `HealthForgives` say what does hold.
7. The hook downloads "when update available" (`useUpdater.ts:192`), but a version
   found while `downloadInitiatedRef` is set is offered and not downloaded: the
   second effect resets the ref after the first one has looked at it, and no further
   rendering brings the first one back. `FirstUpdateIsDownloaded` is about the first.
8. `readyToInstall` belongs to the hook and not to an update object: a check that
   answers after a download leaves it set for an object that was never downloaded,
   whose install then throws. `InstallIsAnswered` shows that the user is told.
9. A failed install leaves `shutting_down` set (`lib.rs:862`): the application goes on
   without a monitor until it is restarted.
10. The ref is there "to prevent race conditions" (`useUpdater.ts:67`, `:192`), but
   downloads may overlap without the user's doing: one whose signature is refused
   after `Finished` clears `downloading` (`:127`) of the one that was started after a
   dismissal and another check; the next check clears the error, and the effect
   starts a second download beside it, since `:216` has reset the ref. It takes three
   checks. `AutoDownloadsDoNotOverlap` excepts it by `rejected`, and its theorem shows
   that there is no other way.
11. The health check after the spawn is "what actually confirms the port was still
   free" (`README.md:391-394`), but the probe is answered by whatever listens there
   (`supervisor.rs:228-262`), a program that took the port in between included.
12. The exit handler stops all harness children "so none are orphaned" (`lib.rs:980`),
   but a thread that spawned one before the flag was set kills it only some steps
   later (`supervisor.rs:325-327`), and the process may end in between.
   `ExitOrphansOnlyInFlight` shows that an exit leaves nothing else.
13. `prepare_for_update` is to "ensure the NSIS installer can overwrite the sidecar
   binary" (`lib.rs:856-857`), but it drops the result of the kill by name and answers
   `Ok` with the sidecar possibly still running (`lib.rs:897-903`), as the comment above
   `is_sidecar_running` allows ("the installer will retry or overwrite").
   `PreparedUpdateIsQuiet` therefore excepts the survivors of that kill; it says that
   there is no other server and that none comes later.
14. The same comment has `is_process_running` assume that a process is alive when
   `tasklist` fails; it assumes that it is dead (`lib.rs:253`, `:291`), and a clean-up
   then removes the lock file of a server that goes on.
15. `stop` removes the lock file of its harness after it has let go of the map
   (`supervisor.rs:425`), so a start in between loses the lock file it has just
   written. `LockFileNamesOwnedChild` says that a lock file names a child, and not that
   a child has one.

## Proofs

For every set of ids, calls, monitors, processes and every cap on attempts
(assumptions `ThreadKinds`, `AttemptsAssumption`, `NoneAssumption`):

- `Typing`: `TypeOK`.
- `NoProcessLost` and `ShutdownSafe` follow from `CustodyInv`, which is inductive
  relative to `TypeOK`. `ShutdownCannotOrphan` is not inductive: that no thread is
  past the check of the flag once `stop_all` has returned (`DrainInv`) needs that
  `insert` and `drain` exclude each other (`MutexInv`), and that a survivor is in
  some thread's hands needs to know where handles can be (`HandleInv`,
  `NoUntrackedProcess`).
- `Implements`: `HarnessSupervisor` implements `ChildTable`. Beside mutual exclusion
  and `DrainInv` it needs that no two threads or entries have one process
  (`OwnerInv`), so that what is entered was not in the table before. While the mutex
  is free the mapping is the plain one (`Unlocked`), and what another thread does
  beside its holder does not show (`Bystanders`); `SpawnRefines`, `CallRefines` and
  `MonitorRefines` take the steps one by one.
- `StopHolds`: `StoppedUntilStarted`, from `TypeOK` alone: a monitor of a stopped id
  that is not past its last check never gets past it.
- `HolderGoesOn`: whoever holds the children mutex has a child to insert or a map to
  drain, and needs no other thread to go on: the part of `CallsReturn` that is not
  about fairness.
- `SingleStartSafe` and `LockFileSafe` follow from `SingleStartInv`: an id started
  once has at most one thread that may ever insert for it, and no entry while
  that thread is about to (`OneStarterInv`); and a lock file names the entry, or
  the handle of a thread working on that very id (`LockFileInv`).
- For every number of runs (`RunsAssumption`), `RunsTyping` and `LockFilesFresh`,
  from `RunsInv`: whatever the threads of a run were doing, its end leaves nothing in
  memory (`AtRest`), and the sweep of the next one leaves no lock file, so that it
  begins with `SingleStartInv` again (`CleanSlate`).
- `ExitReaches`: `ExitOrphansOnlyInFlight`, from `ReachInv`: what runs is tracked by
  this run or outlived an earlier one; when `stop_all` has returned, what is tracked
  is about to be killed (`AfterDrain`).

For every ladder, window, poll interval and lateness (`LadderAssumption`):

- `Typing`: `TypeOK`.
- `BurstsBounded`: `BurstBounded`, from `BurstInv`, which tells the attempts of the
  present window, of which there are as many as `attempts` says at most, from those
  before it, of which there are never more than a ladder has.
- `GivingUpIsEarned`: `GiveUpIsEarned`, from `EarnedInv`: while a window is open the
  counter counts nothing older than it, and each attempt of a sidecar's ladder will be
  young enough when the sleep of the present rung is over (`InLadder`). That the sums of
  the sleeps (`slept`) are defined and grow is an induction over the ladder, done by
  smallest counterexample (`SmallestNat`, `SumsExist`, `SleptGrows`).
- `HealthAlwaysForgives`: `HealthForgives`, from `HealthInv`, by which a window is at
  least as old as the process is, give or take a late sleeper.

For every set of pids, runs and attempts (`NoPidAssumption`, `BoundsAssumption`):

- `Typing`: `TypeOK`.
- `StrangersSurvive`: `KnownStrangersSurvive`, from `TargetInv`: between the
  comparison of image names and the kill, the target is a server, gone, or a
  newcomer.
- `OneServer`: `OneServerPerRun`, from `OwnInv`: every server of this run is the
  child or the one the monitor is about to store, there is none before the launch,
  and the monitor spawns only when there is none.
- `Reachable`: `LoneServerIsReachable`, from `FilesInv` and `ReadyInv`: while nothing
  of an earlier run is about and no clean-up has begun, the lock file is that of the
  one server from when it has written it, and the token file from when it has made
  it; a server about to make its token finds none (`Untouched`); the flag is up only
  if the start-up left it; and the port is free or that of a server that listens
  (`PortInv`). A start may fail at every step of it.
- `ExitStops`: `ExitStopsWhatItSees`, from `ExitInv`: a clean-up that began with every
  server in sight has, until it is through with it, each server it has not passed over
  in the lock file or in its hands as `target` (`InHand`), and no monitor past its last
  check. `UpdateQuiet`: `PreparedUpdateIsQuiet`, from the same invariant: since the kill
  by name every server is one of its survivors, or a spawn was under way then.
  `ServingIsInSight`, from `OwnInv` and `FilesInv`: while the one server of a run serves
  and no update is prepared, an exit has every server in sight.

For every set of processes and every assignment of versions
(`CurrentAssumption`, `NoProcAssumption`):

- `Typing`: `TypeOK`; `LockHeld`: the lock names exactly the process in the locked
  part; `OpenSafe`: `OpenedIsMigrated`, from `ChainInv`, by which the sentinel,
  open processes and appliers vouch only for what is in the schema.
- `Implements`: `SchemaMigration` implements `SingleApply`, where the applier is
  the process in `apply` or `sentinel`. `OneApplier` shows that there is one at
  most, `StepRefines` takes each step to a step of `SingleApply` or a stutter.

For every set of servers and calls (`NoPidAssumption`):

- `Typing`: `TypeOK`.
- `ExecutedOnce` and `AnswersTell` follow from `CallInv`. `AtMostOnce` is not
  inductive: a call that has not connected must not be known to any server
  (`Unconnected`), one execution must belong to one handler or one one-shot process
  (`Connected`), a request still to be read must not have been executed
  (`Unread`), and a reply must match what the handler did (`Replied`).
- The theorems hold for every moment at which the lock file may be removed.
- `RefusalsExplained` follows from `ServerInv`, by which the port and the token
  file of a lone server are its own, and `PeerInv`, by which a call that waits for
  a server that still serves and never had a rival carries that server's token.
- `Implements`: `SidecarRequest` implements `CallOnce`: under `CallInv` each step of the
  servers is a stutter, and each step of a call is one of `Execute`, `Ends`, or both at
  once for a one-shot process.

For every number of events, every drain limit and every number of strays
(`BoundsAssumption`, `MarkersAssumption`):

- `Typing`: `TypeOK`; `StreamInOrder`: `SentInOrder`, from `StreamInv`: the queue
  holds events in order, above what was sent and what the poll has in hand.
- `Relayed`: what the renderer is shown is what was sent, from the start and without
  a gap, and the response is returned after all of it.
- `AllSent`: `NothingLost`, from `Kept`, `Numbered` and `Relayed`: unless a poll was
  abandoned, what was sent, what is in hand and what is in the queue are together
  all that was reported, numbered through, and the sentinel comes last.

For every set of update objects, versions, clicks and bounds (`UpdatesAssumption`):

- `Typing`: `TypeOK`; `ProgressAlwaysReal` and `AutoNeverOverlaps` from `LoadInv`: the
  two properties together with `OneDownload`, by which, while the user has asked for
  no download and no signature was refused, a download under way shows in
  `downloading`, and an effect that would start another one is not due before it
  shows.

Model-checked only: the liveness properties (`ENABLED` and leads-to under fairness are
out of the prover's reach here).

## Not modelled

Packaging, installer hooks and CI (they do not run with the program); path and
command construction (`paths.rs` computes strings and keeps no state but an override
that tests set); the wire format and the answer of health probes; log and error
texts; `App.tsx`, which polls the
sidecar and does not use the hook (wiring it is left to the embedding application); the SQLite
calls of the WAL recovery beyond their effect. `HarnessStatus` is a
pair of reads that changes nothing. The handler registry is filled once.

## Plan

What is left, in order of importance:

1. The polls of `App.tsx` through `sidecar_request` while `prepare_for_update` and the
   installer run: a one-shot process may be spawned beside them, which needs
   `UpdateFlow`, `SidecarLifecycle` and `SidecarRequest` side by side.
2. A second instance of the application on one data directory.
3. Health probes and port injection of a harness, with `status` as a pair of reads.
4. Proofs: what the other liveness properties rest on, as `HolderGoesOn` is for
   `CallsReturn`; and one abstract restart counter that the three models of the
   monitors implement.
