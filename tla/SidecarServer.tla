---------------------------- MODULE SidecarServer ----------------------------
(***************************************************************************)
(* The life of the Python server process, sidecar/server.py: run_server    *)
(* from its first check to its last unlink, for any number of processes    *)
(* that share one lock file, one token file, one port and one data         *)
(* directory.  Nothing here serialises two servers: the lock file is       *)
(* checked and written in separate steps, and every removal is             *)
(* unconditional.                                                          *)
(*                                                                         *)
(* A process is known by its pid, which the operating system may give to   *)
(* an unrelated program (a stranger) or to a later server once the process *)
(* is gone.  The platform is Windows, the one the application ships for:   *)
(* process names are compared, and no signal reaches the server.           *)
(***************************************************************************)
EXTENDS Naturals, FiniteSets

CONSTANTS Pids, NoPid

ASSUME NoPidAssumption == NoPid \notin Pids

VARIABLES
  at,            \* where the process with this pid is; "gone" if there is none
  seen,          \* the pid that process read in the lock file
  lockFile,      \* the pid in sidecar_server.lock
  tokenFile,     \* whose token is in sidecar_server.token
  port,          \* who listens on the server's port
  shutdownFlag,  \* whether shutdown.flag exists
  staleWal       \* the directories whose sidecar.db has a left-over WAL

serverVars == <<at, seen, lockFile, tokenFile, port, shutdownFlag, staleWal>>
exceptLock == <<at, seen, tokenFile, port, shutdownFlag, staleWal>>
exceptFlag == <<at, seen, lockFile, tokenFile, port, staleWal>>

\* The data directory, and its .index subdirectory (config.py: db_path).
Dirs == {"data", "index"}
ServerDbDir == "index"

Starting == {"boot", "judge", "lock", "storage", "token", "tokenCreate", "bind"}
Stopping == {"stopToken", "stopSocket", "unlock"}
ServerAt == Starting \cup {"serving"} \cup Stopping

IsServer(p) == at[p] \in ServerAt

ServerTypeOK ==
  /\ at \in [Pids -> ServerAt \cup {"gone", "stranger"}]
  /\ seen \in [Pids -> Pids \cup {NoPid}]
  /\ {lockFile, tokenFile, port} \subseteq Pids \cup {NoPid}
  /\ shutdownFlag \in BOOLEAN
  /\ staleWal \subseteq Dirs

ServerInit ==
  /\ at = [p \in Pids |-> "gone"]
  /\ seen = [p \in Pids |-> NoPid]
  /\ lockFile = NoPid
  /\ tokenFile = NoPid
  /\ port = NoPid
  /\ shutdownFlag = FALSE
  /\ staleWal = {}

Move(p, from, to) ==
  /\ at[p] = from
  /\ at' = [at EXCEPT ![p] = to]

-----------------------------------------------------------------------------
(* _is_server_running: read the lock file, then ask for the image name of   *)
(* the process it names.                                                    *)

ReadLock(p) ==
  /\ Move(p, "boot", IF lockFile = NoPid THEN "lock" ELSE "judge")
  /\ seen' = [seen EXCEPT ![p] = lockFile]
  /\ UNCHANGED <<lockFile, tokenFile, port, shutdownFlag, staleWal>>

\* Mutant of RefuseToStart: the clean-up of the finally block runs here too.
RefuseAndCleanUp(p) ==
  /\ Move(p, "judge", "gone")
  /\ IsServer(seen[p])
  /\ seen' = [seen EXCEPT ![p] = NoPid]
  /\ tokenFile' = NoPid
  /\ UNCHANGED <<lockFile, port, shutdownFlag, staleWal>>

\* The lock names a live server, and tasklist says so.  It may be this very
\* process, if its pid was used before.  run_server returns, and the process
\* ends.
RefuseToStart(p) ==
  /\ Move(p, "judge", "gone")
  /\ IsServer(seen[p])
  /\ seen' = [seen EXCEPT ![p] = NoPid]
  /\ UNCHANGED <<lockFile, tokenFile, port, shutdownFlag, staleWal>>

\* Mutant of DropStaleLock: the server goes on without a lock of its own.
DropStaleLockOnly(p) ==
  /\ Move(p, "judge", "storage")
  /\ lockFile' = NoPid
  /\ seen' = [seen EXCEPT ![p] = NoPid]
  /\ UNCHANGED <<tokenFile, port, shutdownFlag, staleWal>>

\* Nobody there, a program of another name, or no answer: tasklist cannot be run
\* or takes more than two seconds, which is taken for nobody even if a server is
\* there.  Whatever file is there now goes.
DropStaleLock(p) ==
  /\ Move(p, "judge", "lock")
  /\ lockFile' = NoPid
  /\ seen' = [seen EXCEPT ![p] = NoPid]
  /\ UNCHANGED <<tokenFile, port, shutdownFlag, staleWal>>

CreateLockFile(p) ==
  /\ Move(p, "lock", "storage")
  /\ lockFile' = p
  /\ UNCHANGED <<seen, tokenFile, port, shutdownFlag, staleWal>>

\* _init_storage opens the database and closes it again; the close folds any
\* WAL back in.
InitStorage(p) ==
  /\ Move(p, "storage", "token")
  /\ staleWal' = staleWal \ {ServerDbDir}
  /\ UNCHANGED <<seen, lockFile, tokenFile, port, shutdownFlag>>

\* An error here is outside the try: no finally runs, the lock file stays.
StorageFails(p) ==
  /\ Move(p, "storage", "gone")
  /\ UNCHANGED <<seen, lockFile, tokenFile, port, shutdownFlag, staleWal>>

\* start: _generate_session_token unlinks the file and creates it with O_EXCL,
\* then the socket is bound.
UnlinkToken(p) ==
  /\ Move(p, "token", "tokenCreate")
  /\ tokenFile' = NoPid
  /\ UNCHANGED <<seen, lockFile, port, shutdownFlag, staleWal>>

CreateToken(p) ==
  /\ Move(p, "tokenCreate", "bind")
  /\ tokenFile = NoPid
  /\ tokenFile' = p
  /\ UNCHANGED <<seen, lockFile, port, shutdownFlag, staleWal>>

Bind(p) ==
  /\ Move(p, "bind", "serving")
  /\ port = NoPid
  /\ port' = p
  /\ UNCHANGED <<seen, lockFile, tokenFile, shutdownFlag, staleWal>>

\* Any step of start may raise an OSError: the file is another server's by now
\* or cannot be written, the port belongs to another server or program, or is
\* still in TIME_WAIT.  It is logged, and the finally block runs.
StartFails(p) ==
  /\ at[p] \in {"token", "tokenCreate", "bind"}
  /\ at' = [at EXCEPT ![p] = "stopToken"]
  /\ UNCHANGED <<seen, lockFile, tokenFile, port, shutdownFlag, staleWal>>

\* The shutdown loop finds the flag file.
NoticeShutdown(p) ==
  /\ Move(p, "serving", "stopToken")
  /\ shutdownFlag
  /\ UNCHANGED <<seen, lockFile, tokenFile, port, shutdownFlag, staleWal>>

\* The finally block: _cleanup_session_token, the socket, _remove_lock_file.
\* The files are removed whoever wrote them.
RemoveToken(p) ==
  /\ Move(p, "stopToken", "stopSocket")
  /\ tokenFile' = NoPid
  /\ UNCHANGED <<seen, lockFile, port, shutdownFlag, staleWal>>

CloseSocket(p) ==
  /\ Move(p, "stopSocket", "unlock")
  /\ port' = IF port = p THEN NoPid ELSE port
  /\ UNCHANGED <<seen, lockFile, tokenFile, shutdownFlag, staleWal>>

\* wait_closed has returned: no connection is left open.
RemoveLockFile(p) ==
  /\ Move(p, "unlock", "gone")
  /\ lockFile' = NoPid
  /\ UNCHANGED <<seen, tokenFile, port, shutdownFlag, staleWal>>

Serve(p) ==
  \/ ReadLock(p)
  \/ RefuseToStart(p)
  \/ DropStaleLock(p)
  \/ CreateLockFile(p)
  \/ InitStorage(p)
  \/ StorageFails(p)
  \/ UnlinkToken(p)
  \/ CreateToken(p)
  \/ Bind(p)
  \/ StartFails(p)
  \/ NoticeShutdown(p)
  \/ RemoveToken(p)
  \/ CloseSocket(p)
  \/ RemoveLockFile(p)

\* The process ends at once, by a crash, a kill, or an error that run_server does
\* not catch (no lock file can be written, or no file removed).  Its port is
\* released, its files stay, and a database it had open keeps its WAL.
Die(p) ==
  /\ at' = [at EXCEPT ![p] = "gone"]
  /\ seen' = [seen EXCEPT ![p] = NoPid]
  /\ port' = IF port = p THEN NoPid ELSE port
  /\ staleWal' = staleWal \cup
                   (IF at[p] = "storage" THEN {ServerDbDir} ELSE {})
  /\ UNCHANGED <<lockFile, tokenFile, shutdownFlag>>

\* A new server process.
Boot(p) ==
  /\ Move(p, "gone", "boot")
  /\ UNCHANGED <<seen, lockFile, tokenFile, port, shutdownFlag, staleWal>>

=============================================================================
