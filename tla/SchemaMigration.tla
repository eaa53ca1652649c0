--------------------------- MODULE SchemaMigration ---------------------------
(***************************************************************************)
(* open_database and init_schema of sidecar/storage/schema.py with the     *)
(* file lock of migration_lock.py: processes, possibly of different        *)
(* versions of the program, open one database at the same time, and any of *)
(* them may crash at any point.  DDL commits at once in Python's sqlite3,  *)
(* so a crash inside the chain leaves its first migrations in the schema.  *)
(***************************************************************************)
EXTENDS Integers

CONSTANTS
  Procs,         \* processes that open the database
  Current,       \* CURRENT_SCHEMA_VERSION in each process's program
  NoProc

ASSUME CurrentAssumption == Current \in [Procs -> Nat \ {0}]
ASSUME NoProcAssumption == NoProc \notin Procs

VARIABLES
  pc,            \* where each process is
  version,       \* the schema_version sentinel; 0 if there is none
  schema,        \* the migrations that have taken effect
  next,          \* the next migration of the chain each process runs
  fileLock       \* who holds <db_path>.migrate.lock

vars == <<pc, version, schema, next, fileLock>>

Locked == {"check", "apply", "sentinel", "release"}

TypeOK ==
  /\ pc \in [Procs -> {"closed", "fast", "wait", "open", "failed"}
                        \cup Locked]
  /\ version \in {0} \cup {Current[p] : p \in Procs}
  /\ schema \subseteq Nat \ {0}
  /\ next \in [Procs -> Nat \ {0}]
  /\ \A p \in Procs : next[p] <= Current[p] + 1
  /\ fileLock \in Procs \cup {NoProc}

Init ==
  /\ pc = [p \in Procs |-> "closed"]
  /\ version = 0
  /\ schema = {}
  /\ next = [p \in Procs |-> 1]
  /\ fileLock = NoProc

Goto(p, from, to) ==
  /\ pc[p] = from
  /\ pc' = [pc EXCEPT ![p] = to]

-----------------------------------------------------------------------------
\* Connect and create the metadata table if it is not there.
Open(p) ==
  /\ Goto(p, "closed", "fast")
  /\ UNCHANGED <<version, schema, next, fileLock>>

\* The cheap check without the lock.
FastPath(p) ==
  /\ Goto(p, "fast", IF version = Current[p] THEN "open" ELSE "wait")
  /\ UNCHANGED <<version, schema, next, fileLock>>

AcquireLock(p) ==
  /\ Goto(p, "wait", "check")
  /\ fileLock = NoProc
  /\ fileLock' = p
  /\ UNCHANGED <<version, schema, next>>

\* FileLock raises after 60 seconds.
LockTimeout(p) ==
  /\ Goto(p, "wait", "failed")
  /\ fileLock # NoProc
  /\ UNCHANGED <<version, schema, next, fileLock>>

\* Mutant of DoubleCheck: the version is not read again under the lock.
NoDoubleCheck(p) ==
  /\ Goto(p, "check", "apply")
  /\ next' = [next EXCEPT ![p] = 1]
  /\ UNCHANGED <<version, schema, fileLock>>

DoubleCheck(p) ==
  /\ Goto(p, "check", IF version = Current[p] THEN "release" ELSE "apply")
  /\ next' = [next EXCEPT ![p] = 1]
  /\ UNCHANGED <<version, schema, fileLock>>

\* Mutant of Migrate: the chain runs one migration too far.
MigratePastEnd(p) ==
  /\ Goto(p, "apply", "apply")
  /\ next[p] <= Current[p] + 1
  /\ schema' = schema \cup {next[p]}
  /\ next' = [next EXCEPT ![p] = @ + 1]
  /\ UNCHANGED <<version, fileLock>>

\* _run_migrations: the whole chain from the first migration on, whatever the
\* recorded version is.
Migrate(p) ==
  /\ Goto(p, "apply", "apply")
  /\ next[p] <= Current[p]
  /\ schema' = schema \cup {next[p]}
  /\ next' = [next EXCEPT ![p] = @ + 1]
  /\ UNCHANGED <<version, fileLock>>

\* Mutant of ChainDone: the last migration is left out.
ChainDoneEarly(p) ==
  /\ Goto(p, "apply", "sentinel")
  /\ next[p] >= Current[p]
  /\ UNCHANGED <<version, schema, next, fileLock>>

ChainDone(p) ==
  /\ Goto(p, "apply", "sentinel")
  /\ next[p] > Current[p]
  /\ UNCHANGED <<version, schema, next, fileLock>>

\* _set_schema_version and its commit.
SetVersion(p) ==
  /\ Goto(p, "sentinel", "release")
  /\ version' = Current[p]
  /\ UNCHANGED <<schema, next, fileLock>>

ReleaseLock(p) ==
  /\ Goto(p, "release", "open")
  /\ fileLock' = NoProc
  /\ UNCHANGED <<version, schema, next>>

Unlocked(p) == IF fileLock = p THEN NoProc ELSE fileLock

\* SQLite raises (a busy database, a full disk, a migration that fails); the
\* context manager releases the lock.
SqliteFails(p) ==
  /\ pc[p] \in {"fast", "check", "apply", "sentinel"}
  /\ pc' = [pc EXCEPT ![p] = "failed"]
  /\ fileLock' = Unlocked(p)
  /\ UNCHANGED <<version, schema, next>>

\* Mutant of Crash: the lock outlives its holder.
CrashKeepsLock(p) ==
  /\ pc[p] # "closed"
  /\ pc' = [pc EXCEPT ![p] = "closed"]
  /\ UNCHANGED <<version, schema, next, fileLock>>

\* The process ends, on its own or not; the operating system releases the file
\* lock.  It may open the database again.
Crash(p) ==
  /\ pc[p] # "closed"
  /\ pc' = [pc EXCEPT ![p] = "closed"]
  /\ fileLock' = Unlocked(p)
  /\ UNCHANGED <<version, schema, next>>

Proceed(p) ==
  \/ FastPath(p)
  \/ AcquireLock(p)
  \/ DoubleCheck(p)
  \/ Migrate(p)
  \/ ChainDone(p)
  \/ SetVersion(p)
  \/ ReleaseLock(p)

Next ==
  \E p \in Procs :
    Open(p) \/ Proceed(p) \/ LockTimeout(p) \/ SqliteFails(p) \/ Crash(p)

Spec == Init /\ [][Next]_vars

\* A process goes on as long as it lives.  Opening, failing, timing out and
\* crashing are not obliged to happen.
FairSpec == Spec /\ \A p \in Procs : WF_vars(Proceed(p))

-----------------------------------------------------------------------------
(* Properties.                                                              *)

Chain(p) == 1 .. Current[p]

\* An open database has every migration the process's program knows, no matter
\* which version of the program applied them, and who crashed on the way.
OpenedIsMigrated == \A p \in Procs : pc[p] = "open" => Chain(p) \subseteq schema

\* "Double-checked: another process may have applied while we waited": the file
\* lock serialises the appliers, none of them starts on a schema that is at its
\* version already, and the sentinel is only written after a whole chain.  This
\* module implements SingleApply.
Applying == {"apply", "sentinel"}
applier == IF \E p \in Procs : pc[p] \in Applying
             THEN CHOOSE p \in Procs : pc[p] \in Applying
             ELSE NoProc
Abstract == INSTANCE SingleApply WITH
              Procs <- Procs, Current <- Current, NoProc <- NoProc,
              applier <- applier, version <- version, schema <- schema
AppliesOneAtATime == Abstract!Spec

\* Whoever holds the lock gives it back: neither a crash, nor a failure of
\* SQLite, nor the early return under the lock keeps the others waiting.
LockIsFreed == \A p \in Procs : fileLock = p ~> fileLock # p

=============================================================================
