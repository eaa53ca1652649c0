------------------------ MODULE SchemaMigration_proofs ------------------------
(***************************************************************************)
(* For any number of processes of any versions: an open database has the   *)
(* migrations its program knows, and the file lock makes open_database an  *)
(* implementation of SingleApply.  The invariant has two parts: the lock   *)
(* file names exactly the process that is between taking and releasing it, *)
(* and whatever a process or the sentinel claims is in the schema.         *)
(***************************************************************************)
EXTENDS SchemaMigration, TLAPS

\* Who runs the locked part of init_schema holds the lock, and the other way
\* round.
LockInv == \A p \in Procs : pc[p] \in Locked <=> fileLock = p

\* The sentinel, an open process and a process past the chain all vouch for a
\* whole chain; an applier vouches for the migrations it has left behind.
ChainInv ==
  /\ 1 .. version \subseteq schema
  /\ \A p \in Procs :
       /\ pc[p] \in {"open", "sentinel", "release"} => Chain(p) \subseteq schema
       /\ pc[p] = "apply" => 1 .. (next[p] - 1) \subseteq schema

-----------------------------------------------------------------------------
\* Type correctness of every reachable state.
THEOREM Typing == Spec => []TypeOK
<1> USE CurrentAssumption, NoProcAssumption
<1>1. Init => TypeOK
  BY DEF Init, TypeOK, Locked
<1>2. TypeOK /\ [Next]_vars => TypeOK'
  <2> SUFFICES ASSUME TypeOK, [Next]_vars PROVE TypeOK'
    OBVIOUS
  <2> USE DEF TypeOK, Locked, Goto
  <2>1. CASE UNCHANGED vars
    BY <2>1 DEF vars
  <2>2. ASSUME NEW p \in Procs, Open(p) PROVE TypeOK'
    BY <2>2 DEF Open
  <2>3. ASSUME NEW p \in Procs, FastPath(p) PROVE TypeOK'
    BY <2>3 DEF FastPath
  <2>4. ASSUME NEW p \in Procs, AcquireLock(p) PROVE TypeOK'
    BY <2>4 DEF AcquireLock
  <2>5. ASSUME NEW p \in Procs, LockTimeout(p) PROVE TypeOK'
    BY <2>5 DEF LockTimeout
  <2>6. ASSUME NEW p \in Procs, DoubleCheck(p) PROVE TypeOK'
    BY <2>6 DEF DoubleCheck
  <2>7. ASSUME NEW p \in Procs, Migrate(p) PROVE TypeOK'
    <3>1. next[p] + 1 \in Nat \ {0} /\ next[p] + 1 <= Current[p] + 1
      BY <2>7 DEF Migrate
    <3>2. /\ next' \in [Procs -> Nat \ {0}]
          /\ \A q \in Procs : next'[q] <= Current[q] + 1
      BY <2>7, <3>1 DEF Migrate
    <3>3. schema' \subseteq Nat \ {0}
      BY <2>7 DEF Migrate
    <3>4. UNCHANGED <<pc, version, fileLock>>
      BY <2>7 DEF Migrate
    <3> QED
      BY <3>2, <3>3, <3>4
  <2>8. ASSUME NEW p \in Procs, ChainDone(p) PROVE TypeOK'
    BY <2>8 DEF ChainDone
  <2>9. ASSUME NEW p \in Procs, SetVersion(p) PROVE TypeOK'
    BY <2>9 DEF SetVersion
  <2>10. ASSUME NEW p \in Procs, ReleaseLock(p) PROVE TypeOK'
    BY <2>10 DEF ReleaseLock
  <2>11. ASSUME NEW p \in Procs, SqliteFails(p) PROVE TypeOK'
    BY <2>11 DEF SqliteFails, Unlocked
  <2>12. ASSUME NEW p \in Procs, Crash(p) PROVE TypeOK'
    BY <2>12 DEF Crash, Unlocked
  <2> QED
    BY <2>1, <2>2, <2>3, <2>4, <2>5, <2>6, <2>7, <2>8, <2>9, <2>10, <2>11,
       <2>12 DEF Next, Proceed
<1> QED
  BY <1>1, <1>2, PTL DEF Spec

-----------------------------------------------------------------------------
\* No step lets a second process into the locked part or leaves the lock with
\* a process that has left it.
LEMMA LockStep ==
  ASSUME TypeOK, LockInv, [Next]_vars
  PROVE  LockInv'
<1> USE NoProcAssumption DEF TypeOK, LockInv, Locked, Goto
<1>1. CASE UNCHANGED vars
  BY <1>1 DEF vars
<1>2. ASSUME NEW p \in Procs, Open(p) PROVE LockInv'
  BY <1>2 DEF Open
<1>3. ASSUME NEW p \in Procs, FastPath(p) PROVE LockInv'
  BY <1>3 DEF FastPath
<1>4. ASSUME NEW p \in Procs, AcquireLock(p) PROVE LockInv'
  BY <1>4 DEF AcquireLock
<1>5. ASSUME NEW p \in Procs, LockTimeout(p) PROVE LockInv'
  BY <1>5 DEF LockTimeout
<1>6. ASSUME NEW p \in Procs, DoubleCheck(p) PROVE LockInv'
  BY <1>6 DEF DoubleCheck
<1>7. ASSUME NEW p \in Procs, Migrate(p) PROVE LockInv'
  BY <1>7 DEF Migrate
<1>8. ASSUME NEW p \in Procs, ChainDone(p) PROVE LockInv'
  BY <1>8 DEF ChainDone
<1>9. ASSUME NEW p \in Procs, SetVersion(p) PROVE LockInv'
  BY <1>9 DEF SetVersion
<1>10. ASSUME NEW p \in Procs, ReleaseLock(p) PROVE LockInv'
  BY <1>10 DEF ReleaseLock
<1>11. ASSUME NEW p \in Procs, SqliteFails(p) PROVE LockInv'
  BY <1>11 DEF SqliteFails, Unlocked
<1>12. ASSUME NEW p \in Procs, Crash(p) PROVE LockInv'
  BY <1>12 DEF Crash, Unlocked
<1> QED
  BY <1>1, <1>2, <1>3, <1>4, <1>5, <1>6, <1>7, <1>8, <1>9, <1>10, <1>11,
     <1>12 DEF Next, Proceed

\* No step claims more of the chain than the schema holds.
LEMMA ChainStep ==
  ASSUME TypeOK, ChainInv, [Next]_vars
  PROVE  ChainInv'
<1> USE CurrentAssumption DEF TypeOK, ChainInv, Chain, Goto
<1>1. CASE UNCHANGED vars
  BY <1>1 DEF vars
<1>2. ASSUME NEW p \in Procs, Open(p) PROVE ChainInv'
  BY <1>2 DEF Open
<1>3. ASSUME NEW p \in Procs, FastPath(p) PROVE ChainInv'
  BY <1>3 DEF FastPath
<1>4. ASSUME NEW p \in Procs, AcquireLock(p) PROVE ChainInv'
  BY <1>4 DEF AcquireLock
<1>5. ASSUME NEW p \in Procs, LockTimeout(p) PROVE ChainInv'
  BY <1>5 DEF LockTimeout
<1>6. ASSUME NEW p \in Procs, DoubleCheck(p) PROVE ChainInv'
  BY <1>6 DEF DoubleCheck
<1>7. ASSUME NEW p \in Procs, Migrate(p) PROVE ChainInv'
  <2>1. schema \subseteq schema'
    BY <1>7 DEF Migrate
  <2>2. 1 .. (next'[p] - 1) \subseteq schema'
    BY <1>7 DEF Migrate
  <2>3. \A q \in Procs : q # p => pc'[q] = pc[q] /\ next'[q] = next[q]
    BY <1>7 DEF Migrate
  <2>4. pc'[p] = "apply" /\ version' = version
    BY <1>7 DEF Migrate
  <2> QED
    BY <2>1, <2>2, <2>3, <2>4
<1>8. ASSUME NEW p \in Procs, ChainDone(p) PROVE ChainInv'
  <2>1. Chain(p) \subseteq schema
    BY <1>8 DEF ChainDone
  <2> QED
    BY <1>8, <2>1 DEF ChainDone
<1>9. ASSUME NEW p \in Procs, SetVersion(p) PROVE ChainInv'
  BY <1>9 DEF SetVersion
<1>10. ASSUME NEW p \in Procs, ReleaseLock(p) PROVE ChainInv'
  BY <1>10 DEF ReleaseLock
<1>11. ASSUME NEW p \in Procs, SqliteFails(p) PROVE ChainInv'
  BY <1>11 DEF SqliteFails
<1>12. ASSUME NEW p \in Procs, Crash(p) PROVE ChainInv'
  BY <1>12 DEF Crash
<1> QED
  BY <1>1, <1>2, <1>3, <1>4, <1>5, <1>6, <1>7, <1>8, <1>9, <1>10, <1>11,
     <1>12 DEF Next, Proceed

-----------------------------------------------------------------------------
\* The file lock and the locked part of init_schema agree in every reachable
\* state.
THEOREM LockHeld == Spec => []LockInv
<1>1. Init => LockInv
  BY NoProcAssumption DEF Init, LockInv, Locked
<1> QED
  BY <1>1, LockStep, Typing, PTL DEF Spec

\* The sentinel and every process past the chain can vouch for the schema.
THEOREM ChainKept == Spec => []ChainInv
<1>1. Init => ChainInv
  BY DEF Init, ChainInv
<1> QED
  BY <1>1, ChainStep, Typing, PTL DEF Spec

\* open_database returns only when the schema has every migration the program
\* knows, whatever versions race and whoever crashes.
THEOREM OpenSafe == Spec => []OpenedIsMigrated
<1>1. ChainInv => OpenedIsMigrated
  BY DEF ChainInv, OpenedIsMigrated
<1> QED
  BY <1>1, ChainKept, PTL

-----------------------------------------------------------------------------
\* The process in the applying part, if there is one, is the applier of
\* SingleApply.
ApplierIs ==
  /\ \A p \in Procs : pc[p] \in Applying => applier = p
  /\ (\A p \in Procs : pc[p] \notin Applying) => applier = NoProc

LEMMA OneApplier == LockInv => ApplierIs
<1> SUFFICES ASSUME LockInv PROVE ApplierIs
  OBVIOUS
<1>1. ASSUME NEW p \in Procs, NEW q \in Procs,
             pc[p] \in Applying, pc[q] \in Applying
      PROVE  p = q
  BY <1>1 DEF LockInv, Locked, Applying
<1>2. ASSUME NEW p \in Procs, pc[p] \in Applying PROVE applier = p
  BY <1>1, <1>2 DEF applier
<1>3. ASSUME \A p \in Procs : pc[p] \notin Applying PROVE applier = NoProc
  BY <1>3 DEF applier
<1> QED
  BY <1>2, <1>3 DEF ApplierIs

\* Every step of open_database is a step of SingleApply or leaves its variables
\* alone.
LEMMA StepRefines ==
  ASSUME TypeOK, LockInv, ChainInv, ApplierIs, ApplierIs', [Next]_vars
  PROVE  [Abstract!Next]_<<applier, version, schema>>
<1> DEFINE Stutters == UNCHANGED <<applier, version, schema>>
<1> USE NoProcAssumption, CurrentAssumption
<1>0. ASSUME \A p \in Procs : pc[p] \in Applying <=> pc'[p] \in Applying
      PROVE  applier' = applier
  <2>1. CASE \E p \in Procs : pc[p] \in Applying
    BY <1>0, <2>1 DEF ApplierIs
  <2>2. CASE \A p \in Procs : pc[p] \notin Applying
    BY <1>0, <2>2 DEF ApplierIs
  <2> QED
    BY <2>1, <2>2
<1> HIDE DEF Stutters
<1>1. CASE UNCHANGED vars
  BY <1>0, <1>1 DEF vars, Stutters
<1>2. ASSUME NEW p \in Procs,
             Open(p) \/ FastPath(p) \/ AcquireLock(p) \/ LockTimeout(p)
               \/ ReleaseLock(p)
      PROVE  Stutters
  <2>1. /\ \A q \in Procs : pc[q] \in Applying <=> pc'[q] \in Applying
        /\ UNCHANGED <<version, schema>>
    BY <1>2 DEF Open, FastPath, AcquireLock, LockTimeout, ReleaseLock, Goto,
                TypeOK, Applying
  <2> QED
    BY <1>0, <2>1 DEF Stutters
<1>3. ASSUME NEW p \in Procs, DoubleCheck(p)
      PROVE  Stutters \/ Abstract!Begin(p)
  <2>1. CASE version = Current[p]
    <3>1. /\ \A q \in Procs : pc[q] \in Applying <=> pc'[q] \in Applying
          /\ UNCHANGED <<version, schema>>
      BY <1>3, <2>1 DEF DoubleCheck, Goto, TypeOK, Applying
    <3> QED
      BY <1>0, <3>1 DEF Stutters
  <2>2. CASE version # Current[p]
    <3>1. \A q \in Procs : pc[q] \notin Applying
      BY <1>3 DEF DoubleCheck, Goto, LockInv, Locked, Applying
    <3>2. pc'[p] \in Applying /\ UNCHANGED <<version, schema>>
      BY <1>3, <2>2 DEF DoubleCheck, Goto, TypeOK, Applying
    <3> QED
      BY <2>2, <3>1, <3>2 DEF ApplierIs, Abstract!Begin
  <2> QED
    BY <2>1, <2>2
<1>4. ASSUME NEW p \in Procs, Migrate(p) PROVE Abstract!ApplyOne(p)
  <2>1. /\ \A q \in Procs : pc[q] \in Applying <=> pc'[q] \in Applying
        /\ pc[p] \in Applying
        /\ version' = version
    BY <1>4 DEF Migrate, Goto, TypeOK, Applying
  <2>2. next[p] \in Abstract!Chain(p) /\ schema' = schema \cup {next[p]}
    BY <1>4 DEF Migrate, TypeOK, Abstract!Chain
  <2> QED
    BY <1>0, <2>1, <2>2 DEF ApplierIs, Abstract!ApplyOne
<1>5. ASSUME NEW p \in Procs, ChainDone(p) PROVE Stutters
  <2>1. /\ \A q \in Procs : pc[q] \in Applying <=> pc'[q] \in Applying
        /\ UNCHANGED <<version, schema>>
    BY <1>5 DEF ChainDone, Goto, TypeOK, Applying
  <2> QED
    BY <1>0, <2>1 DEF Stutters
<1>6. ASSUME NEW p \in Procs, SetVersion(p) PROVE Abstract!Finish(p)
  <2>1. applier = p
    BY <1>6 DEF SetVersion, Goto, Applying, ApplierIs
  <2>2. \A q \in Procs : pc'[q] \notin Applying
    BY <1>6, <2>1 DEF SetVersion, Goto, TypeOK, Applying, ApplierIs
  <2>3. Abstract!Chain(p) \subseteq schema
    BY <1>6 DEF SetVersion, Goto, ChainInv, Chain, Abstract!Chain
  <2>4. version' = Current[p] /\ schema' = schema
    BY <1>6 DEF SetVersion
  <2> QED
    BY <2>1, <2>2, <2>3, <2>4 DEF ApplierIs, Abstract!Finish
<1>7. ASSUME NEW p \in Procs, SqliteFails(p) \/ Crash(p)
      PROVE  Stutters \/ Abstract!Abort(p)
  <2>1. UNCHANGED <<version, schema>>
    BY <1>7 DEF SqliteFails, Crash
  <2>2. CASE pc[p] \in Applying
    <3>1. applier = p
      BY <2>2 DEF ApplierIs
    <3>2. \A q \in Procs : pc'[q] \notin Applying
      BY <1>7, <3>1 DEF SqliteFails, Crash, TypeOK, Applying, ApplierIs
    <3> QED
      BY <2>1, <3>1, <3>2 DEF ApplierIs, Abstract!Abort
  <2>3. CASE pc[p] \notin Applying
    <3>1. \A q \in Procs : pc[q] \in Applying <=> pc'[q] \in Applying
      BY <1>7, <2>3 DEF SqliteFails, Crash, TypeOK, Applying
    <3> QED
      BY <1>0, <2>1, <3>1 DEF Stutters
  <2> QED
    BY <2>2, <2>3
<1> QED
  BY <1>1, <1>2, <1>3, <1>4, <1>5, <1>6, <1>7
     DEF Next, Proceed, Abstract!Next, Stutters

\* open_database implements SingleApply: at most one process applies
\* migrations at a time, it begins only on another version than its own, and it
\* records its version only over a whole chain.
THEOREM Implements == Spec => AppliesOneAtATime
<1>1. Init => Abstract!Init
  BY DEF Init, Abstract!Init, applier, Applying
<1>2. LockInv => ApplierIs
  BY OneApplier
<1> QED
  BY <1>1, <1>2, StepRefines, Typing, LockHeld, ChainKept, PTL
     DEF Spec, Abstract!Spec, AppliesOneAtATime

===============================================================================
