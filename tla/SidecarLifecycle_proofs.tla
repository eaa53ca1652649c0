----------------------- MODULE SidecarLifecycle_proofs -----------------------
(* Theorems about SidecarLifecycle, for any number of processes, runs of the *)
(* application and restart attempts.                                         *)
EXTENDS SidecarLifecycle, FiniteSetTheorems, TLAPS

USE NoPidAssumption, BoundsAssumption

\* What the image name of a pid tells the cleanup.
LEMMA ImageNames ==
  ASSUME NEW p
  PROVE  /\ IsExpectedProcess(p) <=> IsServer(p)
         /\ IsProcessRunning(p) <=> at[p] # "gone"
BY DEF IsExpectedProcess, IsProcessRunning, RunningImageName, IsServer,
       ServerAt, Starting, Stopping

-----------------------------------------------------------------------------
(* Types.                                                                   *)

\* A step of a server keeps the types of the server's variables.
LEMMA ServeTypes ==
  ASSUME ServerTypeOK, NEW p \in Pids, Serve(p)
  PROVE  ServerTypeOK'
<1> USE DEF ServerTypeOK, Move, ServerAt, Starting, Stopping, Dirs
<1>1. CASE ReadLock(p) BY <1>1 DEF ReadLock
<1>2. CASE RefuseToStart(p) BY <1>2 DEF RefuseToStart
<1>3. CASE DropStaleLock(p) BY <1>3 DEF DropStaleLock
<1>4. CASE CreateLockFile(p) BY <1>4 DEF CreateLockFile
<1>5. CASE InitStorage(p) \/ StorageFails(p)
  BY <1>5 DEF InitStorage, StorageFails
<1>6. CASE UnlinkToken(p) \/ CreateToken(p)
  BY <1>6 DEF UnlinkToken, CreateToken
<1>7. CASE Bind(p) \/ StartFails(p) \/ NoticeShutdown(p)
  BY <1>7 DEF Bind, StartFails, NoticeShutdown
<1>8. CASE RemoveToken(p) \/ CloseSocket(p) \/ RemoveLockFile(p)
  BY <1>8 DEF RemoveToken, CloseSocket, RemoveLockFile
<1>9. QED
  BY <1>1, <1>2, <1>3, <1>4, <1>5, <1>6, <1>7, <1>8 DEF Serve

\* So do the end of a process and the start of one.
LEMMA DieTypes ==
  ASSUME ServerTypeOK, NEW p \in Pids \cup {NoPid}, Die(p) \/ Boot(p)
  PROVE  ServerTypeOK'
<1> USE DEF ServerTypeOK, Die, Boot, Move, ServerAt, Starting, Stopping
<1>1. CASE p \in Pids BY <1>1 DEF Dirs, ServerDbDir
<1>2. CASE p = NoPid
  <2>1. p \notin Pids BY <1>2
  <2>2. CASE Die(p)
    <3>1. at' = at /\ seen' = seen BY <2>1, <2>2
    <3>2. QED BY <2>2, <3>1 DEF Dirs, ServerDbDir
  <2>3. CASE Boot(p)
    <3>1. at' = at BY <2>1, <2>3
    <3>2. QED BY <2>3, <3>1
  <2>4. QED BY <2>2, <2>3
<1>3. QED BY <1>1, <1>2

\* The types of SidecarLifecycle's variables; the restart counter never passes
\* the length of the ladder.
THEOREM Typing == Spec => []TypeOK
<1>1. Init => TypeOK
  <2> SUFFICES ASSUME Init PROVE TypeOK
    OBVIOUS
  <2>1. ServerTypeOK BY DEF Init, ServerInit, ServerTypeOK
  <2>2. attempts \in 0 .. MaxAttempts /\ runs \in 0 .. MaxRuns
    BY DEF Init
  <2>3. QED BY <2>1, <2>2 DEF Init, TypeOK
<1>2. TypeOK /\ [Next]_vars => TypeOK'
  <2> SUFFICES ASSUME TypeOK, [Next]_vars PROVE TypeOK'
    OBVIOUS
  <2> USE DEF TypeOK, SweepAt, CleanupAt, history, monVars, mainVars, AppGoes,
              MonGoes
  <2>a. UNCHANGED serverVars => ServerTypeOK'
    BY DEF ServerTypeOK, serverVars
  <2>b. UNCHANGED exceptLock /\ lockFile' \in {lockFile, NoPid} => ServerTypeOK'
    BY DEF ServerTypeOK, exceptLock
  <2>c. UNCHANGED exceptFlag /\ shutdownFlag' \in BOOLEAN => ServerTypeOK'
    BY DEF ServerTypeOK, exceptFlag
  <2>d. shutdownFlag \in BOOLEAN /\ lockFile \in Pids \cup {NoPid}
    BY DEF ServerTypeOK
  <2>e. ASSUME GoesOff, app' = "off", ServerTypeOK'
        PROVE  TypeOK'
    <3>1. leftover' \in SUBSET Pids BY <2>e DEF GoesOff, Servers
    <3>2. attempts' \in 0 .. MaxAttempts BY <2>e DEF GoesOff
    <3>3. {child', spawned', target'} \subseteq Pids \cup {NoPid}
      BY <2>e DEF GoesOff
    <3>4. {leftover', missed', newcomers'} \subseteq SUBSET Pids
      BY <2>e, <3>1 DEF GoesOff
    <3>5. QED BY <2>e, <3>1, <3>2, <3>3, <3>4 DEF GoesOff
  <2>f. ASSUME NEW p, Misses(p) PROVE missed' \in SUBSET Pids
    BY <2>f DEF Misses, Servers
  <2>1. CASE StartApp
    <3>1. runs' \in 0 .. MaxRuns BY <2>1 DEF StartApp
    <3>2. QED BY <2>1, <2>a, <3>1 DEF StartApp
  <2>2. CASE Sweep
    <3>1. ServerTypeOK'
      BY <2>2 DEF Sweep, RemoveShutdownFlag, RecoverSqliteWal, ServerTypeOK
    <3>2. flagStuck' \in BOOLEAN BY <2>2, <3>1 DEF Sweep, ServerTypeOK
    <3>3. QED BY <2>2, <3>1, <3>2 DEF Sweep
  <2>3. CASE SweepRead BY <2>3, <2>a, <2>d DEF SweepRead
  <2>4. CASE SweepCheck \/ SweepUnlink
    <3>1. ServerTypeOK'
      BY <2>4, <2>b DEF SweepCheck, SweepUnlink, RemoveLock
    <3>2. QED BY <2>4, <3>1 DEF SweepCheck, SweepUnlink
  <2>5. CASE SweepKill
    <3>1. ServerTypeOK'
      BY <2>5, <2>a, DieTypes DEF SweepKill, Kill, KillFails
    <3>2. QED BY <2>5, <3>1 DEF SweepKill, Kill, KillFails
  <2>6. CASE ForceKill
    <3>1. ServerTypeOK'
      BY <2>6, <2>a, DieTypes DEF ForceKill, Kill, KillFails
    <3>2. missed' \in SUBSET Pids BY <2>6, <2>f DEF ForceKill
    <3>3. QED BY <2>6, <3>1, <3>2 DEF ForceKill, Kill, KillFails
  <2>7. CASE Launch
    <3>1. ServerTypeOK' BY <2>7, DieTypes DEF Launch
    <3>2. QED BY <2>7, <3>1 DEF Launch, ForgetGone
  <2>8. CASE LaunchFails BY <2>8, <2>a DEF LaunchFails
  <2>9. CASE Monitor
    <3>1. CASE MonFlag("flag", "poll") \/ MonFlag("asleep", "spawn")
      BY <3>1, <2>a DEF MonFlag
    <3>2. CASE PollChild BY <3>2, <2>a DEF PollChild
    <3>3. CASE MonRecheck BY <3>3, <2>a DEF MonRecheck
    <3>4. CASE MonDelay BY <3>4, <2>a DEF MonDelay
    <3>5. CASE MonSpawn
      <4>1. ServerTypeOK' BY <3>5, DieTypes DEF MonSpawn
      <4>2. QED BY <3>5, <4>1 DEF MonSpawn, ForgetGone
    <3>6. CASE MonSpawnFails \/ MonStore
      BY <3>6, <2>a DEF MonSpawnFails, MonStore
    <3>7. QED BY <2>9, <3>1, <3>2, <3>3, <3>4, <3>5, <3>6 DEF Monitor
  <2>10. CASE BeginExit \/ BeginUpdate \/ TakeChild
    BY <2>10, <2>a DEF BeginExit, BeginUpdate, TakeChild
  <2>11. CASE WriteFlag BY <2>11, <2>c, <2>d DEF WriteFlag
  <2>12. CASE CleanupRead \/ PollTarget
    <3>1. missed' \in SUBSET Pids
      BY <2>12, <2>f DEF CleanupRead, PollTarget
    <3>2. QED BY <2>12, <2>a, <2>d, <3>1 DEF CleanupRead, PollTarget
  <2>13. CASE CleanupCheck
    <3>1. ServerTypeOK' BY <2>13, <2>b DEF CleanupCheck, RemoveLock
    <3>2. missed' \in SUBSET Pids BY <2>13, <2>f DEF CleanupCheck
    <3>3. QED BY <2>13, <3>1, <3>2 DEF CleanupCheck
  <2>14. CASE CleanupUnlink BY <2>14, <2>b DEF CleanupUnlink, RemoveLock
  <2>15. CASE EndExit
    BY <2>15, <2>c, <2>d, <2>e DEF EndExit, RemoveFlag, RemoveShutdownFlag
  <2>16. CASE EndCleanupForUpdate
    BY <2>16, <2>c, <2>d DEF EndCleanupForUpdate, RemoveFlag,
       RemoveShutdownFlag
  <2>17. CASE KillByName
    <3>1. ServerTypeOK'
      BY <2>17 DEF KillByName, ServerTypeOK, Dirs, ServerDbDir
    <3>2. missed' \in SUBSET Pids BY <2>17 DEF KillByName, Servers
    <3>3. QED BY <2>17, <3>1, <3>2 DEF KillByName
  <2>23. CASE Confirm BY <2>23, <2>a DEF Confirm
  <2>18. CASE AppKilled BY <2>18, <2>a, <2>e DEF AppKilled
  <2>19. ASSUME NEW p \in Pids, ServerStep(p) PROVE TypeOK'
    BY <2>19, ServeTypes, DieTypes DEF ServerStep, appVars
  <2>20. ASSUME NEW p \in Pids, StrangerComes(p) \/ StrangerLeaves(p)
         PROVE TypeOK'
    <3>1. ServerTypeOK'
      BY <2>20 DEF StrangerComes, StrangerLeaves, Move, ServerTypeOK
    <3>2. QED BY <2>20, <3>1 DEF StrangerComes, StrangerLeaves
  <2>21. CASE UNCHANGED vars BY <2>21, <2>a DEF vars, appVars
  <2>22. QED
    BY <2>1, <2>2, <2>3, <2>4, <2>5, <2>6, <2>7, <2>8, <2>9, <2>10, <2>11,
       <2>12, <2>13, <2>14, <2>15, <2>16, <2>17, <2>18, <2>19, <2>20, <2>21,
       <2>23
    DEF Next, Startup, Cleanup
<1>3. QED BY <1>1, <1>2, PTL DEF Spec

-----------------------------------------------------------------------------
(* Strangers.                                                               *)

\* A step of a server or its end changes what that pid is, from a server to a
\* server or to nothing.
LEMMA ServerMoves ==
  ASSUME ServerTypeOK, NEW p \in Pids, ServerStep(p)
  PROVE  /\ IsServer(p)
         /\ at'[p] \in ServerAt \cup {"gone"}
         /\ \A q \in Pids : q # p => at'[q] = at[q]
<1> USE DEF ServerTypeOK, IsServer, ServerAt, Starting, Stopping, Move
<1>1. CASE Die(p) BY <1>1 DEF ServerStep, Serve, Die, ReadLock, RefuseToStart,
  DropStaleLock, CreateLockFile, InitStorage, StorageFails, UnlinkToken,
  CreateToken, Bind, StartFails, NoticeShutdown, RemoveToken, CloseSocket,
  RemoveLockFile
<1>2. CASE Serve(p)
  BY <1>2 DEF Serve, ReadLock, RefuseToStart, DropStaleLock, CreateLockFile,
     InitStorage, StorageFails, UnlinkToken, CreateToken, Bind, StartFails,
     NoticeShutdown, RemoveToken, CloseSocket, RemoveLockFile
<1>3. QED BY <1>1, <1>2 DEF ServerStep

\* From the comparison of the name to the kill, a stranger with the pid in hand
\* is one that came after the comparison.
TargetInv ==
  /\ app \in {"sweepCheck", "sweepKill", "check", "poll", "kill"} =>
       target \in Pids
  /\ app \in {"sweepKill", "poll", "kill"} =>
       (at[target] = "stranger" => target \in newcomers)
  /\ ~wronged

\* No stranger is killed that had its pid when the image name was last
\* compared: KnownStrangersSurvive, by TargetInv.
THEOREM StrangersSurvive == Spec => []KnownStrangersSurvive
<1>1. Init => TargetInv
  BY DEF Init, TargetInv
<1>2. TypeOK /\ TargetInv /\ [Next]_vars => TargetInv'
  <2> SUFFICES ASSUME TypeOK, TargetInv, [Next]_vars PROVE TargetInv'
    OBVIOUS
  <2> USE DEF TargetInv, AppGoes, MonGoes, history, monVars, mainVars,
              serverVars, exceptLock, exceptFlag
  <2>a. ServerTypeOK /\ target \in Pids \cup {NoPid} /\ app \in
          {"off", "up", "take", "killAll", "confirm"} \cup SweepAt \cup CleanupAt
    BY DEF TypeOK
  <2>b. lockFile # NoPid => lockFile \in Pids
    BY <2>a DEF ServerTypeOK
  <2>1. CASE StartApp \/ Sweep \/ LaunchFails
    BY <2>1 DEF StartApp, Sweep, LaunchFails
  <2>3. CASE SweepRead \/ CleanupRead BY <2>3, <2>b DEF SweepRead, CleanupRead
  <2>4. CASE SweepCheck \/ CleanupCheck
    BY <2>4, ImageNames DEF SweepCheck, CleanupCheck, IsServer, ServerAt,
       Starting, Stopping
  <2>5. CASE SweepKill \/ ForceKill
    <3>1. /\ app \in {"sweepKill", "kill"}
          /\ app' \in {"sweepUnlink", "unlink", "unflag"}
          /\ Kill(target) \/ KillFails
      BY <2>5 DEF SweepKill, ForceKill
    <3>2. ~wronged' BY <3>1 DEF Kill, KillFails
    <3>3. QED BY <3>1, <3>2
  <2>6. CASE SweepUnlink \/ CleanupUnlink
    BY <2>6 DEF SweepUnlink, CleanupUnlink
  <2>7. CASE Launch
    BY <2>7 DEF Launch
  <2>9. CASE Monitor
    <3>1. CASE \/ MonFlag("flag", "poll") \/ MonFlag("asleep", "spawn")
               \/ PollChild \/ MonRecheck \/ MonDelay \/ MonSpawnFails
               \/ MonStore
      BY <3>1 DEF MonFlag, PollChild, MonRecheck, MonDelay, MonSpawnFails,
                  MonStore
    <3>2. CASE MonSpawn
      BY <3>2, <2>a DEF MonSpawn, Boot, Move, ServerTypeOK
    <3>3. QED BY <2>9, <3>1, <3>2 DEF Monitor
  <2>10. CASE BeginExit \/ BeginUpdate \/ TakeChild
    BY <2>10 DEF BeginExit, BeginUpdate, TakeChild
  <2>11. CASE WriteFlag BY <2>11 DEF WriteFlag
  <2>14. CASE PollTarget BY <2>14 DEF PollTarget
  <2>15. CASE EndExit BY <2>15 DEF EndExit, RemoveFlag, GoesOff
  <2>16. CASE EndCleanupForUpdate
    BY <2>16 DEF EndCleanupForUpdate, RemoveFlag
  <2>17. CASE KillByName
    <3>1. \A q \in Pids : at'[q] = "stranger" => at[q] = "stranger"
      BY <2>17 DEF KillByName
    <3>2. QED BY <2>17, <3>1 DEF KillByName
  <2>23. CASE Confirm BY <2>23 DEF Confirm
  <2>18. CASE AppKilled BY <2>18 DEF AppKilled, GoesOff
  <2>19. ASSUME NEW p \in Pids, ServerStep(p) PROVE TargetInv'
    <3>1. UNCHANGED <<app, target, newcomers, wronged>>
      BY <2>19 DEF ServerStep, appVars
    <3>2. \A q \in Pids : at'[q] = "stranger" => at[q] = "stranger"
      BY <2>19, <2>a, ServerMoves DEF ServerAt, Starting, Stopping
    <3>3. QED BY <3>1, <3>2
  <2>20. ASSUME NEW p \in Pids, StrangerComes(p) \/ StrangerLeaves(p)
         PROVE TargetInv'
    BY <2>20, <2>a DEF StrangerComes, StrangerLeaves, Move, ServerTypeOK
  <2>21. CASE UNCHANGED vars BY <2>21 DEF vars, appVars
  <2>22. QED
    BY <2>1, <2>3, <2>4, <2>5, <2>6, <2>7, <2>9, <2>10, <2>11, <2>14, <2>15,
       <2>16, <2>17, <2>18, <2>19, <2>20, <2>21, <2>23
    DEF Next, Startup, Cleanup
<1>3. TargetInv => KnownStrangersSurvive
  BY DEF TargetInv, KnownStrangersSurvive
<1>4. QED BY <1>1, <1>2, <1>3, Typing, PTL DEF Spec

-----------------------------------------------------------------------------
(* One server per run.                                                      *)

\* The servers of this run of the application.
Own == {p \in Pids : IsServer(p)} \ leftover

\* The application has no child and no monitor before the launch.
DownAt == SweepAt \cup {"off"}

\* Where the monitor is says where the one server of this run can be: nowhere
\* from its exit to the next spawn, then in the monitor's hand, then in the
\* supervisor.
OwnInv ==
  /\ \A p, q \in Own : p = q
  /\ app \in DownAt =>
       Own = {} /\ mon = "none" /\ child = NoPid /\ spawned = NoPid
  /\ mon \in {"recheck", "delay", "asleep", "spawn"} => Own = {}
  /\ mon = "store" => Own \subseteq {spawned}
  /\ mon \in {"flag", "poll"} /\ child # NoPid => Own \subseteq {child}

\* A step that leaves the application's threads alone and adds no server keeps
\* OwnInv.
LEMMA FewerOwn ==
  ASSUME OwnInv, Own' \subseteq Own,
         UNCHANGED <<app, mon, child, spawned>>
  PROVE  OwnInv'
BY DEF OwnInv

\* A spawn gives this run its one server.
LEMMA BootsOne ==
  ASSUME ServerTypeOK, Own = {}, NEW p \in Pids, Boot(p), ForgetGone
  PROVE  Own' = {p}
<1>1. /\ ~IsServer(p) /\ IsServer(p)'
      /\ \A q \in Pids : q # p => (IsServer(q)' <=> IsServer(q))
  BY DEF Boot, Move, IsServer, ServerAt, Starting, Stopping, ServerTypeOK
<1>2. p \notin leftover' BY <1>1 DEF ForgetGone
<1>3. \A q \in Pids : q # p => q \notin Own'
  BY <1>1 DEF Own, ForgetGone
<1>4. QED BY <1>1, <1>2, <1>3 DEF Own

\* OwnInv is inductive.
THEOREM OwnServer == Spec => []OwnInv
<1>1. Init => OwnInv
  BY DEF Init, ServerInit, OwnInv, Own, IsServer, ServerAt, Starting, Stopping
<1>2. TypeOK /\ OwnInv /\ [Next]_vars => OwnInv'
  <2> SUFFICES ASSUME TypeOK, OwnInv, [Next]_vars PROVE OwnInv'
    OBVIOUS
  <2> USE DEF AppGoes, MonGoes, history, monVars, mainVars, DownAt, SweepAt
  <2>a. ServerTypeOK BY DEF TypeOK
  <2>b. UNCHANGED <<at, leftover>> => Own' = Own
    BY DEF Own, IsServer
  <2>c. ASSUME GoesOff, app' = "off", UNCHANGED at PROVE OwnInv'
    <3>1. Own' = {} BY <2>c DEF GoesOff, Own, IsServer, Servers
    <3>2. QED BY <2>c, <3>1 DEF GoesOff, OwnInv
  <2>1. CASE StartApp \/ LaunchFails \/ SweepRead
    BY <2>1, <2>b DEF StartApp, LaunchFails, SweepRead, serverVars, OwnInv
  <2>2. CASE Sweep BY <2>2, <2>b DEF Sweep, OwnInv
  <2>4. CASE SweepCheck \/ SweepUnlink
    BY <2>4, <2>b DEF SweepCheck, SweepUnlink, exceptLock, OwnInv
  <2>5. CASE SweepKill \/ ForceKill
    <3>1. Own' \subseteq Own
      BY <2>5, <2>a DEF SweepKill, ForceKill, Kill, KillFails, Die,
         serverVars, Own, IsServer, ServerAt, Starting, Stopping, ServerTypeOK
    <3>2. QED BY <2>5, <3>1 DEF SweepKill, ForceKill, OwnInv
  <2>7. CASE Launch
    <3>1. PICK p \in Pids : Boot(p) /\ child' = p BY <2>7 DEF Launch
    <3>2. Own' = {p} BY <2>7, <2>a, <3>1, BootsOne DEF Launch, OwnInv
    <3>3. QED BY <2>7, <3>1, <3>2 DEF Launch, OwnInv
  <2>9. CASE Monitor
    <3>1. CASE MonFlag("flag", "poll") \/ MonFlag("asleep", "spawn")
      BY <3>1, <2>b DEF MonFlag, serverVars, OwnInv
    <3>2. CASE PollChild
      <4>1. child # NoPid /\ ~IsServer(child) /\ mon = "poll" => Own = {}
        BY DEF OwnInv, Own
      <4>2. QED BY <3>2, <2>b, <4>1 DEF PollChild, serverVars, OwnInv
    <3>3. CASE MonRecheck \/ MonDelay \/ MonSpawnFails
      BY <3>3, <2>b DEF MonRecheck, MonDelay, MonSpawnFails, serverVars, OwnInv
    <3>5. CASE MonSpawn
      <4>1. PICK p \in Pids : Boot(p) /\ spawned' = p BY <3>5 DEF MonSpawn
      <4>2. Own' = {p} BY <3>5, <2>a, <4>1, BootsOne DEF MonSpawn, OwnInv
      <4>3. QED BY <3>5, <4>1, <4>2 DEF MonSpawn, OwnInv
    <3>6. CASE MonStore BY <3>6, <2>b DEF MonStore, serverVars, OwnInv
    <3>7. QED BY <2>9, <3>1, <3>2, <3>3, <3>5, <3>6 DEF Monitor
  <2>10. CASE BeginExit \/ BeginUpdate \/ TakeChild \/ CleanupRead \/ PollTarget
    BY <2>10, <2>b DEF BeginExit, BeginUpdate, TakeChild, CleanupRead,
       PollTarget, serverVars, OwnInv
  <2>11. CASE WriteFlag BY <2>11, <2>b DEF WriteFlag, exceptFlag, OwnInv
  <2>12. CASE CleanupCheck \/ CleanupUnlink
    BY <2>12, <2>b DEF CleanupCheck, CleanupUnlink, exceptLock, OwnInv
  <2>15. CASE EndExit
    BY <2>15, <2>c DEF EndExit, RemoveFlag, exceptFlag
  <2>16. CASE EndCleanupForUpdate
    BY <2>16, <2>b DEF EndCleanupForUpdate, RemoveFlag, exceptFlag, OwnInv
  <2>17. CASE KillByName
    <3>1. Own' \subseteq Own
      BY <2>17 DEF KillByName, Own, IsServer, ServerAt, Starting, Stopping
    <3>2. QED BY <2>17, <3>1 DEF KillByName, OwnInv
  <2>23. CASE Confirm BY <2>23, <2>b DEF Confirm, serverVars, OwnInv
  <2>18. CASE AppKilled BY <2>18, <2>c DEF AppKilled, serverVars
  <2>19. ASSUME NEW p \in Pids, ServerStep(p) PROVE OwnInv'
    <3>1. UNCHANGED <<app, mon, child, spawned, leftover>>
      BY <2>19 DEF ServerStep, appVars
    <3>2. Own' \subseteq Own
      BY <2>19, <2>a, <3>1, ServerMoves DEF Own, IsServer
    <3>3. QED BY <3>1, <3>2, FewerOwn
  <2>20. ASSUME NEW p \in Pids, StrangerComes(p) \/ StrangerLeaves(p)
         PROVE OwnInv'
    <3>1. UNCHANGED <<app, mon, child, spawned, leftover>>
      BY <2>20 DEF StrangerComes, StrangerLeaves
    <3>2. Own' \subseteq Own
      BY <2>20, <2>a, <3>1 DEF StrangerComes, StrangerLeaves, Move, Own,
         IsServer, ServerAt, Starting, Stopping, ServerTypeOK
    <3>3. QED BY <3>1, <3>2, FewerOwn
  <2>21. CASE UNCHANGED vars
    BY <2>21, <2>b, FewerOwn DEF vars, appVars, serverVars
  <2>22. QED
    BY <2>1, <2>2, <2>4, <2>5, <2>7, <2>9, <2>10, <2>11, <2>12, <2>15, <2>16,
       <2>17, <2>18, <2>19, <2>20, <2>21, <2>23 DEF Next, Startup, Cleanup
<1>3. QED BY <1>1, <1>2, Typing, PTL DEF Spec

\* Whatever the monitor, an update and an exit do at the same time, a run of
\* the application never has two servers of its own.
THEOREM OneServer == Spec => []OneServerPerRun
<1>1. OwnInv => OneServerPerRun
  <2> SUFFICES ASSUME OwnInv PROVE Cardinality(Own) <= 1
    BY DEF OneServerPerRun, Own
  <2>1. CASE Own = {} BY <2>1, FS_EmptySet
  <2>2. ASSUME NEW p \in Own PROVE Cardinality(Own) <= 1
    <3>1. Own = {p} BY <2>2 DEF OwnInv
    <3>2. QED BY <3>1, FS_Singleton
  <2>3. QED BY <2>1, <2>2
<1>2. QED BY <1>1, OwnServer, PTL

-----------------------------------------------------------------------------
(* The files of a lone server.                                              *)

HasLock == {"storage", "token", "tokenCreate", "bind", "serving", "stopToken",
            "stopSocket", "unlock"}
HasToken == {"bind", "serving"}

\* While no shutdown has begun and no server of an earlier run is about, the lock
\* file and the token file are those of the server, from when it wrote them.
FilesInv ==
  /\ app \notin DownAt \cup {"up"} => shuttingDown
  /\ (leftover = {} /\ ~shuttingDown) =>
       \A p \in Pids : (at[p] \in HasLock => lockFile = p)
                      /\ (at[p] \in HasToken => tokenFile = p)

\* Without servers of earlier runs there is at most one server.
LEMMA Alone ==
  ASSUME OwnInv, leftover = {}, NEW p \in Pids, NEW q \in Pids,
         IsServer(p), IsServer(q)
  PROVE  p = q
BY DEF OwnInv, Own

\* What a server alone does to the two files.
LEMMA LoneFiles ==
  ASSUME ServerTypeOK, NEW p \in Pids, ServerStep(p),
         at[p] \in HasLock => lockFile = p,
         at[p] \in HasToken => tokenFile = p
  PROVE  /\ at'[p] \in HasLock => lockFile' = p
         /\ at'[p] \in HasToken => tokenFile' = p
<1> USE DEF ServerTypeOK, Move, HasLock, HasToken
<1>1. CASE Die(p) BY <1>1 DEF Die
<1>2. CASE ReadLock(p) \/ RefuseToStart(p) \/ DropStaleLock(p)
  BY <1>2 DEF ReadLock, RefuseToStart, DropStaleLock
<1>3. CASE CreateLockFile(p) BY <1>3 DEF CreateLockFile
<1>4. CASE InitStorage(p) \/ StorageFails(p)
  BY <1>4 DEF InitStorage, StorageFails
<1>5. CASE UnlinkToken(p) BY <1>5 DEF UnlinkToken
<1>6. CASE CreateToken(p) BY <1>6 DEF CreateToken
<1>7. CASE Bind(p) \/ StartFails(p) BY <1>7 DEF Bind, StartFails
<1>8. CASE \/ NoticeShutdown(p) \/ RemoveToken(p) \/ CloseSocket(p)
           \/ RemoveLockFile(p)
  BY <1>8 DEF NoticeShutdown, RemoveToken, CloseSocket, RemoveLockFile
<1>9. QED
  BY <1>1, <1>2, <1>3, <1>4, <1>5, <1>6, <1>7, <1>8 DEF ServerStep, Serve

\* A step after which no server is past its start-up keeps FilesInv.
LEMMA NoFiles ==
  ASSUME app' \notin DownAt \cup {"up"} => shuttingDown',
         (leftover' = {} /\ ~shuttingDown') =>
           \A p \in Pids : at'[p] \notin HasLock
  PROVE  FilesInv'
BY DEF FilesInv, HasLock, HasToken

\* FilesInv is inductive, with OwnInv.
THEOREM LoneServer == Spec => []FilesInv
<1>1. Init => FilesInv
  BY DEF Init, ServerInit, FilesInv, DownAt, HasLock, HasToken
<1>2. TypeOK /\ OwnInv /\ OwnInv' /\ FilesInv /\ [Next]_vars => FilesInv'
  <2> SUFFICES ASSUME TypeOK, OwnInv, OwnInv', FilesInv, [Next]_vars
               PROVE  FilesInv'
    OBVIOUS
  <2> USE DEF AppGoes, MonGoes, history, monVars, mainVars, DownAt, SweepAt
  <2>a. ServerTypeOK BY DEF TypeOK
  <2>b. ASSUME UNCHANGED <<at, lockFile, tokenFile, leftover>>,
               app' \notin DownAt \cup {"up"} => shuttingDown',
               shuttingDown => shuttingDown'
        PROVE  FilesInv'
    BY <2>b DEF FilesInv
  <2>c. ASSUME app' \in DownAt PROVE FilesInv'
    <3>1. Own' = {} BY <2>c DEF OwnInv
    <3>2. leftover' = {} => \A p \in Pids : ~IsServer(p)'
      BY <3>1 DEF Own
    <3>3. QED
      BY <2>c, <3>2, NoFiles DEF IsServer, ServerAt, Starting, Stopping, HasLock
  <2>d. ASSUME NEW p \in Pids, Boot(p), ForgetGone, Own = {},
               app' \notin DownAt \cup {"up"} => shuttingDown'
        PROVE  FilesInv'
    <3>1. at' = [at EXCEPT ![p] = "boot"] BY <2>d DEF Boot, Move
    <3>2. leftover' = {} => \A q \in Pids : ~IsServer(q)
      BY <2>d DEF ForgetGone, Own
    <3>3. leftover' = {} => \A q \in Pids : at'[q] \notin HasLock
      BY <2>a, <3>1, <3>2 DEF IsServer, ServerAt, Starting, Stopping, HasLock,
         ServerTypeOK
    <3>4. QED BY <2>d, <3>3, NoFiles
  <2>1. CASE StartApp \/ EndExit \/ AppKilled
    BY <2>1, <2>c DEF StartApp, EndExit, RemoveFlag, AppKilled
  <2>2. CASE Sweep \/ SweepRead \/ SweepCheck \/ SweepKill \/ SweepUnlink
    BY <2>2, <2>c DEF Sweep, SweepRead, SweepCheck, SweepKill, SweepUnlink
  <2>3. CASE Launch
    <3>1. PICK p \in Pids : Boot(p) BY <2>3 DEF Launch
    <3>2. QED BY <2>3, <2>d, <3>1 DEF Launch, OwnInv
  <2>4. CASE LaunchFails BY <2>4, <2>b DEF LaunchFails, serverVars, FilesInv
  <2>5. CASE Monitor
    <3>1. UNCHANGED <<app, shuttingDown>>
      BY <2>5 DEF Monitor, MonFlag, PollChild, MonRecheck, MonDelay, MonSpawn,
         MonSpawnFails, MonStore
    <3>2. CASE MonSpawn
      <4>1. PICK p \in Pids : Boot(p) BY <3>2 DEF MonSpawn
      <4>2. QED BY <3>1, <3>2, <2>d, <4>1 DEF MonSpawn, OwnInv, FilesInv
    <3>3. CASE ~MonSpawn
      <4>1. UNCHANGED <<at, lockFile, tokenFile, leftover>>
        BY <2>5, <3>3 DEF Monitor, MonFlag, PollChild, MonRecheck, MonDelay,
           MonSpawnFails, MonStore, serverVars
      <4>2. QED BY <2>b, <3>1, <4>1 DEF FilesInv
    <3>4. QED BY <3>2, <3>3
  <2>6. CASE BeginExit \/ BeginUpdate
    BY <2>6, <2>b DEF BeginExit, BeginUpdate, serverVars
  <2>7. CASE TakeChild BY <2>7, <2>b DEF TakeChild, serverVars, FilesInv
  <2>8. CASE WriteFlag \/ EndCleanupForUpdate
    BY <2>8, <2>b DEF WriteFlag, EndCleanupForUpdate, RemoveFlag, exceptFlag,
       FilesInv
  <2>9. CASE \/ CleanupRead \/ CleanupCheck \/ PollTarget \/ ForceKill
             \/ CleanupUnlink
    <3>1. /\ app' \in {"check", "unflag", "poll", "unlink", "kill"}
          /\ app \in {"read", "check", "poll", "kill", "unlink"}
          /\ UNCHANGED shuttingDown
      BY <2>9 DEF CleanupRead, CleanupCheck, PollTarget, ForceKill,
         CleanupUnlink
    <3>2. QED BY <3>1, NoFiles DEF FilesInv
  <2>10. CASE KillByName \/ Confirm
    BY <2>10, NoFiles DEF KillByName, Confirm, FilesInv
  <2>11. ASSUME NEW p \in Pids, ServerStep(p) PROVE FilesInv'
    <3>1. UNCHANGED <<app, shuttingDown, leftover>>
      BY <2>11 DEF ServerStep, appVars
    <3>2. SUFFICES ASSUME leftover = {}, ~shuttingDown,
                          NEW q \in Pids
                   PROVE  /\ at'[q] \in HasLock => lockFile' = q
                          /\ at'[q] \in HasToken => tokenFile' = q
      BY <3>1 DEF FilesInv
    <3>3. at'[q] \in HasLock \cup HasToken => q = p
      <4>1. SUFFICES ASSUME at'[q] \in HasLock \cup HasToken, q # p
                     PROVE  FALSE
        OBVIOUS
      <4>2. IsServer(p) /\ at'[q] = at[q] BY <2>11, <2>a, <4>1, ServerMoves
      <4>3. IsServer(q)
        BY <4>1, <4>2 DEF IsServer, ServerAt, Starting, Stopping, HasLock,
           HasToken
      <4>4. QED BY <3>2, <4>1, <4>2, <4>3, Alone
    <3>4. /\ at[p] \in HasLock => lockFile = p
          /\ at[p] \in HasToken => tokenFile = p
      BY <2>11, <3>2 DEF FilesInv
    <3>5. /\ at'[p] \in HasLock => lockFile' = p
          /\ at'[p] \in HasToken => tokenFile' = p
      BY <2>11, <2>a, <3>4, LoneFiles
    <3>6. QED BY <3>3, <3>5
  <2>12. ASSUME NEW p \in Pids, StrangerComes(p) \/ StrangerLeaves(p)
         PROVE FilesInv'
    <3>1. \A q \in Pids : at'[q] \in HasLock \cup HasToken => at'[q] = at[q]
      BY <2>12, <2>a DEF StrangerComes, StrangerLeaves, Move, ServerTypeOK,
         HasLock, HasToken
    <3>2. UNCHANGED <<app, shuttingDown, leftover, lockFile, tokenFile>>
      BY <2>12 DEF StrangerComes, StrangerLeaves
    <3>3. QED BY <3>1, <3>2 DEF FilesInv
  <2>13. CASE UNCHANGED vars
    BY <2>13, <2>b DEF vars, appVars, serverVars, FilesInv
  <2>14. QED
    BY <2>1, <2>2, <2>3, <2>4, <2>5, <2>6, <2>7, <2>8, <2>9, <2>10, <2>11,
       <2>12, <2>13 DEF Next, Startup, Cleanup
<1>3. QED BY <1>1, <1>2, Typing, OwnServer, PTL DEF Spec

\* What earlier servers and runs might leave in the way of a server that is
\* alone: a shutdown flag, a port in use, a token file that is there already.
Listening == {"serving", "stopToken", "stopSocket"}
PortInv ==
  /\ port # NoPid => at[port] \in Listening
  /\ \A p \in Pids : at[p] = "serving" => port = p
Untouched == \A p \in Pids : at[p] = "tokenCreate" => tokenFile = NoPid
ReadyInv ==
  /\ ~shuttingDown /\ app \notin {"off", "sweep"} =>
       (shutdownFlag => flagStuck)
  /\ PortInv
  /\ leftover = {} /\ ~shuttingDown => Untouched

\* The port belongs to the server that serves, whatever servers do, even several.
LEMMA PortStep ==
  ASSUME ServerTypeOK, PortInv, NEW p \in Pids,
         Serve(p) \/ Die(p) \/ Boot(p)
  PROVE  PortInv'
<1> USE DEF ServerTypeOK, PortInv, Listening, Move
<1>1. CASE Die(p) BY <1>1 DEF Die
<1>2. CASE Boot(p) BY <1>2 DEF Boot
<1>3. CASE Bind(p) BY <1>3 DEF Bind
<1>4. CASE CloseSocket(p) BY <1>4 DEF CloseSocket
<1>5. CASE \/ StartFails(p) \/ NoticeShutdown(p) \/ RemoveToken(p)
           \/ RemoveLockFile(p)
  BY <1>5 DEF StartFails, NoticeShutdown, RemoveToken, RemoveLockFile
<1>6. CASE \/ ReadLock(p) \/ RefuseToStart(p) \/ DropStaleLock(p)
           \/ CreateLockFile(p) \/ InitStorage(p) \/ StorageFails(p)
           \/ UnlinkToken(p) \/ CreateToken(p)
  BY <1>6 DEF ReadLock, RefuseToStart, DropStaleLock, CreateLockFile,
     InitStorage, StorageFails, UnlinkToken, CreateToken
<1>7. QED
  BY <1>1, <1>2, <1>3, <1>4, <1>5, <1>6 DEF Serve

\* A server that is about to create its token finds no file, unless others act.
LEMMA TokenStep ==
  ASSUME ServerTypeOK, NEW p \in Pids, ServerStep(p),
         at[p] = "tokenCreate" => tokenFile = NoPid
  PROVE  at'[p] = "tokenCreate" => tokenFile' = NoPid
<1> USE DEF ServerTypeOK, Move
<1>1. CASE Die(p) BY <1>1 DEF Die
<1>2. CASE UnlinkToken(p) BY <1>2 DEF UnlinkToken
<1>3. CASE \/ ReadLock(p) \/ RefuseToStart(p) \/ DropStaleLock(p)
           \/ CreateLockFile(p) \/ InitStorage(p) \/ StorageFails(p)
           \/ CreateToken(p) \/ Bind(p) \/ StartFails(p)
  BY <1>3 DEF ReadLock, RefuseToStart, DropStaleLock, CreateLockFile,
     InitStorage, StorageFails, CreateToken, Bind, StartFails
<1>4. CASE \/ NoticeShutdown(p) \/ RemoveToken(p) \/ CloseSocket(p)
           \/ RemoveLockFile(p)
  BY <1>4 DEF NoticeShutdown, RemoveToken, CloseSocket, RemoveLockFile
<1>5. QED BY <1>1, <1>2, <1>3, <1>4 DEF ServerStep, Serve

\* ReadyInv is inductive, with OwnInv and FilesInv.
THEOREM Ready == Spec => []ReadyInv
<1>1. Init => ReadyInv
  BY DEF Init, ServerInit, ReadyInv, PortInv, Untouched
<1>2. TypeOK /\ OwnInv /\ FilesInv /\ ReadyInv /\ [Next]_vars => ReadyInv'
  <2> SUFFICES ASSUME TypeOK, OwnInv, FilesInv, ReadyInv, [Next]_vars
               PROVE  ReadyInv'
    OBVIOUS
  <2> USE DEF AppGoes, MonGoes, history, monVars, mainVars
  <2>a. ServerTypeOK BY DEF TypeOK
  <2>b. ASSUME UNCHANGED <<at, port, tokenFile, leftover>>,
               shuttingDown => shuttingDown',
               ~shuttingDown' /\ app' \notin {"off", "sweep"} =>
                 (shutdownFlag' => flagStuck')
        PROVE  ReadyInv'
    BY <2>b DEF ReadyInv, PortInv, Untouched
  <2>c. ASSUME \A p \in Pids : ~IsServer(p)' PROVE Untouched'
    BY <2>c DEF Untouched, IsServer, ServerAt, Starting
  <2>d. ASSUME GoesOff, app' = "off", UNCHANGED <<at, port>> PROVE ReadyInv'
    <3>1. leftover' = {} => \A p \in Pids : ~IsServer(p)'
      BY <2>d DEF GoesOff, Servers, IsServer
    <3>2. PortInv' BY <2>d DEF ReadyInv, PortInv
    <3>3. QED BY <2>c, <2>d, <3>1, <3>2 DEF ReadyInv
  <2>e. ASSUME NEW p \in Pids, Boot(p), ForgetGone, Own = {},
               app \notin {"off", "sweep"}, UNCHANGED <<shuttingDown, flagStuck>>
        PROVE  ReadyInv'
    <3>1. at' = [at EXCEPT ![p] = "boot"] BY <2>e DEF Boot, Move
    <3>2. leftover' = {} => \A q \in Pids : ~IsServer(q)
      BY <2>e DEF ForgetGone, Own
    <3>3. leftover' = {} => Untouched'
      BY <2>a, <3>1, <3>2 DEF Untouched, IsServer, ServerAt, Starting,
         Stopping, ServerTypeOK
    <3>4. PortInv' BY <2>a, <2>e, PortStep DEF ReadyInv
    <3>5. QED BY <2>e, <3>3, <3>4 DEF ReadyInv, Boot
  <2>f. ASSUME NEW p \in Pids, Die(p),
               UNCHANGED <<leftover, shuttingDown, flagStuck>>,
               app \notin {"off", "sweep"}
        PROVE  ReadyInv'
    <3>1. PortInv' BY <2>a, <2>f, PortStep DEF ReadyInv
    <3>2. Untouched => Untouched'
      BY <2>a, <2>f DEF Die, Untouched, ServerTypeOK
    <3>3. QED BY <2>f, <3>1, <3>2 DEF ReadyInv, Die
  <2>1. CASE StartApp \/ SweepRead \/ SweepCheck \/ SweepUnlink \/ LaunchFails
    BY <2>1, <2>b DEF StartApp, SweepRead, SweepCheck, SweepUnlink,
       LaunchFails, serverVars, exceptLock, ReadyInv
  <2>13. CASE Sweep BY <2>13, <2>b DEF Sweep
  <2>2. CASE SweepKill \/ ForceKill
    <3>1. target \in Pids \cup {NoPid} BY DEF TypeOK
    <3>2. /\ UNCHANGED <<leftover, shuttingDown, flagStuck>>
          /\ app \notin {"off", "sweep"}
          /\ UNCHANGED serverVars \/ Die(target)
      BY <2>2 DEF SweepKill, ForceKill, Kill, KillFails
    <3>4. CASE UNCHANGED serverVars
      BY <2>b, <3>2, <3>4 DEF serverVars, ReadyInv
    <3>5. CASE Die(target) /\ target \in Pids BY <2>f, <3>2, <3>5
    <3>6. CASE Die(target) /\ target = NoPid
      <4>1. at' = at BY <2>a, <3>6, NoPidAssumption DEF Die, ServerTypeOK
      <4>2. port' = port BY <3>6 DEF Die
      <4>3. QED BY <2>b, <3>2, <3>6, <4>1, <4>2 DEF Die, ReadyInv
    <3>7. QED BY <3>1, <3>2, <3>4, <3>5, <3>6
  <2>3. CASE Launch
    <3>1. PICK p \in Pids : Boot(p) BY <2>3 DEF Launch
    <3>2. Own = {} BY <2>3 DEF Launch, OwnInv, DownAt, SweepAt
    <3>3. QED BY <2>3, <2>e, <3>1, <3>2 DEF Launch
  <2>4. CASE Monitor
    <3>1. UNCHANGED <<app, shuttingDown, flagStuck>>
      BY <2>4 DEF Monitor, MonFlag, PollChild, MonRecheck, MonDelay, MonSpawn,
         MonSpawnFails, MonStore
    <3>2. CASE MonSpawn
      <4>1. PICK p \in Pids : Boot(p) BY <3>2 DEF MonSpawn
      <4>2. Own = {} /\ app \notin {"off", "sweep"}
        BY <3>2 DEF MonSpawn, OwnInv, DownAt, SweepAt
      <4>3. QED BY <2>e, <3>1, <3>2, <4>1, <4>2 DEF MonSpawn
    <3>3. CASE ~MonSpawn
      <4>1. UNCHANGED <<at, port, tokenFile, leftover, shutdownFlag>>
        BY <2>4, <3>3 DEF Monitor, MonFlag, PollChild, MonRecheck, MonDelay,
           MonSpawnFails, MonStore, serverVars
      <4>2. QED BY <2>b, <3>1, <4>1 DEF ReadyInv
    <3>4. QED BY <3>2, <3>3
  <2>5. CASE BeginExit \/ BeginUpdate \/ TakeChild
    BY <2>5, <2>b DEF BeginExit, BeginUpdate, TakeChild, serverVars, ReadyInv
  <2>6. CASE \/ WriteFlag \/ CleanupRead \/ CleanupCheck \/ PollTarget
             \/ CleanupUnlink \/ EndCleanupForUpdate \/ Confirm
    <3>1. app \notin DownAt \cup {"up"}
      BY <2>6 DEF WriteFlag, CleanupRead, CleanupCheck, PollTarget,
         CleanupUnlink, EndCleanupForUpdate, RemoveFlag, Confirm, DownAt,
         SweepAt
    <3>2. UNCHANGED <<at, port, tokenFile, leftover, shuttingDown>>
      BY <2>6 DEF WriteFlag, CleanupRead, CleanupCheck, PollTarget,
         CleanupUnlink, EndCleanupForUpdate, RemoveFlag, Confirm, serverVars,
         exceptLock, exceptFlag
    <3>3. QED BY <2>b, <3>1, <3>2 DEF FilesInv
  <2>7. CASE EndExit \/ AppKilled
    BY <2>7, <2>d DEF EndExit, RemoveFlag, exceptFlag, AppKilled, serverVars
  <2>8. CASE KillByName
    <3>1. shuttingDown' BY <2>8 DEF KillByName, FilesInv, DownAt, SweepAt
    <3>2. PortInv'
      <4>1. PICK killed \in SUBSET Servers :
              /\ at' = [p \in Pids |-> IF p \in killed THEN "gone" ELSE at[p]]
              /\ port' = IF port \in killed THEN NoPid ELSE port
        BY <2>8 DEF KillByName
      <4>2. port # NoPid => port \in Pids BY <2>a DEF ServerTypeOK
      <4>3. QED BY <4>1, <4>2 DEF ReadyInv, PortInv
    <3>3. QED BY <3>1, <3>2 DEF ReadyInv
  <2>9. ASSUME NEW p \in Pids, ServerStep(p) PROVE ReadyInv'
    <3>1. UNCHANGED <<app, shuttingDown, leftover, flagStuck, shutdownFlag>>
      BY <2>9 DEF ServerStep, appVars, Serve, Die, ReadLock, RefuseToStart,
         DropStaleLock, CreateLockFile, InitStorage, StorageFails,
         UnlinkToken, CreateToken, Bind, StartFails, NoticeShutdown,
         RemoveToken, CloseSocket, RemoveLockFile
    <3>2. PortInv' BY <2>9, <2>a, PortStep DEF ServerStep, ReadyInv
    <3>3. ASSUME leftover = {}, ~shuttingDown PROVE Untouched'
      <4>1. /\ IsServer(p)
            /\ \A q \in Pids : q # p => at'[q] = at[q]
        BY <2>9, <2>a, ServerMoves
      <4>2. \A q \in Pids : IsServer(q) => q = p BY <3>3, <4>1, Alone
      <4>3. at'[p] = "tokenCreate" => tokenFile' = NoPid
        BY <2>9, <2>a, <3>3, TokenStep DEF ReadyInv, Untouched
      <4>4. \A q \in Pids : q # p => at'[q] \notin ServerAt
        BY <4>1, <4>2 DEF IsServer
      <4>5. QED BY <4>3, <4>4 DEF Untouched, ServerAt, Starting
    <3>4. QED BY <3>1, <3>2, <3>3 DEF ReadyInv
  <2>10. ASSUME NEW p \in Pids, StrangerComes(p) \/ StrangerLeaves(p)
         PROVE ReadyInv'
    <3>1. at[p] \notin ServerAt /\ at'[p] \notin ServerAt
      BY <2>10, <2>a DEF StrangerComes, StrangerLeaves, Free, Move,
         ServerTypeOK, ServerAt, Starting, Stopping
    <3>2. \A q \in Pids : q # p => at'[q] = at[q]
      BY <2>10, <2>a DEF StrangerComes, StrangerLeaves, Move, ServerTypeOK
    <3>3. UNCHANGED <<app, shuttingDown, leftover, flagStuck, shutdownFlag,
                      port, tokenFile>>
      BY <2>10 DEF StrangerComes, StrangerLeaves
    <3>4. port # NoPid => port \in Pids BY <2>a DEF ServerTypeOK
    <3>5. PortInv'
      BY <3>1, <3>2, <3>3, <3>4 DEF ReadyInv, PortInv, Listening, ServerAt,
         Stopping
    <3>6. Untouched => Untouched'
      BY <3>1, <3>2, <3>3 DEF Untouched, ServerAt, Starting
    <3>7. QED BY <3>3, <3>5, <3>6 DEF ReadyInv
  <2>11. CASE UNCHANGED vars
    BY <2>11, <2>b DEF vars, appVars, serverVars, ReadyInv
  <2>12. QED
    BY <2>1, <2>2, <2>3, <2>4, <2>5, <2>6, <2>7, <2>8, <2>9, <2>10, <2>11,
       <2>13 DEF Next, Startup, Cleanup
<1>3. QED BY <1>1, <1>2, Typing, OwnServer, LoneServer, PTL DEF Spec

\* Nothing that was left behind stands in the way of a server that is alone and
\* not being shut down, and a serving one can be reached and stopped: the port,
\* the token and the lock file are its own.
THEOREM Reachable == Spec => []LoneServerIsReachable
<1>1. TypeOK /\ OwnInv /\ FilesInv /\ ReadyInv => LoneServerIsReachable
  <2>1. SUFFICES ASSUME TypeOK, OwnInv, FilesInv, ReadyInv, leftover = {},
                        ~shuttingDown, NEW p \in Pids, IsServer(p)
                 PROVE  /\ port \in {p, NoPid}
                        /\ at[p] = "tokenCreate" => tokenFile = NoPid
                        /\ shutdownFlag => flagStuck
                        /\ at[p] = "serving" =>
                             port = p /\ tokenFile = p /\ lockFile = p
    BY DEF LoneServerIsReachable, Servers
  <2>2. app \notin DownAt BY <2>1 DEF OwnInv, Own
  <2>3. port \in {p, NoPid}
    <3>1. port \in Pids \cup {NoPid} BY <2>1 DEF TypeOK, ServerTypeOK
    <3>2. port # NoPid => at[port] \in ServerAt
      BY <2>1 DEF ReadyInv, PortInv, Listening, ServerAt, Stopping
    <3>3. QED BY <2>1, <3>1, <3>2, Alone DEF IsServer
  <2>4. at[p] = "serving" => at[p] \in HasLock /\ at[p] \in HasToken
    BY DEF HasLock, HasToken
  <2>5. QED
    BY <2>1, <2>2, <2>3, <2>4 DEF FilesInv, ReadyInv, PortInv, Untouched,
       DownAt, SweepAt
<1>2. QED BY <1>1, Typing, OwnServer, LoneServer, Ready, PTL

-----------------------------------------------------------------------------
(* The exit.                                                                *)

\* A clean-up that is to stop every server but the missed ones, until it ends.
\* The monitor cannot bring another one up.  At an exit there is at most one: the
\* one the lock file names, then the one in hand, then a missed one; after the
\* kill by name of an update every server is a missed one.
InHand(p) ==
  /\ at[p] \in HasLock
  /\ lockFile = p
  /\ app \in {"take", "flag", "read", "check", "poll", "kill"}
  /\ app \in {"check", "poll", "kill"} => target = p
ExitInv ==
  /\ app \in DownAt \cup {"up"} => ~updating
  /\ missed # Pids =>
       /\ app \in CleanupAt \cup {"take", "confirm", "up"}
       /\ shuttingDown
       /\ mon # "spawn"
       /\ \A p \in Servers : p \in missed \/ InHand(p)
       /\ app \in CleanupAt \cup {"take"} =>
            ~updating /\ \A p, q \in Servers : p = q

\* A server that has written the lock file keeps it until it is gone.
LEMMA KeepsLock ==
  ASSUME ServerTypeOK, NEW p \in Pids, ServerStep(p), at[p] \in HasLock,
         lockFile = p
  PROVE  \/ at'[p] = "gone"
         \/ at'[p] \in HasLock /\ lockFile' = p
<1> USE DEF ServerTypeOK, Move, HasLock
<1>1. CASE Die(p) BY <1>1 DEF Die
<1>2. CASE Serve(p)
  BY <1>2 DEF Serve, ReadLock, RefuseToStart, DropStaleLock, CreateLockFile,
     InitStorage, StorageFails, UnlinkToken, CreateToken, Bind, StartFails,
     NoticeShutdown, RemoveToken, CloseSocket, RemoveLockFile
<1>3. QED BY <1>1, <1>2 DEF ServerStep

\* ExitInv is inductive, with FilesInv.
THEOREM Exiting == Spec => []ExitInv
<1>1. Init => ExitInv
  BY DEF Init, ExitInv
<1>2. TypeOK /\ FilesInv /\ ExitInv /\ [Next]_vars => ExitInv'
  <2> SUFFICES ASSUME TypeOK, FilesInv, ExitInv, [Next]_vars
               PROVE  ExitInv'
    OBVIOUS
  <2> USE DEF AppGoes, MonGoes, history, monVars, mainVars, CleanupAt, DownAt,
              SweepAt
  <2>a. /\ ServerTypeOK
        /\ lockFile \in Pids \cup {NoPid}
    BY DEF TypeOK, ServerTypeOK
  <2>b. UNCHANGED at => UNCHANGED Servers
    BY DEF Servers, IsServer
  <2>c. ASSUME missed' = Pids, app' \in DownAt \cup {"up"} => ~updating'
        PROVE  ExitInv'
    BY <2>c DEF ExitInv
  <2>1. CASE StartApp BY <2>1, <2>c DEF StartApp, ExitInv
  <2>2. CASE EndExit \/ AppKilled
    BY <2>2, <2>c DEF EndExit, RemoveFlag, AppKilled, GoesOff
  <2>3. CASE Startup
    <3>1. app \in SweepAt /\ UNCHANGED <<missed, updating>>
      BY <2>3 DEF Startup, Sweep, SweepRead, SweepCheck, SweepKill,
         SweepUnlink, Launch, LaunchFails
    <3>2. QED BY <2>c, <3>1 DEF ExitInv
  <2>4. CASE Monitor
    <3>1. UNCHANGED <<target, missed, updating, shuttingDown, app, lockFile>>
      BY <2>4 DEF Monitor, MonFlag, PollChild, MonRecheck, MonDelay, MonSpawn,
         MonSpawnFails, MonStore, Boot, serverVars
    <3>2. CASE missed = Pids BY <2>c, <3>1, <3>2 DEF ExitInv
    <3>3. CASE missed # Pids
      <4>1. shuttingDown /\ mon # "spawn" BY <3>3 DEF ExitInv
      <4>2. UNCHANGED at /\ mon' # "spawn"
        BY <2>4, <4>1 DEF Monitor, MonFlag, PollChild, MonRecheck, MonDelay,
           MonSpawn, MonSpawnFails, MonStore, serverVars
      <4>3. QED BY <2>b, <3>1, <3>3, <4>1, <4>2 DEF ExitInv, InHand
    <3>4. QED BY <3>2, <3>3
  <2>5. CASE BeginExit
    <3>1. /\ UNCHANGED <<at, lockFile, mon, updating>>
          /\ app = "up" /\ app' = "take" /\ shuttingDown'
          /\ ~updating
      BY <2>5 DEF BeginExit, serverVars, ExitInv
    <3>2. CASE ~InSight BY <2>5, <2>c, <3>1, <3>2 DEF BeginExit
    <3>3. CASE InSight
      <4>1. \A p \in Servers : at[p] \in HasLock /\ lockFile = p
        BY <3>3 DEF InSight, Servers, HasLock, IsServer, ServerAt, Starting,
           Stopping
      <4>2. \A p \in Servers' : InHand(p)' BY <2>b, <3>1, <4>1 DEF InHand
      <4>3. QED BY <2>b, <3>1, <3>3, <4>1, <4>2 DEF InSight, ExitInv
    <3>4. QED BY <3>2, <3>3
  <2>6. CASE BeginUpdate BY <2>6, <2>c DEF BeginUpdate
  <2>7. CASE TakeChild \/ WriteFlag
    <3>1. UNCHANGED <<at, lockFile, target, missed, mon, updating,
                      shuttingDown>>
      BY <2>7 DEF TakeChild, WriteFlag, serverVars, exceptFlag
    <3>2. app \in {"take", "flag"} /\ app' \in {"flag", "read"}
      BY <2>7 DEF TakeChild, WriteFlag
    <3>3. QED BY <2>b, <2>c, <3>1, <3>2 DEF ExitInv, InHand
  <2>8. CASE CleanupRead \/ CleanupCheck \/ PollTarget
    <3>1. /\ UNCHANGED <<at, mon, updating, shuttingDown>>
          /\ app \in {"read", "check", "poll"}
          /\ app' \in {"check", "poll", "kill", "unlink", "unflag"}
      BY <2>8 DEF CleanupRead, CleanupCheck, PollTarget, serverVars, exceptLock
    <3>2. CASE missed' = Pids BY <2>c, <3>1, <3>2
    <3>3. CASE missed' # Pids
      <4>1. missed # Pids /\ missed \subseteq missed'
        BY <2>8, <3>3, <2>a DEF CleanupRead, CleanupCheck, PollTarget, Misses,
           Servers, TypeOK
      <4>2. ASSUME NEW p \in Servers PROVE p \in missed' \/ InHand(p)'
        <5>1. CASE p \in missed BY <4>1, <5>1
        <5>2. CASE p \notin missed
          <6>1. InHand(p) BY <4>1, <5>2 DEF ExitInv
          <6>2. UNCHANGED missed => app' \in {"check", "poll", "kill"}
            BY <2>8, <4>2, <5>2, <6>1 DEF CleanupRead, CleanupCheck,
               PollTarget, Misses, InHand
          <6>3. CASE UNCHANGED missed
            <7>1. UNCHANGED lockFile /\ target' = p
              BY <2>8, <4>2, <5>2, <6>1, <6>2, <6>3 DEF CleanupRead,
                 CleanupCheck, PollTarget, Misses, InHand, serverVars
            <7>2. QED BY <3>1, <6>1, <6>2, <6>3, <7>1 DEF InHand
          <6>4. CASE missed' # missed
            BY <2>8, <4>2, <6>1, <6>4 DEF CleanupRead, CleanupCheck,
               PollTarget, Misses, InHand
          <6>5. QED BY <6>3, <6>4
        <5>3. QED BY <5>1, <5>2
      <4>3. QED BY <2>b, <3>1, <4>1, <4>2 DEF ExitInv
    <3>4. QED BY <3>2, <3>3
  <2>9. CASE ForceKill
    <3>1. /\ UNCHANGED <<mon, updating, shuttingDown>>
          /\ app = "kill" /\ app' \in {"unlink", "unflag"}
      BY <2>9 DEF ForceKill
    <3>2. CASE missed' = Pids BY <2>c, <3>1, <3>2
    <3>3. CASE missed' # Pids
      <4>1. missed # Pids /\ missed \subseteq missed'
        BY <2>9, <3>3 DEF ForceKill, Misses, Servers, TypeOK
      <4>2. Servers' \subseteq Servers
        BY <2>9, <2>a DEF ForceKill, Kill, KillFails, Die, serverVars, Servers,
           IsServer, ServerAt, Starting, Stopping, ServerTypeOK
      <4>3. ASSUME NEW p \in Servers' PROVE p \in missed'
        <5>1. p \in Servers BY <4>2
        <5>2. CASE p \in missed BY <4>1, <5>2
        <5>3. CASE p \notin missed
          <6>1. target = p BY <3>1, <4>1, <5>1, <5>3 DEF ExitInv, InHand
          <6>2. p \in Pids /\ at[p] # "gone"
            BY <5>1 DEF Servers, IsServer, ServerAt, Starting, Stopping
          <6>3. ~Kill(target)
            BY <4>3, <6>1, <6>2, <2>a DEF Kill, Die, Servers, IsServer,
               ServerAt, Starting, Stopping, ServerTypeOK
          <6>4. QED BY <2>9, <5>1, <6>1, <6>3 DEF ForceKill, Misses
        <5>4. QED BY <5>2, <5>3
      <4>4. QED BY <3>1, <4>1, <4>2, <4>3 DEF ExitInv
    <3>4. QED BY <3>2, <3>3
  <2>10. CASE CleanupUnlink
    <3>1. /\ UNCHANGED <<at, mon, missed, updating, shuttingDown>>
          /\ app = "unlink" /\ app' = "unflag"
      BY <2>10 DEF CleanupUnlink, exceptLock
    <3>2. QED BY <2>b, <2>c, <3>1 DEF ExitInv, InHand
  <2>11. CASE EndCleanupForUpdate
    BY <2>11, <2>c DEF EndCleanupForUpdate, RemoveFlag, ExitInv
  <2>12. CASE KillByName
    <3>1. shuttingDown /\ UNCHANGED <<shuttingDown, mon>> /\ app' = "confirm"
      BY <2>12 DEF KillByName, FilesInv
    <3>2. Servers' \subseteq missed' /\ (mon = "spawn" => missed' = Pids)
      BY <2>12 DEF KillByName, Servers, IsServer, ServerAt, Starting, Stopping
    <3>3. QED BY <3>1, <3>2 DEF ExitInv
  <2>13. CASE Confirm
    <3>1. /\ UNCHANGED <<at, mon, missed, shuttingDown>>
          /\ app = "confirm" /\ app' = "up" /\ ~updating'
      BY <2>13 DEF Confirm, serverVars
    <3>2. QED BY <2>b, <3>1 DEF ExitInv, InHand
  <2>14. ASSUME NEW p \in Pids, ServerStep(p) PROVE ExitInv'
    <3>1. UNCHANGED <<target, missed, updating, shuttingDown, app, mon>>
      BY <2>14 DEF ServerStep, appVars
    <3>2. CASE missed = Pids BY <2>c, <3>1, <3>2 DEF ExitInv
    <3>3. CASE missed # Pids
      <4>1. /\ p \in Servers
            /\ \A q \in Pids : q # p => at'[q] = at[q]
        BY <2>14, <2>a, ServerMoves DEF Servers
      <4>2. Servers' \subseteq Servers
        BY <4>1 DEF Servers, IsServer
      <4>3. ASSUME NEW q \in Servers' PROVE q \in missed \/ InHand(q)'
        <5>1. q \in Servers BY <4>2
        <5>2. CASE q \in missed BY <5>2
        <5>3. CASE InHand(q)
          <6>1. q = p
            BY <3>3, <4>1, <5>1, <5>3 DEF ExitInv, InHand
          <6>2. at'[p] # "gone"
            BY <6>1 DEF Servers, IsServer, ServerAt, Starting, Stopping
          <6>3. at'[p] \in HasLock /\ lockFile' = p
            BY <2>14, <2>a, <5>3, <6>1, <6>2, KeepsLock DEF InHand
          <6>4. QED BY <3>1, <5>3, <6>1, <6>3 DEF InHand
        <5>4. QED BY <3>3, <5>1, <5>2, <5>3 DEF ExitInv
      <4>4. QED BY <3>1, <3>3, <4>2, <4>3 DEF ExitInv
    <3>4. QED BY <3>2, <3>3
  <2>15. ASSUME NEW p \in Pids, StrangerComes(p) \/ StrangerLeaves(p)
         PROVE ExitInv'
    <3>1. UNCHANGED <<target, missed, updating, shuttingDown, app, mon,
                      lockFile>>
      BY <2>15 DEF StrangerComes, StrangerLeaves
    <3>2. \A q \in Servers' : q \in Servers /\ at'[q] = at[q]
      BY <2>15, <2>a DEF StrangerComes, StrangerLeaves, Move, ServerTypeOK,
         Servers, IsServer, ServerAt, Starting, Stopping
    <3>3. QED BY <3>1, <3>2 DEF ExitInv, InHand
  <2>16. CASE UNCHANGED vars
    BY <2>16, <2>b DEF vars, appVars, serverVars, ExitInv, InHand
  <2>17. QED
    BY <2>1, <2>2, <2>3, <2>4, <2>5, <2>6, <2>7, <2>8, <2>9, <2>10, <2>11,
       <2>12, <2>13, <2>14, <2>15, <2>16 DEF Next, Cleanup
<1>3. QED BY <1>1, <1>2, Typing, LoneServer, PTL DEF Spec

\* An exit that begins with every server in sight of its cleanup leaves none
\* behind but those for which a tool or a file failed it, whatever the server and
\* the monitor are doing meanwhile.
THEOREM ExitStops == Spec => ExitStopsWhatItSees
<1>1. TypeOK /\ ExitInv /\ [Next]_vars =>
        [EndExit => leftover' \subseteq missed]_vars
  <2> SUFFICES ASSUME TypeOK, ExitInv, EndExit PROVE leftover' \subseteq missed
    OBVIOUS
  <2>1. app = "unflag" BY DEF EndExit, RemoveFlag, AppGoes
  <2>2. Servers \subseteq missed
    BY <2>1 DEF ExitInv, InHand, Servers
  <2>3. leftover' = Servers
    BY DEF EndExit, GoesOff
  <2>4. QED BY <2>2, <2>3
<1>2. QED BY <1>1, Typing, Exiting, PTL DEF Spec, ExitStopsWhatItSees

\* A run whose server serves, and that has prepared no update, is in sight of an
\* exit unless a server of an earlier run is about: the server is the only one,
\* the lock file names it and no spawn is under way.
THEOREM ServingIsInSight ==
  Spec => [](leftover = {} /\ ~shuttingDown /\ (\E p \in Pids : at[p] = "serving")
               => InSight)
<1>1. OwnInv /\ FilesInv =>
        (leftover = {} /\ ~shuttingDown /\ (\E p \in Pids : at[p] = "serving")
           => InSight)
  <2>1. SUFFICES ASSUME OwnInv, FilesInv, leftover = {}, ~shuttingDown,
                        NEW p \in Pids, at[p] = "serving"
                 PROVE  InSight
    OBVIOUS
  <2>2. IsServer(p) /\ at[p] \in HasLock
    BY <2>1 DEF IsServer, ServerAt, HasLock
  <2>3. \A q \in Servers : q = p BY <2>1, <2>2, Alone DEF Servers
  <2>4. lockFile = p BY <2>1, <2>2 DEF FilesInv
  <2>5. mon # "spawn" BY <2>1, <2>2 DEF OwnInv, Own
  <2>6. QED BY <2>1, <2>3, <2>4, <2>5 DEF InSight
<1>2. QED BY <1>1, OwnServer, LoneServer, PTL

\* Once an update is prepared there is no server until the application ends but
\* those that survived the kill by name, unless a spawn was under way then.
THEOREM UpdateQuiet == Spec => []PreparedUpdateIsQuiet
<1>1. TypeOK /\ ExitInv => PreparedUpdateIsQuiet
  <2>1. SUFFICES ASSUME ExitInv, app = "up" PROVE Servers \subseteq missed
    BY DEF PreparedUpdateIsQuiet
  <2>2. QED BY <2>1 DEF ExitInv, InHand, Servers
<1>2. QED BY <1>1, Typing, Exiting, PTL

=============================================================================
