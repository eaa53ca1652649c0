------------------------ MODULE SidecarRequest_proofs ------------------------
(***************************************************************************)
(* For any number of calls and servers: a request is executed at most      *)
(* once, and what the renderer is told agrees with it.  The invariant ties *)
(* each call to its connection: without a connection only the one-shot     *)
(* process can have run the handler, with one only the job has, and a      *)
(* refusal closes the connection with nothing left to read.                *)
(***************************************************************************)
EXTENDS SidecarRequest, TLAPS

\* A call without a connection has only the one-shot process.
Unconnected(c) ==
  conn[c] = "none" =>
    /\ call[c] \in {"idle", "spawn", "oneshot", "answered", "failed"}
    /\ peer[c] = NoPid /\ token[c] = NoPid
    /\ job[c] = "none" /\ ~request[c] /\ reply[c] = "none"
    /\ call[c] \in {"idle", "spawn", "oneshot"} => executed[c] = 0
    /\ call[c] = "answered" => executed[c] = 1
    /\ executed[c] <= 1

\* A call with a connection never falls back, and its job is its execution.
Connected(c) ==
  conn[c] # "none" =>
    /\ peer[c] \in Pids
    /\ call[c] \in {"connected", "waiting"} \cup Ended
    /\ executed[c] = IF job[c] = "done" THEN 1 ELSE 0
    /\ call[c] = "answered" => reply[c] = "answer"
    /\ call[c] = "refused" => reply[c] = "unauthorized"

\* The request line is read once, and before the client has sent anything the
\* server has nothing to act upon.
Unread(c) ==
  /\ request[c] => job[c] = "none" /\ reply[c] = "none"
  /\ call[c] = "connected" =>
       /\ conn[c] \in {"auth", "closed"} /\ token[c] = NoPid
       /\ ~request[c] /\ job[c] = "none" /\ reply[c] = "none"
  /\ conn[c] = "auth" => job[c] = "none" /\ reply[c] = "none"
  /\ conn[c] = "exec" => ~request[c]

\* A reply tells what became of the request.
Replied(c) ==
  /\ reply[c] = "answer" => job[c] = "done"
  /\ reply[c] = "unauthorized" =>
       conn[c] = "closed" /\ job[c] = "none" /\ ~request[c]

CallInv ==
  \A c \in Calls : Unconnected(c) /\ Connected(c) /\ Unread(c) /\ Replied(c)

-----------------------------------------------------------------------------
\* The server's own variables keep their types in every step of run_server.
LEMMA ServeTyped ==
  ASSUME ServerTypeOK, NEW p \in Pids, Serve(p)
  PROVE  ServerTypeOK'
<1> USE NoPidAssumption
    DEF ServerTypeOK, Move, ServerAt, Starting, Stopping, Dirs
<1>1. CASE ReadLock(p)
  BY <1>1 DEF ReadLock
<1>2. CASE RefuseToStart(p)
  BY <1>2 DEF RefuseToStart
<1>3. CASE DropStaleLock(p)
  BY <1>3 DEF DropStaleLock
<1>4. CASE CreateLockFile(p)
  BY <1>4 DEF CreateLockFile
<1>5. CASE InitStorage(p)
  BY <1>5 DEF InitStorage
<1>6. CASE StorageFails(p)
  BY <1>6 DEF StorageFails
<1>7. CASE UnlinkToken(p)
  BY <1>7 DEF UnlinkToken
<1>8. CASE CreateToken(p)
  BY <1>8 DEF CreateToken
<1>9. CASE Bind(p)
  BY <1>9 DEF Bind
<1>10. CASE NoticeShutdown(p)
  BY <1>10 DEF NoticeShutdown
<1>11. CASE RemoveToken(p)
  BY <1>11 DEF RemoveToken
<1>12. CASE CloseSocket(p)
  BY <1>12 DEF CloseSocket
<1>13. CASE RemoveLockFile(p)
  BY <1>13 DEF RemoveLockFile
<1>14. CASE StartFails(p)
  BY <1>14 DEF StartFails
<1>15. QED
  BY <1>1, <1>2, <1>3, <1>4, <1>5, <1>6, <1>7, <1>8, <1>9, <1>10, <1>11,
     <1>12, <1>13, <1>14 DEF Serve

-----------------------------------------------------------------------------
\* Type correctness of every reachable state.
THEOREM Typing == Spec => []TypeOK
<1> USE NoPidAssumption
<1>1. Init => TypeOK
  <2>1. ServerInit => ServerTypeOK
    BY DEF ServerInit, ServerTypeOK, ServerAt
  <2>2. QED
    BY <2>1 DEF Init, TypeOK
<1>2. TypeOK /\ [Next]_vars => TypeOK'
  <2> SUFFICES ASSUME TypeOK, [Next]_vars PROVE TypeOK'
    OBVIOUS
  <2>1. CASE UNCHANGED vars
    BY <2>1 DEF vars, serverVars, reqVars, past, TypeOK, ServerTypeOK
  <2>2. ASSUME NEW c \in Calls,
               \/ RefuseMethod(c) \/ Connect(c) \/ ConnectFails(c)
               \/ Client(c) \/ Fallback(c)
        PROVE  TypeOK'
    <3> USE DEF TypeOK, ServerTypeOK, serverVars, past, CallGoes, Ended
    <3>0. CASE RefuseMethod(c)
      BY <3>0 DEF RefuseMethod
    <3>1. CASE Connect(c)
      BY <3>1 DEF Connect
    <3>2. CASE ConnectFails(c)
      BY <3>2 DEF ConnectFails
    <3>3. CASE Send(c)
      BY <3>3 DEF Send
    <3>4. CASE SendFails(c)
      BY <3>4 DEF SendFails
    <3>5. CASE Receive(c)
      BY <3>5 DEF Receive
    <3>6. CASE ReadFails(c)
      BY <3>6 DEF ReadFails
    <3>7. CASE SpawnOneShot(c)
      BY <3>7 DEF SpawnOneShot
    <3>8. CASE RunOneShot(c)
      BY <3>8 DEF RunOneShot
    <3>9. CASE OneShotDies(c)
      BY <3>9 DEF OneShotDies
    <3>10. QED
      BY <2>2, <3>0, <3>1, <3>2, <3>3, <3>4, <3>5, <3>6, <3>7, <3>8, <3>9
         DEF Client, Fallback
  <2>3. ASSUME NEW c \in Calls, Connection(c) \/ RunJob(c)
        PROVE  TypeOK'
    <3> USE DEF TypeOK, ServerTypeOK, serverVars, past, ConnGoes
    <3>1. CASE Authenticate(c)
      BY <3>1 DEF Authenticate
    <3>2. CASE Reject(c)
      BY <3>2 DEF Reject
    <3>3. CASE AuthTimesOut(c)
      BY <3>3 DEF AuthTimesOut
    <3>4. CASE StartJob(c)
      BY <3>4 DEF StartJob
    <3>5. CASE RunJob(c)
      BY <3>5 DEF RunJob
    <3>6. CASE Respond(c)
      BY <3>6 DEF Respond
    <3>7. CASE CloseIdle(c)
      BY <3>7 DEF CloseIdle
    <3>8. CASE WriteFails(c)
      BY <3>8 DEF WriteFails
    <3>9. CASE CloseConnection(c)
      BY <3>9 DEF CloseConnection
    <3>10. QED
      BY <2>3, <3>1, <3>2, <3>3, <3>4, <3>5, <3>6, <3>7, <3>8, <3>9
         DEF Connection
  <2>4. ASSUME NEW p \in Pids, Start(p)
        PROVE  TypeOK'
    BY <2>4 DEF Start, Boot, Move, reqVars, TypeOK, ServerTypeOK, ServerAt,
                Starting
  <2>5. ASSUME NEW p \in Pids, Run(p)
        PROVE  TypeOK'
    BY <2>5, ServeTyped DEF Run, NoteRivals, Holders, IsServer, reqVars, TypeOK
  <2>6. ASSUME NEW p \in Pids, Crash(p)
        PROVE  TypeOK'
    BY <2>6 DEF Crash, Die, past, TypeOK, ServerTypeOK, Dirs, ServerDbDir
  <2>7. ASSUME NEW f \in BOOLEAN, SetFlag(f)
        PROVE  TypeOK'
    BY <2>7 DEF SetFlag, exceptFlag, reqVars, past, TypeOK, ServerTypeOK
  <2>8. CASE UnlinkLock
    BY <2>8 DEF UnlinkLock, exceptLock, reqVars, past, TypeOK, ServerTypeOK
  <2>9. QED
    BY <2>1, <2>2, <2>3, <2>4, <2>5, <2>6, <2>7, <2>8 DEF Next
<1>3. QED
  BY <1>1, <1>2, PTL DEF Spec

-----------------------------------------------------------------------------
\* The steps of a call's own threads keep the invariant of every call.
LEMMA CallerStep ==
  ASSUME TypeOK, CallInv, NEW c \in Calls,
         \/ RefuseMethod(c) \/ Connect(c) \/ ConnectFails(c)
         \/ Client(c) \/ Fallback(c)
  PROVE  CallInv'
<1> USE NoPidAssumption
        DEF TypeOK, CallInv, Unconnected, Connected, Unread, Replied, CallGoes,
            Ended
<1>0. CASE RefuseMethod(c)
  BY <1>0 DEF RefuseMethod
<1>1. CASE Connect(c)
  BY <1>1 DEF Connect, ServerTypeOK
<1>2. CASE ConnectFails(c)
  BY <1>2 DEF ConnectFails
<1>3. CASE Send(c)
  BY <1>3 DEF Send
<1>4. CASE SendFails(c)
  BY <1>4 DEF SendFails
<1>5. CASE Receive(c)
  BY <1>5 DEF Receive
<1>6. CASE ReadFails(c)
  BY <1>6 DEF ReadFails
<1>7. CASE SpawnOneShot(c)
  BY <1>7 DEF SpawnOneShot
<1>8. CASE RunOneShot(c)
  BY <1>8 DEF RunOneShot
<1>9. CASE OneShotDies(c)
  BY <1>9 DEF OneShotDies
<1>10. QED
  BY <1>0, <1>1, <1>2, <1>3, <1>4, <1>5, <1>6, <1>7, <1>8, <1>9
     DEF Client, Fallback

\* So do those of the server's side of the connection, and of the handler.
LEMMA ConnectionStep ==
  ASSUME TypeOK, CallInv, NEW c \in Calls, Connection(c) \/ RunJob(c)
  PROVE  CallInv'
<1> USE DEF TypeOK, CallInv, Unconnected, Connected, Unread, Replied, ConnGoes,
            Authentic, Ended
<1>1. CASE Authenticate(c)
  BY <1>1 DEF Authenticate
<1>2. CASE Reject(c)
  BY <1>2 DEF Reject
<1>3. CASE AuthTimesOut(c)
  BY <1>3 DEF AuthTimesOut
<1>4. CASE StartJob(c)
  BY <1>4 DEF StartJob
<1>5. CASE RunJob(c)
  BY <1>5 DEF RunJob
<1>6. CASE Respond(c)
  BY <1>6 DEF Respond
<1>7. CASE CloseIdle(c)
  BY <1>7 DEF CloseIdle
<1>8. CASE WriteFails(c)
  BY <1>8 DEF WriteFails
<1>9. CASE CloseConnection(c)
  BY <1>9 DEF CloseConnection
<1>10. QED
  BY <1>1, <1>2, <1>3, <1>4, <1>5, <1>6, <1>7, <1>8, <1>9
     DEF Connection

\* In every reachable state.
LEMMA CallsAgree == Spec => []CallInv
<1> USE NoPidAssumption
<1>1. Init => CallInv
  BY DEF Init, CallInv, Unconnected, Connected, Unread, Replied, Ended
<1>2. TypeOK /\ CallInv /\ [Next]_vars => CallInv'
  <2> SUFFICES ASSUME TypeOK, CallInv, [Next]_vars PROVE CallInv'
    OBVIOUS
  <2> USE DEF CallInv, Unconnected, Connected, Unread, Replied, Ended
  <2>1. CASE UNCHANGED reqVars
    BY <2>1 DEF reqVars
  <2>2. ASSUME NEW p \in Pids, Crash(p)
        PROVE  CallInv'
    BY <2>2 DEF Crash, TypeOK
  <2>3. QED
    BY <2>1, <2>2, CallerStep, ConnectionStep
       DEF Next, Start, Run, SetFlag, UnlinkLock, vars
<1>3. QED
  BY <1>1, <1>2, Typing, PTL DEF Spec

-----------------------------------------------------------------------------
\* A request is executed at most once, by whichever of its ways.
THEOREM ExecutedOnce == Spec => []AtMostOnce
<1>1. CallInv => AtMostOnce
  BY DEF CallInv, Unconnected, Connected, AtMostOnce
<1>2. QED
  BY <1>1, CallsAgree, PTL

\* The renderer is not told of an execution that did not happen, nor refused a
\* request that is executed.
THEOREM AnswersTell == Spec => []AnswerTellsExecution
<1>1. CallInv => AnswerTellsExecution
  BY DEF CallInv, Unconnected, Connected, Replied, AnswerTellsExecution
<1>2. QED
  BY <1>1, CallsAgree, PTL

-----------------------------------------------------------------------------
(* Why a lone server refuses nobody.                                        *)

\* Two servers past the lock check are known as rivals; a server without rival
\* has its token on the disk while it serves; and the port leads to a server
\* that has not closed its socket.
ServerInv ==
  /\ \A p, q \in Holders : p # q => p \in rivals
  /\ \A p \in Pids \ rivals : at[p] \in {"bind", "serving"} => tokenFile = p
  /\ port # NoPid => at[port] \in {"serving", "stopToken", "stopSocket"}
  /\ \A p \in Pids : IsServer(p) => p \in booted

\* Who has been reached has served, and will not serve again once it stops.
Reached(p) ==
  p \in Pids => p \in booted /\ at[p] \in Stopping \cup {"serving", "gone"}

Undisturbed(p) == p \in Pids /\ at[p] = "serving" /\ p \notin rivals

PeerInv ==
  \A c \in Calls :
    /\ Reached(peer[c])
    /\ Undisturbed(peer[c]) =>
         /\ call[c] = "waiting" => token[c] = peer[c]
         /\ call[c] \in {"waiting", "refused"} => reply[c] # "unauthorized"

\* The steps of run_server.
LEMMA ServeKeeps ==
  ASSUME ServerTypeOK, ServerInv, NEW p \in Pids, Serve(p), NoteRivals,
         booted' = booted
  PROVE  /\ ServerInv'
         /\ \A q \in Pids : Reached(q) => Reached(q)'
         /\ \A q \in Pids : Reached(q) /\ Undisturbed(q)' => Undisturbed(q)
<1> USE NoPidAssumption
    DEF ServerTypeOK, ServerInv, NoteRivals, Holders, IsServer, Reached,
        Undisturbed, Move, ServerAt, Starting, Stopping
<1>1. CASE ReadLock(p)
  BY <1>1 DEF ReadLock
<1>2. CASE RefuseToStart(p)
  BY <1>2 DEF RefuseToStart
<1>3. CASE DropStaleLock(p)
  BY <1>3 DEF DropStaleLock
<1>4. CASE CreateLockFile(p)
  BY <1>4 DEF CreateLockFile
<1>5. CASE InitStorage(p)
  BY <1>5 DEF InitStorage
<1>6. CASE StorageFails(p)
  BY <1>6 DEF StorageFails
<1>7. CASE UnlinkToken(p)
  BY <1>7 DEF UnlinkToken
<1>8. CASE CreateToken(p)
  BY <1>8 DEF CreateToken
<1>9. CASE Bind(p)
  BY <1>9 DEF Bind
<1>10. CASE NoticeShutdown(p)
  BY <1>10 DEF NoticeShutdown
<1>11. CASE RemoveToken(p)
  BY <1>11 DEF RemoveToken
<1>12. CASE CloseSocket(p)
  BY <1>12 DEF CloseSocket
<1>13. CASE RemoveLockFile(p)
  BY <1>13 DEF RemoveLockFile
<1>14. CASE StartFails(p)
  BY <1>14 DEF StartFails
<1>15. QED
  BY <1>1, <1>2, <1>3, <1>4, <1>5, <1>6, <1>7, <1>8, <1>9, <1>10, <1>11,
     <1>12, <1>13, <1>14 DEF Serve

\* The steps of the calls: the client reads the token of the server it has
\* reached, and that server compares it with its own.
LEMMA CallerReaches ==
  ASSUME TypeOK, CallInv, ServerInv, PeerInv, NEW c \in Calls,
         \/ RefuseMethod(c) \/ Connect(c) \/ ConnectFails(c)
         \/ Client(c) \/ Fallback(c)
  PROVE  PeerInv'
<1> USE NoPidAssumption
    DEF TypeOK, ServerTypeOK, CallInv, Unconnected, Unread, ServerInv, PeerInv,
        Reached, Undisturbed, CallGoes, IsServer, ServerAt, Stopping, Ended,
        serverVars, past
<1>0. CASE RefuseMethod(c)
  BY <1>0 DEF RefuseMethod
<1>1. CASE Connect(c)
  BY <1>1 DEF Connect
<1>2. CASE ConnectFails(c)
  BY <1>2 DEF ConnectFails
<1>3. CASE Send(c)
  BY <1>3 DEF Send
<1>4. CASE SendFails(c)
  BY <1>4 DEF SendFails
<1>5. CASE Receive(c)
  BY <1>5 DEF Receive
<1>6. CASE ReadFails(c)
  BY <1>6 DEF ReadFails
<1>7. CASE SpawnOneShot(c)
  BY <1>7 DEF SpawnOneShot
<1>8. CASE RunOneShot(c)
  BY <1>8 DEF RunOneShot
<1>9. CASE OneShotDies(c)
  BY <1>9 DEF OneShotDies
<1>10. QED
  BY <1>0, <1>1, <1>2, <1>3, <1>4, <1>5, <1>6, <1>7, <1>8, <1>9
     DEF Client, Fallback

LEMMA ConnectionReaches ==
  ASSUME TypeOK, CallInv, ServerInv, PeerInv, NEW c \in Calls,
         Connection(c) \/ RunJob(c)
  PROVE  PeerInv'
<1> USE NoPidAssumption
    DEF TypeOK, CallInv, Unread, PeerInv, Reached, Undisturbed, ConnGoes,
        Authentic, SessionToken, serverVars, past
<1>1. CASE Authenticate(c)
  BY <1>1 DEF Authenticate
<1>2. CASE Reject(c)
  BY <1>2 DEF Reject, Connected
<1>3. CASE AuthTimesOut(c)
  BY <1>3 DEF AuthTimesOut
<1>4. CASE StartJob(c)
  BY <1>4 DEF StartJob
<1>5. CASE RunJob(c)
  BY <1>5 DEF RunJob
<1>6. CASE Respond(c)
  BY <1>6 DEF Respond
<1>7. CASE CloseIdle(c)
  BY <1>7 DEF CloseIdle
<1>8. CASE WriteFails(c)
  BY <1>8 DEF WriteFails
<1>9. CASE CloseConnection(c)
  BY <1>9 DEF CloseConnection
<1>10. QED
  BY <1>1, <1>2, <1>3, <1>4, <1>5, <1>6, <1>7, <1>8, <1>9
     DEF Connection

\* In every reachable state.
LEMMA ServersReached == Spec => [](ServerInv /\ PeerInv)
<1> USE NoPidAssumption
<1>1. Init => ServerInv /\ PeerInv
  BY DEF Init, ServerInit, ServerInv, PeerInv, Holders, IsServer, ServerAt,
         Starting, Stopping, Reached, Undisturbed
<1>2. /\ TypeOK /\ CallInv /\ ServerInv /\ PeerInv /\ [Next]_vars
      => (ServerInv /\ PeerInv)'
  <2> SUFFICES ASSUME TypeOK, CallInv, ServerInv, PeerInv, [Next]_vars
      PROVE  (ServerInv /\ PeerInv)'
    OBVIOUS
  <2>1. CASE UNCHANGED vars
    BY <2>1 DEF vars, serverVars, past, reqVars, ServerInv, PeerInv, Holders,
                IsServer, Reached, Undisturbed
  <2>2. ASSUME NEW c \in Calls,
               \/ RefuseMethod(c) \/ Connect(c) \/ ConnectFails(c)
               \/ Client(c) \/ Fallback(c)
               \/ Connection(c) \/ RunJob(c)
        PROVE  (ServerInv /\ PeerInv)'
    <3>1. PeerInv'
      BY <2>2, CallerReaches, ConnectionReaches
    <3>2. UNCHANGED <<serverVars, past>>
      BY <2>2 DEF RefuseMethod, Connect, ConnectFails, Client, Send, SendFails,
                  Receive, ReadFails, Fallback, SpawnOneShot, RunOneShot, OneShotDies,
                  Connection, Authenticate, Reject, AuthTimesOut, StartJob,
                  Respond, CloseIdle, WriteFails, CloseConnection, RunJob
    <3>3. QED
      BY <3>1, <3>2 DEF serverVars, past, ServerInv, Holders, IsServer
  <2>3. ASSUME NEW p \in Pids, Start(p)
        PROVE  (ServerInv /\ PeerInv)'
    BY <2>3 DEF Start, Boot, Move, reqVars, TypeOK, ServerTypeOK, ServerInv,
                PeerInv, Holders, IsServer, ServerAt, Starting, Stopping,
                Reached, Undisturbed
  <2>4. ASSUME NEW p \in Pids, Run(p)
        PROVE  (ServerInv /\ PeerInv)'
    BY <2>4, ServeKeeps DEF Run, reqVars, TypeOK, PeerInv, Reached, Undisturbed
  <2>5. ASSUME NEW p \in Pids, Crash(p)
        PROVE  (ServerInv /\ PeerInv)'
    BY <2>5 DEF Crash, Die, past, TypeOK, ServerTypeOK, ServerInv, PeerInv,
                Holders, IsServer, ServerAt, Starting, Stopping, Reached,
                Undisturbed
  <2>6. ASSUME NEW f \in BOOLEAN, SetFlag(f)
        PROVE  (ServerInv /\ PeerInv)'
    BY <2>6 DEF SetFlag, exceptFlag, reqVars, past, ServerInv, PeerInv, Holders,
                IsServer, Reached, Undisturbed
  <2>7. CASE UnlinkLock
    BY <2>7 DEF UnlinkLock, exceptLock, reqVars, past, ServerInv, PeerInv,
                Holders, IsServer, Reached, Undisturbed
  <2>8. QED
    BY <2>1, <2>2, <2>3, <2>4, <2>5, <2>6, <2>7 DEF Next
<1>3. QED
  BY <1>1, <1>2, Typing, CallsAgree, PTL DEF Spec

\* A server that serves alone refuses no call.
THEOREM RefusalsExplained == Spec => []RefusalHasCause
<1>1. CallInv /\ PeerInv => RefusalHasCause
  BY DEF CallInv, Unconnected, Connected, PeerInv, Undisturbed, RefusalHasCause
<1>2. QED
  BY <1>1, CallsAgree, ServersReached, PTL

-----------------------------------------------------------------------------
(* The calls implement CallOnce.                                            *)

\* A step that only moves the call c.
LEMMA MoveRefines ==
  ASSUME TypeOK, NEW c \in Calls, UNCHANGED executed,
         NEW to, call' = [call EXCEPT ![c] = to],
         call[c] \notin Ended,
         to \in Ended =>
           /\ to = "answered" => executed[c] = 1
           /\ to = "refused" => executed[c] = 0
  PROVE  [Abstract!Next]_<<outcome, executed>>
<1>1. CASE to \notin Ended
  <2>1. outcome' = outcome
    BY <1>1 DEF outcome, TypeOK
  <2> QED
    BY <2>1
<1>2. CASE to \in Ended
  <2>1. outcome[c] = "pending" /\ outcome' = [outcome EXCEPT ![c] = to]
    BY <1>2 DEF outcome, TypeOK
  <2>2. Abstract!End(c, to)
    BY <1>2, <2>1 DEF Abstract!End
  <2> QED
    BY <1>2, <2>2 DEF Ended, Abstract!Next, Abstract!Ends
<1> QED
  BY <1>1, <1>2

LEMMA ClientRefines ==
  ASSUME TypeOK, CallInv, NEW c \in Calls,
         \/ RefuseMethod(c) \/ Connect(c) \/ ConnectFails(c) \/ Client(c)
         \/ SpawnOneShot(c) \/ OneShotDies(c)
  PROVE  [Abstract!Next]_<<outcome, executed>>
<1> DEFINE Goes(to) == call' = [call EXCEPT ![c] = to]
<1>1. \E to : Goes(to)
  <2>1. CASE Receive(c)
    <3>1. Goes("answered") \/ Goes("refused")
      BY <2>1 DEF Receive, CallGoes
    <3> QED
      BY <3>1
  <2>2. CASE ~Receive(c)
    <3>1. \/ Goes("failed") \/ Goes("connected") \/ Goes("spawn")
          \/ Goes("waiting") \/ Goes("oneshot")
      BY <2>2 DEF RefuseMethod, Connect, ConnectFails, Client, Send, SendFails,
                  ReadFails, SpawnOneShot, OneShotDies, CallGoes
    <3> QED
      BY <3>1
  <2> QED
    BY <2>1, <2>2
<1>2. PICK to : call' = [call EXCEPT ![c] = to]
  BY <1>1
<1>3. call[c] \in {"idle", "connected", "waiting", "spawn", "oneshot"}
  BY DEF RefuseMethod, Connect, ConnectFails, Client, Send, SendFails, Receive,
         ReadFails, SpawnOneShot, OneShotDies, CallGoes
<1>4. call[c] \notin Ended
  BY <1>3 DEF Ended
<1>5. UNCHANGED executed
  BY DEF RefuseMethod, Connect, ConnectFails, Client, Send, SendFails, Receive,
         ReadFails, SpawnOneShot, OneShotDies
<1>6. to = "answered" => Receive(c) /\ reply[c] = "answer"
  BY <1>2 DEF RefuseMethod, Connect, ConnectFails, Client, Send, SendFails,
              Receive, ReadFails, SpawnOneShot, OneShotDies, CallGoes, TypeOK
<1>7. to = "refused" => Receive(c) /\ reply[c] = "unauthorized"
  BY <1>2 DEF RefuseMethod, Connect, ConnectFails, Client, Send, SendFails,
              Receive, ReadFails, SpawnOneShot, OneShotDies, CallGoes, TypeOK
<1>8. /\ to = "answered" => executed[c] = 1
      /\ to = "refused" => executed[c] = 0
  BY <1>6, <1>7 DEF CallInv, Unconnected, Connected, Replied
<1> QED
  BY <1>2, <1>4, <1>5, <1>8, MoveRefines

LEMMA OneShotRefines ==
  ASSUME TypeOK, CallInv, NEW c \in Calls, RunOneShot(c)
  PROVE  [Abstract!Next]_<<outcome, executed>>
<1>0. call[c] = "oneshot" /\ executed[c] = 0
  BY DEF RunOneShot, CallGoes, CallInv, Unconnected, Connected, Ended
<1>1. executed' = [executed EXCEPT ![c] = 1]
  BY <1>0 DEF RunOneShot
<1>2. PICK to \in {"answered", "failed"} : call' = [call EXCEPT ![c] = to]
  BY DEF RunOneShot, CallGoes
<1>3. outcome[c] = "pending" /\ outcome' = [outcome EXCEPT ![c] = to]
  BY <1>0, <1>2 DEF outcome, Ended, TypeOK
<1>4. executed'[c] = 1
  BY <1>1 DEF TypeOK
<1>5. Abstract!Execute(c) /\ Abstract!End(c, to)
  BY <1>0, <1>1, <1>2, <1>3, <1>4 DEF Abstract!Execute, Abstract!End
<1> QED
  BY <1>5 DEF Abstract!Next, Abstract!Ends

LEMMA JobRefines ==
  ASSUME TypeOK, CallInv, NEW c \in Calls, RunJob(c)
  PROVE  [Abstract!Next]_<<outcome, executed>>
<1>0. executed[c] = 0
  BY DEF RunJob, CallInv, Unconnected, Connected
<1>1. executed' = [executed EXCEPT ![c] = 1]
  BY <1>0 DEF RunJob
<1>2. call[c] # "answered" /\ call[c] # "refused"
  BY DEF RunJob, CallInv, Unconnected, Connected, Replied
<1>3. outcome' = outcome /\ outcome[c] \in {"pending", "failed"}
  BY <1>2 DEF RunJob, outcome, Ended, TypeOK
<1> QED
  BY <1>0, <1>1, <1>3 DEF Abstract!Next, Abstract!Execute

LEMMA CallsRefine ==
  TypeOK /\ CallInv /\ [Next]_vars => [Abstract!Next]_<<outcome, executed>>
<1> SUFFICES ASSUME TypeOK, CallInv, [Next]_vars
             PROVE  [Abstract!Next]_<<outcome, executed>>
  OBVIOUS
<1>1. CASE UNCHANGED <<call, executed>>
  BY <1>1 DEF outcome
<1>2. ASSUME NEW c \in Calls, Connection(c)
      PROVE  UNCHANGED <<call, executed>>
  BY <1>2 DEF Connection, Authenticate, Reject, AuthTimesOut, StartJob, Respond,
              CloseIdle, WriteFails, CloseConnection
<1>3. ASSUME NEW p \in Pids, Start(p) \/ Run(p) \/ Crash(p)
      PROVE  UNCHANGED <<call, executed>>
  BY <1>3 DEF Start, Run, Crash, reqVars
<1>4. ASSUME NEW f \in BOOLEAN, SetFlag(f)
      PROVE  UNCHANGED <<call, executed>>
  BY <1>4 DEF SetFlag, reqVars
<1>5. CASE UnlinkLock \/ UNCHANGED vars
  BY <1>1, <1>5 DEF UnlinkLock, vars, reqVars
<1> QED
  BY <1>1, <1>2, <1>3, <1>4, <1>5, ClientRefines, OneShotRefines, JobRefines
     DEF Next, Fallback

\* sidecar_request and the servers implement CallOnce for any number of both.
THEOREM Implements == Spec => CallsImplement
<1>1. Init => Abstract!Init
  BY DEF Init, Abstract!Init, outcome, Ended
<1> QED
  BY <1>1, CallsRefine, Typing, CallsAgree, PTL
     DEF Spec, Abstract!Spec, CallsImplement

=============================================================================
