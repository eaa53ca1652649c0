---------------------------- MODULE SidecarRequest ----------------------------
(***************************************************************************)
(* The calls of the command sidecar_request, from the renderer to the      *)
(* Python handler and back: src-tauri/src/commands/sidecar.rs, the client  *)
(* in sidecar_client.rs, and _authenticate and _handle_client of           *)
(* sidecar/server.py, on top of the servers of SidecarServer, which start, *)
(* stop and crash while the calls are under way.                           *)
(*                                                                         *)
(* Every call opens a connection of its own, so a connection is known by   *)
(* its call.  A pid stands for one server process here, and so for the     *)
(* session token of that process: pids are not reused.                     *)
(***************************************************************************)
EXTENDS SidecarServer

CONSTANTS
  Calls,
  Permitted   \* those whose method is in ALLOWED_METHODS

ASSUME PermittedAssumption == Permitted \subseteq Calls

VARIABLES
  call,      \* where sidecar_request is, and how it ended
  peer,      \* the server its connection leads to
  token,     \* the token in the handshake line; NoPid if there is no such line
  request,   \* whether the server has the request line still to read
  conn,      \* where _handle_client is with the connection
  job,       \* the handler in the server's thread pool
  reply,     \* the line the server sent, if any
  executed,  \* history: how often the call's handler was run
  booted,    \* history: the processes that have been servers
  rivals     \* history: the servers that ran beside another one

reqVars == <<call, peer, token, request, conn, job, reply, executed>>
past == <<booted, rivals>>
vars == <<serverVars, reqVars, past>>

\* "refused" is the answer Unauthorized, "answered" the handler's own, whether
\* it is a result or an error; "failed" is everything else.
Ended == {"answered", "refused", "failed"}

TypeOK ==
  /\ ServerTypeOK
  /\ call \in [Calls -> {"idle", "connected", "waiting", "spawn", "oneshot"}
                          \cup Ended]
  /\ {peer, token} \subseteq [Calls -> Pids \cup {NoPid}]
  /\ request \in [Calls -> BOOLEAN]
  /\ conn \in [Calls -> {"none", "auth", "read", "exec", "closed"}]
  /\ job \in [Calls -> {"none", "queued", "done", "lost"}]
  /\ reply \in [Calls -> {"none", "answer", "unauthorized"}]
  /\ executed \in [Calls -> Nat]
  /\ {booted, rivals} \subseteq SUBSET Pids

Init ==
  /\ ServerInit
  /\ call = [c \in Calls |-> "idle"]
  /\ peer = [c \in Calls |-> NoPid]
  /\ token = [c \in Calls |-> NoPid]
  /\ request = [c \in Calls |-> FALSE]
  /\ conn = [c \in Calls |-> "none"]
  /\ job = [c \in Calls |-> "none"]
  /\ reply = [c \in Calls |-> "none"]
  /\ executed = [c \in Calls |-> 0]
  /\ booted = {}
  /\ rivals = {}

CallGoes(c, from, to) ==
  /\ call[c] = from
  /\ call' = [call EXCEPT ![c] = to]

ConnGoes(c, from, to) ==
  /\ conn[c] = from
  /\ conn' = [conn EXCEPT ![c] = to]

-----------------------------------------------------------------------------
(* The client.                                                              *)

RefuseMethod(c) ==
  /\ CallGoes(c, "idle", "failed")
  /\ c \notin Permitted
  /\ UNCHANGED <<serverVars, peer, token, request, conn, job, reply, executed,
                 past>>

Connect(c) ==
  /\ CallGoes(c, "idle", "connected")
  /\ c \in Permitted
  /\ port # NoPid
  /\ peer' = [peer EXCEPT ![c] = port]
  /\ conn' = [conn EXCEPT ![c] = "auth"]
  /\ UNCHANGED <<serverVars, token, request, job, reply, executed, past>>

\* Nobody listens, or the connection takes more than CONNECT_TIMEOUT: the error
\* has the prefix by which sidecar_request knows that it may spawn.
ConnectFails(c) ==
  /\ CallGoes(c, "idle", "spawn")
  /\ c \in Permitted
  /\ UNCHANGED <<serverVars, peer, token, request, conn, job, reply, executed,
                 past>>

\* The handshake line, if there is a token file to read, and the request.
Send(c) ==
  /\ CallGoes(c, "connected", "waiting")
  /\ token' = [token EXCEPT ![c] = tokenFile]
  /\ request' = [request EXCEPT ![c] = TRUE]
  /\ UNCHANGED <<serverVars, peer, conn, job, reply, executed, past>>

\* A write fails, the first or the second.
SendFails(c) ==
  /\ CallGoes(c, "connected", "failed")
  /\ \E sent \in {NoPid, tokenFile} : token' = [token EXCEPT ![c] = sent]
  /\ UNCHANGED <<serverVars, peer, request, conn, job, reply, executed, past>>

\* parse_jsonrpc_response; progress and stray lines are passed over.
Receive(c) ==
  /\ reply[c] # "none"
  /\ CallGoes(c, "waiting",
              IF reply[c] = "answer" THEN "answered" ELSE "refused")
  /\ UNCHANGED <<serverVars, peer, token, request, conn, job, reply, executed,
                 past>>

\* Mutant of ReadFails: any error leads to the one-shot process.
ReadFailsOver(c) ==
  /\ CallGoes(c, "waiting", "spawn")
  /\ UNCHANGED <<serverVars, peer, token, request, conn, job, reply, executed,
                 past>>

\* Mutant of ReadFails: no read timeout.
ReadFailsAtEof(c) ==
  /\ CallGoes(c, "waiting", "failed")
  /\ conn[c] = "closed"
  /\ UNCHANGED <<serverVars, peer, token, request, conn, job, reply, executed,
                 past>>

\* The read timeout, a reset, or the end of the stream: there may have been an
\* execution, and so there is no second attempt.  The timeout is that of the
\* simple client, whose one read is for the answer; the streaming client, which
\* the template calls for no method, starts it anew with every line.
ReadFails(c) ==
  /\ CallGoes(c, "waiting", "failed")
  /\ UNCHANGED <<serverVars, peer, token, request, conn, job, reply, executed,
                 past>>

\* sidecar_request_spawn: a process that runs one request and ends.
SpawnOneShot(c) ==
  /\ \/ CallGoes(c, "spawn", "oneshot")
     \/ CallGoes(c, "spawn", "failed")
  /\ UNCHANGED <<serverVars, peer, token, request, conn, job, reply, executed,
                 past>>

\* Mutant of RunOneShot: a process whose output is lost is started again.
RunOneShotAgain(c) ==
  /\ \/ CallGoes(c, "oneshot", "answered")
     \/ CallGoes(c, "oneshot", "spawn")
  /\ executed' = [executed EXCEPT ![c] = @ + 1]
  /\ UNCHANGED <<serverVars, peer, token, request, conn, job, reply, past>>

\* _run_oneshot: its output may be lost, with the process, after the execution.
RunOneShot(c) ==
  /\ \/ CallGoes(c, "oneshot", "answered")
     \/ CallGoes(c, "oneshot", "failed")
  /\ executed' = [executed EXCEPT ![c] = @ + 1]
  /\ UNCHANGED <<serverVars, peer, token, request, conn, job, reply, past>>

OneShotDies(c) ==
  /\ CallGoes(c, "oneshot", "failed")
  /\ UNCHANGED <<serverVars, peer, token, request, conn, job, reply, executed,
                 past>>

-----------------------------------------------------------------------------
(* The server's side of a connection.                                       *)

\* The session token in the memory of the server a connection leads to.
SessionToken(p) == IF at[p] \in {"serving", "stopToken"} THEN p ELSE NoPid

Authentic(c) == token[c] # NoPid /\ token[c] = SessionToken(peer[c])

\* Silent if it succeeds.
Authenticate(c) ==
  /\ ConnGoes(c, "auth", "read")
  /\ Authentic(c)
  /\ UNCHANGED <<serverVars, call, peer, token, request, job, reply, executed,
                 past>>

\* Mutant of Reject: the refused connection stays open for requests.
RejectKeepsOpen(c) ==
  /\ ConnGoes(c, "auth", "read")
  /\ token[c] # NoPid \/ request[c]
  /\ ~Authentic(c)
  /\ reply' = [reply EXCEPT ![c] = "unauthorized"]
  /\ UNCHANGED <<serverVars, call, peer, token, request, job, executed, past>>

\* The first line is no handshake, maybe the request itself, or its token is
\* not this session's.
Reject(c) ==
  /\ ConnGoes(c, "auth", "closed")
  /\ token[c] # NoPid \/ request[c]
  /\ ~Authentic(c)
  /\ reply' = [reply EXCEPT ![c] = "unauthorized"]
  /\ request' = [request EXCEPT ![c] = FALSE]
  /\ UNCHANGED <<serverVars, call, peer, token, job, executed, past>>

\* No line within five seconds, or the client is gone without one.
AuthTimesOut(c) ==
  /\ ConnGoes(c, "auth", "closed")
  /\ token[c] = NoPid /\ ~request[c]
  /\ UNCHANGED <<serverVars, call, peer, token, request, job, reply, executed,
                 past>>

\* _execute_with_progress_streaming hands the request to the thread pool.
StartJob(c) ==
  /\ ConnGoes(c, "read", "exec")
  /\ request[c]
  /\ request' = [request EXCEPT ![c] = FALSE]
  /\ job' = [job EXCEPT ![c] = "queued"]
  /\ UNCHANGED <<serverVars, call, peer, token, reply, executed, past>>

\* handle_jsonrpc_message, which answers whatever happens in the handler.  The
\* thread does not depend on the connection, and a server that has stopped
\* waits for it.
RunJob(c) ==
  /\ job[c] = "queued"
  /\ job' = [job EXCEPT ![c] = "done"]
  /\ executed' = [executed EXCEPT ![c] = @ + 1]
  /\ UNCHANGED <<serverVars, call, peer, token, request, conn, reply, past>>

\* Back to the next request line; the client sends no second one.
Respond(c) ==
  /\ ConnGoes(c, "exec", "read")
  /\ job[c] = "done"
  /\ reply' = [reply EXCEPT ![c] = "answer"]
  /\ UNCHANGED <<serverVars, call, peer, token, request, job, executed, past>>

\* The client has closed the connection, or has not sent a request in time.
CloseIdle(c) ==
  /\ ConnGoes(c, "read", "closed")
  /\ ~request[c]
  /\ UNCHANGED <<serverVars, call, peer, token, request, job, reply, executed,
                 past>>

\* Writing to a client that has given up fails.
WriteFails(c) ==
  /\ ConnGoes(c, "exec", "closed")
  /\ call[c] \in Ended
  /\ UNCHANGED <<serverVars, call, peer, token, request, job, reply, executed,
                 past>>

\* Mutant of CloseConnection: it waits for the running request.
CloseQuietConnection(c) ==
  /\ conn[c] \in {"auth", "read"}
  /\ at[peer[c]] = "unlock"
  /\ conn' = [conn EXCEPT ![c] = "closed"]
  /\ UNCHANGED <<serverVars, call, peer, token, request, job, reply, executed,
                 past>>

\* stop closes every connection, whatever it is used for.  (With Python 3.11,
\* which the releases are built with, wait_closed does not wait for them.)
CloseConnection(c) ==
  /\ conn[c] \in {"auth", "read", "exec"}
  /\ at[peer[c]] = "unlock"
  /\ conn' = [conn EXCEPT ![c] = "closed"]
  /\ UNCHANGED <<serverVars, call, peer, token, request, job, reply, executed,
                 past>>

-----------------------------------------------------------------------------
(* The servers, started and killed from outside.                            *)

\* The servers past the check of the lock file.
Holders == {p \in Pids : IsServer(p) /\ at[p] \notin {"boot", "judge"}}

NoteRivals ==
  rivals' = IF \E p, q \in Holders' : p # q THEN rivals \cup Holders'
                                            ELSE rivals

Start(p) ==
  /\ Boot(p)
  /\ p \notin booted
  /\ booted' = booted \cup {p}
  /\ UNCHANGED <<reqVars, rivals>>

AllClosed(p) == \A c \in Calls : peer[c] = p => conn[c] = "closed"

Run(p) ==
  /\ Serve(p)
  /\ at[p] = "unlock" => AllClosed(p)
  /\ NoteRivals
  /\ UNCHANGED <<reqVars, booted>>

\* A server that has stopped may still be killed while it waits for a handler.
Crash(p) ==
  /\ IsServer(p) \/ \E c \in Calls : peer[c] = p /\ job[c] = "queued"
  /\ Die(p)
  /\ conn' = [c \in Calls |-> IF peer[c] = p THEN "closed" ELSE conn[c]]
  /\ job' = [c \in Calls |-> IF peer[c] = p /\ job[c] = "queued" THEN "lost"
                                                                 ELSE job[c]]
  /\ UNCHANGED <<call, peer, token, request, reply, executed, past>>

\* The application asks for a shutdown, or clears the flag of the last one.
SetFlag(f) ==
  /\ shutdownFlag' = f
  /\ shutdownFlag # f
  /\ UNCHANGED <<exceptFlag, reqVars, past>>

\* The application removes the lock file.  Its clean-ups read it, compare names,
\* wait and remove it in separate steps, so that it may be any server's by then.
UnlinkLock ==
  /\ lockFile # NoPid
  /\ lockFile' = NoPid
  /\ UNCHANGED <<exceptLock, reqVars, past>>

-----------------------------------------------------------------------------
Client(c) ==
  \/ Send(c)
  \/ SendFails(c)
  \/ Receive(c)
  \/ ReadFails(c)

Fallback(c) ==
  \/ SpawnOneShot(c)
  \/ RunOneShot(c)
  \/ OneShotDies(c)

Connection(c) ==
  \/ Authenticate(c)
  \/ Reject(c)
  \/ AuthTimesOut(c)
  \/ StartJob(c)
  \/ Respond(c)
  \/ CloseIdle(c)
  \/ WriteFails(c)
  \/ CloseConnection(c)

Next ==
  \/ \E c \in Calls :
       \/ RefuseMethod(c)
       \/ Connect(c)
       \/ ConnectFails(c)
       \/ Client(c)
       \/ Fallback(c)
       \/ Connection(c)
       \/ RunJob(c)
  \/ \E p \in Pids :
       \/ Start(p)
       \/ Run(p)
       \/ Crash(p)
  \/ \E f \in BOOLEAN : SetFlag(f)
  \/ UnlinkLock

Spec == Init /\ [][Next]_vars

\* The client's thread, the event loop and the server's main task are scheduled,
\* and timeouts expire.  Handlers may take for ever.
FairSpec ==
  /\ Spec
  /\ \A c \in Calls : WF_vars(Client(c)) /\ WF_vars(CloseConnection(c))
  /\ \A p \in Pids : WF_vars(Run(p))

-----------------------------------------------------------------------------
(* Properties.                                                              *)

\* A call's request is executed at most once, by a server or by a one-shot
\* process: a call falls back only when the server cannot have its request,
\* however late the handler, the timeout, the crash or the shutdown
\* (commands/sidecar.rs:68-70, "spawning would cause double execution").
AtMostOnce == \A c \in Calls : executed[c] <= 1

\* What the renderer is told is what happened: an answer comes from an
\* execution, and a call that was refused is not executed and never will be,
\* so that repeating it is safe.
AnswerTellsExecution ==
  \A c \in Calls :
    /\ call[c] = "answered" => executed[c] = 1
    /\ call[c] = "refused" =>
         executed[c] = 0 /\ job[c] = "none" /\ ~request[c]

\* Calls implement CallOnce, whatever the fallback, the timeouts, the crashes
\* and the late handlers do: besides the two above, what the renderer was told
\* once is final.
outcome == [c \in Calls |-> IF call[c] \in Ended THEN call[c] ELSE "pending"]
Abstract == INSTANCE CallOnce WITH
              Calls <- Calls, outcome <- outcome, executed <- executed
CallsImplement == Abstract!Spec

\* A server that keeps serving and was never beside another one refuses nobody:
\* the token the client finds on the disk is that of the server it has reached,
\* whatever servers crashed, stopped or failed to start before.
RefusalHasCause ==
  \A c \in Calls :
    call[c] = "refused" => at[peer[c]] # "serving" \/ peer[c] \in rivals

\* A call that reached a server ends, be the handler stuck or the server gone:
\* the read timeout of the simple client sees to it.
CallsEnd == \A c \in Calls : call[c] = "connected" ~> call[c] \in Ended

\* A server told to stop removes its files and ends its main task, whatever its
\* connections and handlers are doing.
ServerStops == \A p \in Pids : at[p] = "stopToken" ~> at[p] = "gone"

=============================================================================
