---------------------------- MODULE ProgressStream ----------------------------
(***************************************************************************)
(* One request with progress: the handler in a thread of the pool puts     *)
(* events into a queue (sidecar/progress.py), the event loop polls the     *)
(* queue through other threads of the pool and writes what they get to the *)
(* client (_execute_with_progress_streaming in sidecar/server.py), and the *)
(* client relays them until it reads the response (sidecar_client.rs).     *)
(*                                                                         *)
(* A poll is queue.get with a timeout, in a thread, and the loop waits for *)
(* it with a timeout of its own.  When that one expires first, the loop    *)
(* goes on and the thread, which cannot be cancelled, still takes what it  *)
(* finds in the queue.                                                     *)
(***************************************************************************)
EXTENDS Naturals, Sequences

CONSTANTS
  MaxEvents,   \* bound on the events a handler emits
  MaxDrain,    \* max_drain
  MaxStrays,   \* bound on the abandoned polls in threads at one time
  Sentinel,    \* what close() puts into the queue
  Response,    \* the response line
  Nothing

ASSUME BoundsAssumption ==
  MaxEvents \in Nat /\ MaxDrain \in Nat /\ MaxStrays \in Nat
ASSUME MarkersAssumption ==
  /\ Sentinel # Nothing
  /\ Sentinel \notin Nat /\ Response \notin Nat /\ Nothing \notin Nat

VARIABLES
  handler,   \* where the handler's thread is
  emitted,   \* the events emitted so far: 1, 2, ...
  queue,     \* the events in the progress queue, and the sentinel
  loop,      \* where _execute_with_progress_streaming is
  poll,      \* the poll the loop waits for
  item,      \* what that poll got
  strays,    \* the number of abandoned polls still in a thread
  drained,   \* drain_count
  out,       \* the lines written to the client
  client,    \* the client's read loop
  shown,     \* the events it has relayed
  late       \* history: whether a poll was abandoned, or the drain was cut off

vars == <<handler, emitted, queue, loop, poll, item, strays, drained, out,
          client, shown, late>>
sendVars == <<out, client, shown>>
loopVars == <<loop, poll, item, drained, late>>

Events == 1 .. MaxEvents

TypeOK ==
  /\ handler \in {"queued", "running", "closed", "done"}
  /\ emitted \in 0 .. MaxEvents
  /\ queue \in Seq(Events \cup {Sentinel})
  /\ loop \in {"poll", "await", "check", "drain", "finish", "responded",
               "broken"}
  /\ poll \in {"none", "pending", "getting", "got", "empty"}
  /\ item \in Events \cup {Sentinel, Nothing}
  /\ item # Nothing <=> poll = "got"
  /\ poll # "none" <=> loop = "await"
  /\ strays \in 0 .. MaxStrays
  /\ drained \in 0 .. MaxDrain
  /\ out \in Seq(Events \cup {Response})
  /\ client \in {"reading", "answered", "gone"}
  /\ shown \in Seq(Events)
  /\ late \in BOOLEAN

Init ==
  /\ handler = "queued"
  /\ emitted = 0
  /\ queue = <<>>
  /\ loop = "poll"
  /\ poll = "none"
  /\ item = Nothing
  /\ strays = 0
  /\ drained = 0
  /\ out = <<>>
  /\ client = "reading"
  /\ shown = <<>>
  /\ late = FALSE

-----------------------------------------------------------------------------
(* The handler's thread.                                                    *)

HandlerGoes(from, to) ==
  /\ handler = from
  /\ handler' = to
  /\ UNCHANGED <<emitted, strays, loopVars, sendVars>>

\* A thread of the pool becomes free for it.
StartHandler ==
  /\ HandlerGoes("queued", "running")
  /\ UNCHANGED queue

\* ProgressContext.emit and emit_event.
Emit ==
  /\ handler = "running"
  /\ emitted < MaxEvents
  /\ emitted' = emitted + 1
  /\ queue' = Append(queue, emitted + 1)
  /\ UNCHANGED <<handler, strays, loopVars, sendVars>>

\* The finally block of handle_jsonrpc_message_with_progress.
Close ==
  /\ HandlerGoes("running", "closed")
  /\ queue' = Append(queue, Sentinel)

\* The function returns, and its future is done.
Return ==
  /\ HandlerGoes("closed", "done")
  /\ UNCHANGED queue

-----------------------------------------------------------------------------
(* The polls.                                                               *)

StartPoll ==
  /\ poll = "pending"
  /\ poll' = "getting"
  /\ UNCHANGED <<handler, emitted, queue, loop, item, strays, drained, late,
                 sendVars>>

Get ==
  /\ poll = "getting"
  /\ queue # <<>>
  /\ item' = Head(queue)
  /\ queue' = Tail(queue)
  /\ poll' = "got"
  /\ UNCHANGED <<handler, emitted, loop, strays, drained, late, sendVars>>

\* queue.Empty after 0.05 seconds.
GetExpires ==
  /\ poll = "getting"
  /\ queue = <<>>
  /\ poll' = "empty"
  /\ UNCHANGED <<handler, emitted, queue, loop, item, strays, drained, late,
                 sendVars>>

\* An abandoned poll takes an item for nobody, or expires.
StrayEnds ==
  /\ strays > 0
  /\ strays' = strays - 1
  /\ queue' = IF queue = <<>> THEN queue ELSE Tail(queue)
  /\ UNCHANGED <<handler, emitted, loopVars, sendVars>>

-----------------------------------------------------------------------------
(* The event loop.                                                          *)

LoopGoes(from, to) ==
  /\ loop = from
  /\ loop' = to

Poll ==
  /\ LoopGoes("poll", "await")
  /\ poll' = "pending"
  /\ UNCHANGED <<handler, emitted, queue, item, strays, drained, late,
                 sendVars>>

\* The poll brings an event or the sentinel.
Deliver ==
  /\ poll = "got"
  /\ poll' = "none"
  /\ item' = Nothing
  /\ \/ /\ item = Sentinel
        /\ LoopGoes("await", "finish")
        /\ UNCHANGED out
     \/ /\ item # Sentinel
        /\ LoopGoes("await", "poll")
        /\ out' = Append(out, item)
  /\ UNCHANGED <<handler, emitted, queue, strays, drained, late, client, shown>>

DeliverEmpty ==
  /\ LoopGoes("await", "check")
  /\ poll = "empty"
  /\ poll' = "none"
  /\ UNCHANGED <<handler, emitted, queue, item, strays, drained, late,
                 sendVars>>

\* Mutant of WaitExpires: what the poll got goes back into the queue.
WaitExpiresRequeues ==
  /\ LoopGoes("await", "check")
  /\ poll \in {"pending", "getting", "got"}
  /\ strays' = IF poll = "getting" THEN strays + 1 ELSE strays
  /\ strays' <= MaxStrays
  /\ late' = (late \/ poll # "pending")
  /\ queue' = IF poll = "got" THEN Append(queue, item) ELSE queue
  /\ poll' = "none"
  /\ item' = Nothing
  /\ UNCHANGED <<handler, emitted, drained, sendVars>>

\* wait_for gives up after 0.1 seconds: a poll that waits for a thread is
\* cancelled, one in a thread is left to itself, and what it got and the loop
\* has not seen yet is dropped.
WaitExpires ==
  /\ LoopGoes("await", "check")
  /\ poll \in {"pending", "getting", "got"}
  /\ strays' = IF poll = "getting" THEN strays + 1 ELSE strays
  /\ strays' <= MaxStrays
  /\ late' = (late \/ poll # "pending")
  /\ poll' = "none"
  /\ item' = Nothing
  /\ UNCHANGED <<handler, emitted, queue, drained, sendVars>>

\* Mutant of CheckHandler: it relies on the sentinel alone.
CheckNothing ==
  /\ LoopGoes("check", "poll")
  /\ UNCHANGED <<handler, emitted, queue, poll, item, strays, drained, late,
                 sendVars>>

\* Mutant of CheckHandler: what is left in the queue is not drained.
CheckNoDrain ==
  /\ LoopGoes("check", IF handler = "done" THEN "finish" ELSE "poll")
  /\ UNCHANGED <<handler, emitted, queue, poll, item, strays, drained, late,
                 sendVars>>

\* handler_future.done()
CheckHandler ==
  /\ LoopGoes("check", IF handler = "done" THEN "drain" ELSE "poll")
  /\ UNCHANGED <<handler, emitted, queue, poll, item, strays, drained, late,
                 sendVars>>

\* Mutant of Drain: no limit.
DrainAll ==
  /\ loop = "drain" /\ loop' = loop
  /\ queue # <<>> /\ Head(queue) # Sentinel
  /\ queue' = Tail(queue)
  /\ out' = Append(out, Head(queue))
  /\ drained' = drained + 1
  /\ UNCHANGED <<handler, emitted, poll, item, strays, late, client, shown>>

\* get_nowait brings an event.
Drain ==
  /\ loop = "drain" /\ loop' = loop
  /\ drained < MaxDrain
  /\ queue # <<>> /\ Head(queue) # Sentinel
  /\ queue' = Tail(queue)
  /\ out' = Append(out, Head(queue))
  /\ drained' = drained + 1
  /\ UNCHANGED <<handler, emitted, poll, item, strays, late, client, shown>>

\* The limit, the sentinel or an empty queue ends the drain.
DrainEnds ==
  /\ LoopGoes("drain", "finish")
  /\ \/ drained = MaxDrain /\ late' = TRUE /\ UNCHANGED queue
     \/ drained < MaxDrain /\ queue = <<>> /\ UNCHANGED <<queue, late>>
     \/ /\ drained < MaxDrain
        /\ queue # <<>> /\ Head(queue) = Sentinel
        /\ queue' = Tail(queue)
        /\ UNCHANGED late
  /\ UNCHANGED <<handler, emitted, poll, item, strays, drained, sendVars>>

\* The handler's result is awaited and written.
Respond ==
  /\ LoopGoes("finish", "responded")
  /\ handler = "done"
  /\ out' = Append(out, Response)
  /\ UNCHANGED <<handler, emitted, queue, poll, item, strays, drained, late,
                 client, shown>>

\* A write to a client that is gone raises: the connection is closed, and the
\* handler goes on.
WriteFails ==
  /\ client = "gone"
  /\ loop \in {"await", "drain", "finish"}
  /\ loop = "await" => poll = "got"
  /\ loop' = "broken"
  /\ poll' = "none"
  /\ item' = Nothing
  /\ UNCHANGED <<handler, emitted, queue, strays, drained, late, sendVars>>

-----------------------------------------------------------------------------
(* The client: send_request_with_progress.                                  *)

ReadProgress ==
  /\ client = "reading"
  /\ Len(shown) < Len(out)
  /\ out[Len(shown) + 1] # Response
  /\ shown' = Append(shown, out[Len(shown) + 1])
  /\ UNCHANGED <<handler, emitted, queue, strays, loopVars, out, client>>

ReadResponse ==
  /\ client = "reading"
  /\ Len(shown) < Len(out)
  /\ out[Len(shown) + 1] = Response
  /\ client' = "answered"
  /\ UNCHANGED <<handler, emitted, queue, strays, loopVars, out, shown>>

\* The read timeout.
GiveUp ==
  /\ client = "reading"
  /\ client' = "gone"
  /\ UNCHANGED <<handler, emitted, queue, strays, loopVars, out, shown>>

-----------------------------------------------------------------------------
Handler == StartHandler \/ Emit \/ Close \/ Return
PollThread == StartPoll \/ Get \/ GetExpires

Loop ==
  \/ Poll
  \/ Deliver
  \/ DeliverEmpty
  \/ WaitExpires
  \/ CheckHandler
  \/ Drain
  \/ DrainEnds
  \/ Respond
  \/ WriteFails

Client == ReadProgress \/ ReadResponse \/ GiveUp

Next == Handler \/ PollThread \/ StrayEnds \/ Loop \/ Client

Spec == Init /\ [][Next]_vars

\* Threads that run are scheduled, and so are the loop and the client; a poll
\* may wait for a free thread for ever.  The handler need not end.
FairSpec ==
  /\ Spec
  /\ WF_vars(Loop) /\ WF_vars(StrayEnds) /\ WF_vars(Get \/ GetExpires)
  /\ WF_vars(ReadProgress \/ ReadResponse)

-----------------------------------------------------------------------------
(* Properties.                                                              *)

\* The client is sent every event at most once, in the order of emission, and
\* one response, which is the last line: the drain and the abandoned polls do
\* not overtake or repeat each other.
SentInOrder ==
  \A i, j \in 1 .. Len(out) :
    i < j => out[i] # Response /\ (out[j] # Response => out[i] < out[j])

\* Unless a poll was abandoned in its thread or the drain hit its limit, the
\* renderer is shown every event the handler emitted, in that order and once,
\* before the client returns the response.
NothingLost ==
  client = "answered" /\ ~late => shown = [i \in 1 .. emitted |-> i]

\* Once the handler is done the client gets its response, or has given up
\* itself, whoever took the sentinel from the queue.
AnswerArrives == handler = "done" ~> client # "reading"

=============================================================================
