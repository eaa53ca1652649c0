------------------------ MODULE ProgressStream_proofs ------------------------
(***************************************************************************)
(* For any number of events, any drain limit and any number of abandoned   *)
(* polls: the lines sent are in the order of emission, and the response is *)
(* the last one.  The invariant extends the order over the poll's item and *)
(* the queue: what is sent comes before what the loop is about to get, and *)
(* that before what is still in the queue.                                 *)
(***************************************************************************)
EXTENDS ProgressStream, SequenceTheorems, TLAPS

\* The queue is in the order of emission, and the sentinel is its end.
QueueInOrder ==
  /\ \A i, j \in 1 .. Len(queue) :
       i < j =>
         queue[i] # Sentinel /\ (queue[j] # Sentinel => queue[i] < queue[j])
  /\ \A i \in 1 .. Len(queue) :
       IF queue[i] = Sentinel THEN handler \in {"closed", "done"}
                              ELSE queue[i] <= emitted

\* The poll's item comes before everything in the queue.
ItemNext ==
  item \in Events =>
    /\ item <= emitted
    /\ \A i \in 1 .. Len(queue) : queue[i] # Sentinel => item < queue[i]

\* Until the response is sent, what is sent comes before all the rest.
SentBefore ==
  loop # "responded" =>
    \A k \in 1 .. Len(out) :
      /\ out[k] \in Events
      /\ out[k] <= emitted
      /\ item \in Events => out[k] < item
      /\ \A i \in 1 .. Len(queue) : queue[i] # Sentinel => out[k] < queue[i]

StreamInv == QueueInOrder /\ ItemNext /\ SentBefore /\ SentInOrder

-----------------------------------------------------------------------------
\* What is left of the queue when its head is taken.
LEMMA Pop ==
  ASSUME TypeOK, queue # <<>>
  PROVE  /\ Len(queue) \in Nat \ {0}
         /\ Head(queue) = queue[1] /\ Head(queue) \in Events \cup {Sentinel}
         /\ Tail(queue) \in Seq(Events \cup {Sentinel})
         /\ Len(Tail(queue)) = Len(queue) - 1
         /\ \A i \in 1 .. Len(Tail(queue)) : Tail(queue)[i] = queue[i + 1]
  BY HeadTailProperties, EmptySeq DEF TypeOK

\* The queue with one more item, and the lines sent with one more line.
LEMMA Push ==
  ASSUME TypeOK, NEW x \in Events \cup {Sentinel}
  PROVE  /\ Len(queue) \in Nat
         /\ Append(queue, x) \in Seq(Events \cup {Sentinel})
         /\ Len(Append(queue, x)) = Len(queue) + 1
         /\ \A i \in 1 .. Len(queue) : Append(queue, x)[i] = queue[i]
         /\ Append(queue, x)[Len(queue) + 1] = x
  BY AppendProperties, LenProperties DEF TypeOK

LEMMA SendLine ==
  ASSUME TypeOK, NEW x \in Events \cup {Response}
  PROVE  /\ Len(out) \in Nat
         /\ Append(out, x) \in Seq(Events \cup {Response})
         /\ Len(Append(out, x)) = Len(out) + 1
         /\ \A i \in 1 .. Len(out) : Append(out, x)[i] = out[i]
         /\ Append(out, x)[Len(out) + 1] = x
  BY AppendProperties, LenProperties DEF TypeOK

\* Type correctness of every reachable state.
THEOREM Typing == Spec => []TypeOK
<1> USE BoundsAssumption, MarkersAssumption DEF TypeOK, Events
<1>1. Init => TypeOK
  <2>1. /\ <<>> \in Seq(Events \cup {Sentinel}) /\ <<>> \in Seq(Events)
        /\ <<>> \in Seq(Events \cup {Response})
    BY EmptySeq
  <2>2. Init => /\ queue \in Seq(Events \cup {Sentinel})
                /\ out \in Seq(Events \cup {Response}) /\ shown \in Seq(Events)
    BY <2>1 DEF Init
  <2>3. Init => /\ emitted \in 0 .. MaxEvents /\ strays \in 0 .. MaxStrays
                /\ drained \in 0 .. MaxDrain
    BY DEF Init
  <2>4. Init => /\ item \in Events \cup {Sentinel, Nothing}
                /\ item # Nothing <=> poll = "got"
                /\ poll # "none" <=> loop = "await"
    BY DEF Init
  <2>5. QED
    BY <2>2, <2>3, <2>4, Zenon DEF Init
<1>2. TypeOK /\ [Next]_vars => TypeOK'
  <2> SUFFICES ASSUME TypeOK, [Next]_vars PROVE TypeOK'
    OBVIOUS
  <2> USE DEF HandlerGoes, LoopGoes, loopVars, sendVars
  <2>1. CASE StartHandler
    BY <2>1 DEF StartHandler
  <2>2. CASE Emit
    BY <2>2 DEF Emit
  <2>3. CASE Close
    BY <2>3 DEF Close
  <2>4. CASE Return
    BY <2>4 DEF Return
  <2>5. CASE StartPoll
    BY <2>5 DEF StartPoll
  <2>6. CASE Get
    BY <2>6 DEF Get
  <2>7. CASE GetExpires
    BY <2>7 DEF GetExpires
  <2>8. CASE StrayEnds
    BY <2>8 DEF StrayEnds
  <2>9. CASE Poll
    BY <2>9 DEF Poll
  <2>10. CASE Deliver
    <3>1. CASE item = Sentinel
      BY <2>10, <3>1 DEF Deliver
    <3>2. CASE item # Sentinel
      <4>1. item \in Events
        BY <2>10, <3>2 DEF Deliver
      <4>2. Append(out, item) \in Seq(Events \cup {Response})
        BY <4>1, SendLine
      <4>3. QED
        BY <2>10, <3>2, <4>2 DEF Deliver
    <3>3. QED
      BY <3>1, <3>2
  <2>11. CASE DeliverEmpty
    BY <2>11 DEF DeliverEmpty
  <2>12. CASE WaitExpires
    BY <2>12 DEF WaitExpires
  <2>13. CASE CheckHandler
    BY <2>13 DEF CheckHandler
  <2>14. CASE Drain
    BY <2>14 DEF Drain
  <2>15. CASE DrainEnds
    BY <2>15, Pop DEF DrainEnds
  <2>16. CASE Respond
    BY <2>16 DEF Respond
  <2>17. CASE WriteFails
    BY <2>17 DEF WriteFails
  <2>18. CASE ReadProgress
    BY <2>18 DEF ReadProgress
  <2>19. CASE ReadResponse
    BY <2>19 DEF ReadResponse
  <2>20. CASE GiveUp
    BY <2>20 DEF GiveUp
  <2>21. CASE UNCHANGED vars
    BY <2>21 DEF vars
  <2>22. QED
    BY <2>1, <2>2, <2>3, <2>4, <2>5, <2>6, <2>7, <2>8, <2>9, <2>10, <2>11,
       <2>12, <2>13, <2>14, <2>15, <2>16, <2>17, <2>18, <2>19, <2>20, <2>21
       DEF Next, Handler, PollThread, Loop, Client
<1>3. QED
  BY <1>1, <1>2, PTL DEF Spec

-----------------------------------------------------------------------------
\* A step that leaves the queue and the output alone, and may drop the item.
LEMMA QuietStep ==
  ASSUME TypeOK, StreamInv, UNCHANGED <<queue, out, emitted>>,
         item' = item \/ item' = Nothing,
         loop = "responded" => loop' = "responded",
         handler \in {"closed", "done"} => handler' \in {"closed", "done"}
  PROVE  StreamInv'
<1> USE MarkersAssumption DEF StreamInv
<1>1. QueueInOrder'
  BY DEF QueueInOrder
<1>2. item' \in Events => item \in Events /\ item' = item
  BY DEF Events
<1>3. ItemNext'
  BY <1>2 DEF ItemNext
<1>4. SentBefore'
  BY <1>2 DEF SentBefore, Events
<1>5. SentInOrder'
  BY DEF SentInOrder
<1>6. QED
  BY <1>1, <1>3, <1>4, <1>5

\* A step that takes the head of the queue for nobody.
LEMMA HeadDropped ==
  ASSUME TypeOK, StreamInv, queue # <<>>, queue' = Tail(queue),
         UNCHANGED <<out, emitted, item, handler>>,
         loop = "responded" => loop' = "responded"
  PROVE  StreamInv'
<1> USE DEF StreamInv
<1>1. /\ Len(queue) \in Nat \ {0} /\ Len(queue') = Len(queue) - 1
      /\ \A i \in 1 .. Len(queue') : queue'[i] = queue[i + 1]
  BY Pop
<1>2. \A i \in 1 .. Len(queue') : i + 1 \in 1 .. Len(queue)
  BY <1>1
<1>3. QueueInOrder'
  BY <1>1, <1>2 DEF QueueInOrder
<1>4. ItemNext'
  BY <1>1, <1>2 DEF ItemNext, Events
<1>5. SentBefore'
  BY <1>1, <1>2 DEF SentBefore, Events
<1>6. SentInOrder'
  BY DEF SentInOrder
<1>7. QED
  BY <1>3, <1>4, <1>5, <1>6

\* One more line, of an event above all that was sent and below all that is left.
LEMMA SentLine ==
  ASSUME TypeOK, SentBefore, SentInOrder, loop # "responded",
         NEW e \in Events, out' = Append(out, e), e <= emitted, emitted' = emitted,
         \A k \in 1 .. Len(out) : out[k] < e,
         \A i \in 1 .. Len(queue') : queue'[i] # Sentinel => e < queue'[i],
         \A i \in 1 .. Len(queue') : queue'[i] # Sentinel => queue'[i] \in Events,
         item' \notin Events
  PROVE  SentBefore' /\ SentInOrder'
<1>1. /\ Len(out) \in Nat /\ Len(out') = Len(out) + 1
      /\ out'[Len(out) + 1] = e
      /\ \A k \in 1 .. Len(out) : out'[k] = out[k]
  BY SendLine
<1>2. \A k \in 1 .. Len(out') : k \in 1 .. Len(out) \/ k = Len(out) + 1
  BY <1>1
<1>3. \A k \in 1 .. Len(out') : out'[k] \in Events /\ out'[k] <= e
  BY <1>1, <1>2 DEF SentBefore, Events
<1>4. SentBefore'
  BY <1>3, BoundsAssumption DEF SentBefore, Events, TypeOK
<1>5. SentInOrder'
  <2> SUFFICES ASSUME NEW i \in 1 .. Len(out'), NEW j \in 1 .. Len(out'), i < j
               PROVE  /\ out'[i] # Response
                      /\ out'[j] # Response => out'[i] < out'[j]
    BY DEF SentInOrder
  <2>1. i \in 1 .. Len(out) /\ out'[i] = out[i] /\ out[i] \in Events
    BY <1>1 DEF SentBefore
  <2>2. CASE j = Len(out) + 1
    BY <1>1, <2>1, <2>2, MarkersAssumption DEF Events
  <2>3. CASE j \in 1 .. Len(out)
    BY <1>1, <2>1, <2>3 DEF SentInOrder
  <2>4. QED
    BY <1>2, <2>2, <2>3
<1>6. QED
  BY <1>4, <1>5

\* In every reachable state.
LEMMA InOrder == Spec => []StreamInv
<1> USE BoundsAssumption, MarkersAssumption
<1>1. Init => StreamInv
  <2>1. Init => Len(queue) = 0 /\ Len(out) = 0 /\ item \notin Events
    BY EmptySeq DEF Init, Events
  <2>2. QED
    BY <2>1 DEF StreamInv, QueueInOrder, ItemNext, SentBefore, SentInOrder
<1>2. TypeOK /\ StreamInv /\ [Next]_vars => StreamInv'
  <2> SUFFICES ASSUME TypeOK, StreamInv, [Next]_vars PROVE StreamInv'
    OBVIOUS
  <2> USE DEF HandlerGoes, LoopGoes, loopVars, sendVars
  <2>1. CASE StartHandler
    BY <2>1, QuietStep DEF StartHandler
  <2>2. CASE Emit
    <3> USE DEF StreamInv
    <3>1. /\ emitted \in Nat /\ emitted + 1 \in Events
          /\ queue' = Append(queue, emitted + 1) /\ emitted' = emitted + 1
          /\ UNCHANGED <<handler, loop, item, out>>
      BY <2>2 DEF Emit, TypeOK, Events
    <3>2. \A i \in 1 .. Len(queue) : queue[i] \in Events /\ queue[i] <= emitted
      BY <2>2, ElementOfSeq DEF Emit, TypeOK, QueueInOrder
    <3>3. /\ Len(queue) \in Nat /\ Len(queue') = Len(queue) + 1
          /\ \A i \in 1 .. Len(queue) : queue'[i] = queue[i]
          /\ queue'[Len(queue) + 1] = emitted + 1
      BY <3>1, Push
    <3>4. \A i \in 1 .. Len(queue') : \/ i \in 1 .. Len(queue)
                                     \/ i = Len(queue) + 1
      BY <3>3
    <3>5. QueueInOrder'
      <4>1. \A i \in 1 .. Len(queue') : queue'[i] \in Events /\ queue'[i] <= emitted'
        BY <3>1, <3>2, <3>3, <3>4 DEF Events
      <4>2. \A i, j \in 1 .. Len(queue') : i < j => queue'[i] < queue'[j]
        <5> SUFFICES ASSUME NEW i \in 1 .. Len(queue'), NEW j \in 1 .. Len(queue'),
                            i < j
                     PROVE  queue'[i] < queue'[j]
          OBVIOUS
        <5>1. i \in 1 .. Len(queue)
          BY <3>3
        <5>2. CASE j = Len(queue) + 1
          BY <3>1, <3>2, <3>3, <5>1, <5>2 DEF Events
        <5>3. CASE j \in 1 .. Len(queue)
          BY <3>2, <3>3, <5>1, <5>3, MarkersAssumption DEF QueueInOrder, Events
        <5>4. QED
          BY <3>4, <5>2, <5>3
      <4>3. QED
        BY <4>1, <4>2, MarkersAssumption DEF QueueInOrder, Events
    <3>6. ItemNext'
      BY <3>1, <3>3, <3>4 DEF ItemNext, Events
    <3>7. SentBefore'
      BY <3>1, <3>3, <3>4 DEF SentBefore, Events
    <3>8. SentInOrder'
      BY <3>1 DEF SentInOrder
    <3>9. QED
      BY <3>5, <3>6, <3>7, <3>8
  <2>3. CASE Close
    <3> USE DEF StreamInv
    <3>1. /\ queue' = Append(queue, Sentinel) /\ handler' = "closed"
          /\ handler = "running" /\ UNCHANGED <<emitted, loop, item, out>>
      BY <2>3 DEF Close
    <3>2. /\ Len(queue) \in Nat /\ Len(queue') = Len(queue) + 1
          /\ \A i \in 1 .. Len(queue) : queue'[i] = queue[i]
          /\ queue'[Len(queue) + 1] = Sentinel
      BY <3>1, Push
    <3>3. \A i \in 1 .. Len(queue') : \/ i \in 1 .. Len(queue)
                                     \/ i = Len(queue) + 1
      BY <3>2
    <3>4. QueueInOrder'
      BY <3>1, <3>2, <3>3 DEF QueueInOrder
    <3>5. ItemNext' /\ SentBefore' /\ SentInOrder'
      BY <3>1, <3>2, <3>3 DEF ItemNext, SentBefore, SentInOrder, Events
    <3>6. QED
      BY <3>4, <3>5
  <2>4. CASE Return
    BY <2>4, QuietStep DEF Return
  <2>5. CASE StartPoll
    BY <2>5, QuietStep DEF StartPoll
  <2>6. CASE Get
    <3> USE DEF StreamInv
    <3>1. /\ queue # <<>> /\ queue' = Tail(queue) /\ item' = Head(queue)
          /\ UNCHANGED <<handler, emitted, loop, out>>
      BY <2>6 DEF Get
    <3>2. /\ Len(queue) \in Nat \ {0} /\ Len(queue') = Len(queue) - 1
          /\ \A i \in 1 .. Len(queue') : queue'[i] = queue[i + 1]
          /\ item' = queue[1] /\ item' \in Events \cup {Sentinel}
      BY <3>1, Pop
    <3>3. \A i \in 1 .. Len(queue') : i + 1 \in 1 .. Len(queue)
      BY <3>2
    <3>4. QueueInOrder'
      BY <3>1, <3>2, <3>3 DEF QueueInOrder
    <3>5. ItemNext'
      BY <3>1, <3>2, <3>3, MarkersAssumption DEF ItemNext, QueueInOrder, Events
    <3>6. SentBefore'
      BY <3>1, <3>2, <3>3, MarkersAssumption DEF SentBefore, Events
    <3>7. SentInOrder'
      BY <3>1 DEF SentInOrder
    <3>8. QED
      BY <3>4, <3>5, <3>6, <3>7
  <2>7. CASE GetExpires
    BY <2>7, QuietStep DEF GetExpires
  <2>8. CASE StrayEnds
    <3>1. CASE queue = <<>>
      BY <2>8, <3>1, QuietStep DEF StrayEnds
    <3>2. CASE queue # <<>>
      BY <2>8, <3>2, HeadDropped DEF StrayEnds
    <3>3. QED
      BY <3>1, <3>2
  <2>9. CASE Poll
    BY <2>9, QuietStep DEF Poll
  <2>10. CASE Deliver
    <3>1. CASE item = Sentinel
      BY <2>10, <3>1, QuietStep DEF Deliver
    <3>2. CASE item # Sentinel
      <4>1. /\ item \in Events /\ out' = Append(out, item) /\ item' = Nothing
            /\ loop = "await" /\ loop' = "poll"
            /\ UNCHANGED <<queue, handler, emitted>>
        BY <2>10, <3>2 DEF Deliver, TypeOK
      <4>2. /\ item <= emitted /\ item' \notin Events
            /\ \A k \in 1 .. Len(out) : out[k] < item
            /\ \A i \in 1 .. Len(queue) : queue[i] # Sentinel => item < queue[i]
        BY <4>1, MarkersAssumption DEF StreamInv, ItemNext, SentBefore, Events
      <4>3. \A i \in 1 .. Len(queue) : queue[i] # Sentinel => queue[i] \in Events
        BY ElementOfSeq DEF TypeOK
      <4>4. SentBefore' /\ SentInOrder'
        BY <4>1, <4>2, <4>3, SentLine DEF StreamInv
      <4>5. QueueInOrder' /\ ItemNext'
        BY <4>1, <4>2 DEF StreamInv, QueueInOrder, ItemNext
      <4>6. QED
        BY <4>4, <4>5 DEF StreamInv
    <3>3. QED
      BY <3>1, <3>2
  <2>11. CASE DeliverEmpty
    BY <2>11, QuietStep DEF DeliverEmpty
  <2>12. CASE WaitExpires
    BY <2>12, QuietStep DEF WaitExpires
  <2>13. CASE CheckHandler
    BY <2>13, QuietStep DEF CheckHandler
  <2>14. CASE Drain
    <3>1. /\ queue # <<>> /\ Head(queue) # Sentinel /\ loop = "drain"
          /\ out' = Append(out, Head(queue)) /\ queue' = Tail(queue)
          /\ UNCHANGED <<handler, emitted, loop, item>> /\ item = Nothing
      BY <2>14, MarkersAssumption DEF Drain, TypeOK
    <3>2. /\ Len(queue) \in Nat \ {0} /\ Len(queue') = Len(queue) - 1
          /\ Head(queue) = queue[1] /\ Head(queue) \in Events
          /\ \A i \in 1 .. Len(queue') : queue'[i] = queue[i + 1]
      BY <3>1, Pop
    <3>3. \A i \in 1 .. Len(queue') : i + 1 \in 1 .. Len(queue)
      BY <3>2
    <3>4. QueueInOrder'
      BY <3>1, <3>2, <3>3 DEF StreamInv, QueueInOrder
    <3>5. /\ Head(queue) <= emitted
          /\ \A i \in 1 .. Len(queue') : queue'[i] # Sentinel =>
                                           Head(queue) < queue'[i]
          /\ \A k \in 1 .. Len(out) : out[k] \in Events /\ out[k] < Head(queue)
      BY <3>1, <3>2, <3>3 DEF StreamInv, QueueInOrder, SentBefore
    <3>6. item' \notin Events
      BY <3>1, MarkersAssumption DEF Events
    <3>7. \A i \in 1 .. Len(queue') : queue'[i] # Sentinel => queue'[i] \in Events
      BY <3>2, <3>3, ElementOfSeq DEF TypeOK
    <3>8. SentBefore' /\ SentInOrder'
      BY <3>1, <3>2, <3>5, <3>6, <3>7, SentLine DEF StreamInv
    <3>9. QED
      BY <3>4, <3>6, <3>8 DEF StreamInv, ItemNext
  <2>15. CASE DrainEnds
    <3>1. CASE queue' = queue
      BY <2>15, <3>1, QuietStep DEF DrainEnds
    <3>2. CASE queue # <<>> /\ queue' = Tail(queue)
      BY <2>15, <3>2, HeadDropped DEF DrainEnds
    <3>3. QED
      BY <2>15, <3>1, <3>2 DEF DrainEnds
  <2>16. CASE Respond
    <3>1. /\ loop = "finish" /\ loop' = "responded"
          /\ out' = Append(out, Response)
          /\ UNCHANGED <<handler, emitted, queue, item>>
      BY <2>16 DEF Respond
    <3>2. \A k \in 1 .. Len(out) : out[k] \in Events
      BY <3>1 DEF StreamInv, SentBefore
    <3>3. /\ Len(out) \in Nat /\ Len(out') = Len(out) + 1
          /\ out'[Len(out) + 1] = Response
          /\ \A k \in 1 .. Len(out) : out'[k] = out[k] /\ out[k] # Response
      BY <3>1, <3>2, SendLine, MarkersAssumption DEF Events
    <3>4. SentInOrder'
      <4> SUFFICES ASSUME NEW i \in 1 .. Len(out'), NEW j \in 1 .. Len(out'),
                          i < j
                   PROVE  /\ out'[i] # Response
                          /\ out'[j] # Response => out'[i] < out'[j]
        BY DEF SentInOrder
      <4>1. i \in 1 .. Len(out)
        BY <3>3
      <4>2. CASE j = Len(out) + 1
        BY <3>3, <4>1, <4>2
      <4>3. CASE j \in 1 .. Len(out)
        BY <3>3, <4>1, <4>3 DEF StreamInv, SentInOrder
      <4>4. QED
        BY <3>3, <4>2, <4>3
    <3>5. QueueInOrder' /\ ItemNext' /\ SentBefore'
      BY <3>1 DEF StreamInv, QueueInOrder, ItemNext, SentBefore, Events
    <3>6. QED
      BY <3>4, <3>5 DEF StreamInv
  <2>17. CASE WriteFails
    BY <2>17, QuietStep DEF WriteFails
  <2>18. CASE ReadProgress
    BY <2>18, QuietStep DEF ReadProgress
  <2>19. CASE ReadResponse
    BY <2>19, QuietStep DEF ReadResponse
  <2>20. CASE GiveUp
    BY <2>20, QuietStep DEF GiveUp
  <2>21. CASE UNCHANGED vars
    BY <2>21, QuietStep DEF vars
  <2>22. QED
    BY <2>1, <2>2, <2>3, <2>4, <2>5, <2>6, <2>7, <2>8, <2>9, <2>10, <2>11,
       <2>12, <2>13, <2>14, <2>15, <2>16, <2>17, <2>18, <2>19, <2>20, <2>21
       DEF Next, Handler, PollThread, Loop, Client
<1>3. QED
  BY <1>1, <1>2, Typing, PTL DEF Spec

\* The lines sent to the client are in the order of emission, each once, and
\* the response is the last.
THEOREM StreamInOrder == Spec => []SentInOrder
<1>1. StreamInv => SentInOrder
  BY DEF StreamInv
<1>2. QED
  BY <1>1, InOrder, PTL

-----------------------------------------------------------------------------
(* Where the events are: sent, in the poll's hands, or in the queue.        *)

InHand == Len(out) + IF item \in Events THEN 1 ELSE 0

\* The loop has found the end of the queue, by the sentinel or otherwise.
EndFound == item = Sentinel \/ loop = "finish"

\* Without an abandoned poll and with the drain within its limit, none is missing.
Kept ==
  (~late /\ loop # "broken") =>
    /\ strays = 0
    /\ loop = "drain" => handler = "done"
    /\ loop = "responded" => handler = "done" /\ Len(out) = emitted + 1
    /\ (loop # "responded" /\ handler \in {"queued", "running"}) =>
         ~EndFound /\ Len(queue) + InHand = emitted
    /\ (loop # "responded" /\ handler \in {"closed", "done"}) =>
         \/ EndFound /\ queue = <<>> /\ InHand = emitted
         \/ /\ ~EndFound /\ Len(queue) + InHand = emitted + 1
            /\ queue # <<>> /\ queue[Len(queue)] = Sentinel

\* The head of the queue is the sentinel exactly if it is the only item of a
\* queue that ends with it.
LEMMA HeadOfQueue ==
  ASSUME TypeOK, QueueInOrder, queue # <<>>
  PROVE  /\ handler \in {"queued", "running"} => queue[1] \in Events
         /\ queue[Len(queue)] = Sentinel =>
              IF Len(queue) = 1 THEN queue[1] = Sentinel
                ELSE queue[1] \in Events /\ queue[Len(queue)] = queue[(Len(queue) - 1) + 1]
<1>1. Len(queue) \in Nat \ {0} /\ queue[1] \in Events \cup {Sentinel}
  BY Pop
<1>2. 1 \in 1 .. Len(queue) /\ Len(queue) \in 1 .. Len(queue)
  BY <1>1
<1>3. handler \in {"queued", "running"} => queue[1] # Sentinel
  BY <1>2 DEF QueueInOrder
<1>4. Len(queue) # 1 => queue[1] # Sentinel
  BY <1>1, <1>2 DEF QueueInOrder
<1> QED
  BY <1>1, <1>3, <1>4

\* A step that takes the head of the queue, an event, which is then in hand.
LEMMA HeadTaken ==
  ASSUME TypeOK, QueueInOrder, Kept, ~late, loop \notin {"broken", "responded"},
         ~EndFound, ~EndFound', queue # <<>>, queue' = Tail(queue),
         Head(queue) \in Events, InHand' = InHand + 1, InHand \in Nat,
         UNCHANGED <<handler, emitted, strays, late, loop>>
  PROVE  Kept'
<1>1. /\ Len(queue) \in Nat \ {0} /\ Head(queue) = queue[1]
      /\ queue' \in Seq(Events \cup {Sentinel})
      /\ Len(queue') = Len(queue) - 1
      /\ \A i \in 1 .. Len(queue') : queue'[i] = queue[i + 1]
  BY Pop
<1>2. emitted \in Nat
  BY BoundsAssumption DEF TypeOK
<1>3. strays' = 0 /\ (loop' = "drain" => handler' = "done")
  BY DEF Kept
<1>4. handler \in {"queued", "running"} => Len(queue') + InHand' = emitted'
  BY <1>1, <1>2 DEF Kept
<1>5. ASSUME handler \in {"closed", "done"}
      PROVE  /\ Len(queue') + InHand' = emitted' + 1
             /\ queue' # <<>> /\ queue'[Len(queue')] = Sentinel
  <2>1. Len(queue) + InHand = emitted + 1 /\ queue[Len(queue)] = Sentinel
    BY <1>5 DEF Kept
  <2>2. Len(queue) # 1
    BY <2>1, <1>1, HeadOfQueue, MarkersAssumption DEF Events
  <2>3. Len(queue') \in 1 .. Len(queue') /\ Len(queue') # 0
    BY <1>1, <2>2
  <2>5. queue' # <<>>
    BY <2>3, EmptySeq
  <2>4. queue'[Len(queue')] = queue[Len(queue)]
    BY <1>1, <2>3
  <2> QED
    BY <1>1, <1>2, <2>1, <2>4, <2>5
<1> QED
  BY <1>3, <1>4, <1>5 DEF Kept

\* A step that leaves everything in its place.
LEMMA KeepsPlace ==
  ASSUME Kept,
         UNCHANGED <<queue, out, emitted, item, strays>>,
         late => late',
         loop = "broken" => loop' = "broken",
         loop' = "drain" => loop = "drain" \/ handler' = "done",
         loop' \notin {"broken"} => (loop = "finish" <=> loop' = "finish"),
         loop' \notin {"broken"} => (loop = "responded" <=> loop' = "responded"),
         handler \in {"queued", "running"} <=> handler' \in {"queued", "running"},
         handler \in {"closed", "done"} <=> handler' \in {"closed", "done"},
         handler = "done" => handler' = "done"
  PROVE  Kept'
<1>1. InHand' = InHand
  BY DEF InHand
<1> QED
  BY <1>1 DEF Kept, EndFound

LEMMA AllKept == Spec => []Kept
<1> USE BoundsAssumption, MarkersAssumption
<1>1. Init => Kept
  BY EmptySeq DEF Init, Kept, InHand, EndFound, Events
<1>2. TypeOK /\ StreamInv /\ Kept /\ [Next]_vars => Kept'
  <2> SUFFICES ASSUME TypeOK, StreamInv, Kept, [Next]_vars PROVE Kept'
    OBVIOUS
  <2> USE DEF HandlerGoes, LoopGoes, loopVars, sendVars
  <2>0. /\ Len(out) \in Nat /\ Len(queue) \in Nat /\ emitted \in Nat
        /\ InHand \in Nat /\ QueueInOrder
    BY LenProperties DEF TypeOK, InHand, StreamInv
  <2>1. CASE StartHandler
    BY <2>1, KeepsPlace DEF StartHandler
  <2>2. CASE Emit
    <3>1. Len(queue') = Len(queue) + 1 /\ emitted' = emitted + 1
      <4>1. emitted + 1 \in Events
        BY <2>0, <2>2 DEF Emit, TypeOK, Events
      <4> QED
        BY <2>2, <4>1, Push DEF Emit
    <3>2. InHand' = InHand /\ EndFound' = EndFound
      BY <2>2 DEF Emit, InHand, EndFound
    <3> QED
      BY <2>0, <2>2, <3>1, <3>2 DEF Emit, Kept
  <2>3. CASE Close
    <3>1. /\ Len(queue') = Len(queue) + 1 /\ queue' # <<>>
          /\ queue'[Len(queue')] = Sentinel
      BY <2>3, <2>0, Push, EmptySeq DEF Close
    <3>2. InHand' = InHand /\ EndFound' = EndFound
      BY <2>3 DEF Close, InHand, EndFound
    <3> QED
      BY <2>0, <2>3, <3>1, <3>2 DEF Close, Kept
  <2>4. CASE Return
    BY <2>4, KeepsPlace DEF Return
  <2>5. CASE StartPoll
    BY <2>5, KeepsPlace DEF StartPoll
  <2>6. CASE Get
    <3>1. /\ queue # <<>> /\ queue' = Tail(queue) /\ item' = Head(queue)
          /\ UNCHANGED <<handler, emitted, loop, out, strays, late>>
      BY <2>6 DEF Get
    <3>2. item = Nothing /\ loop = "await"
      BY <2>6 DEF Get, TypeOK
    <3>3. CASE late
      BY <3>1, <3>3 DEF Kept
    <3>4. CASE ~late /\ Head(queue) = Sentinel
      <4>1. ~EndFound /\ InHand = Len(out) /\ InHand' = Len(out) /\ EndFound'
        BY <3>1, <3>2, <3>4, <2>0 DEF EndFound, InHand, Events
      <4>2. handler \notin {"queued", "running"}
        BY <2>0, <3>1, <3>4, HeadOfQueue, Pop DEF Events
      <4>3. handler \in {"closed", "done"}
        BY <4>2 DEF TypeOK
      <4>4. Len(queue) + InHand = emitted + 1 /\ queue[Len(queue)] = Sentinel
        BY <3>2, <3>4, <4>1, <4>3 DEF Kept
      <4>5. Len(queue) = 1
        BY <2>0, <3>1, <3>4, <4>4, HeadOfQueue, Pop DEF Events
      <4>6. queue' = <<>> /\ InHand' = emitted'
        <5>1. Len(queue') = 0 /\ queue' \in Seq(Events \cup {Sentinel})
          BY <3>1, <4>5, Pop
        <5> QED
          BY <2>0, <3>1, <4>1, <4>4, <4>5, <5>1, EmptySeq
      <4>7. strays' = 0
        BY <3>1, <3>2, <3>4 DEF Kept
      <4> QED
        BY <3>1, <3>2, <4>1, <4>3, <4>6, <4>7 DEF Kept
    <3>5. CASE ~late /\ Head(queue) # Sentinel
      <4>1. Head(queue) \in Events
        BY <3>1, <3>5, Pop
      <4>2. ~EndFound /\ ~EndFound' /\ InHand' = InHand + 1
        BY <3>1, <3>2, <4>1, <2>0 DEF EndFound, InHand, Events
      <4> QED
        BY <2>0, <3>1, <3>2, <3>5, <4>1, <4>2, HeadTaken
    <3> QED
      BY <3>3, <3>4, <3>5
  <2>7. CASE GetExpires
    BY <2>7, KeepsPlace DEF GetExpires
  <2>8. CASE StrayEnds
    BY <2>8 DEF StrayEnds, Kept, TypeOK
  <2>9. CASE Poll
    BY <2>9, KeepsPlace DEF Poll
  <2>10. CASE Deliver
    <3>1. CASE item = Sentinel
      <4>1. InHand' = InHand /\ EndFound /\ EndFound'
        BY <2>10, <3>1 DEF Deliver, InHand, EndFound, Events
      <4> QED
        BY <2>10, <3>1, <4>1 DEF Deliver, Kept
    <3>2. CASE item # Sentinel
      <4>1. item \in Events /\ out' = Append(out, item)
        BY <2>10, <3>2 DEF Deliver, TypeOK
      <4>2. Len(out') = Len(out) + 1
        BY <4>1, SendLine
      <4>3. InHand' = InHand /\ ~EndFound /\ ~EndFound'
        BY <2>0, <2>10, <3>2, <4>1, <4>2 DEF Deliver, InHand, EndFound, Events
      <4> QED
        BY <2>10, <3>2, <4>3 DEF Deliver, Kept
    <3> QED
      BY <3>1, <3>2
  <2>11. CASE DeliverEmpty
    BY <2>11, KeepsPlace DEF DeliverEmpty
  <2>12. CASE WaitExpires
    <3>1. CASE poll = "pending"
      <4>1. item = Nothing
        BY <3>1 DEF TypeOK
      <4> QED
        BY <2>12, <3>1, <4>1, KeepsPlace DEF WaitExpires
    <3>2. CASE poll # "pending"
      BY <2>12, <3>2 DEF WaitExpires, Kept
    <3> QED
      BY <3>1, <3>2
  <2>13. CASE CheckHandler
    BY <2>13, KeepsPlace DEF CheckHandler
  <2>14. CASE Drain
    <3>1. /\ queue # <<>> /\ Head(queue) # Sentinel /\ loop = "drain"
          /\ out' = Append(out, Head(queue)) /\ queue' = Tail(queue)
          /\ UNCHANGED <<handler, emitted, loop, item, strays, late>>
          /\ item = Nothing
      BY <2>14 DEF Drain, TypeOK
    <3>2. Head(queue) \in Events
      BY <3>1, Pop
    <3>3. Len(out') = Len(out) + 1
      BY <3>1, <3>2, SendLine
    <3>4. ~EndFound /\ ~EndFound' /\ InHand' = InHand + 1
      BY <2>0, <3>1, <3>3 DEF EndFound, InHand, Events
    <3>5. CASE late
      BY <3>1, <3>5 DEF Kept
    <3> QED
      BY <2>0, <3>1, <3>2, <3>4, <3>5, HeadTaken
  <2>15. CASE DrainEnds
    <3>1. /\ loop = "drain" /\ loop' = "finish"
          /\ item = Nothing
          /\ UNCHANGED <<handler, emitted, item, strays, out>>
      BY <2>15 DEF DrainEnds, TypeOK
    <3>2. CASE late'
      BY <3>2 DEF Kept
    <3>3. CASE ~late'
      <4>1. ~late /\ ~EndFound /\ EndFound' /\ InHand' = InHand
        BY <2>15, <3>1, <3>3 DEF DrainEnds, EndFound, InHand
      <4>2. CASE queue = <<>>
        <5>1. UNCHANGED queue
          BY <2>15, <3>3, <4>2 DEF DrainEnds
        <5>2. handler = "done"
          BY <3>1, <4>1 DEF Kept
        <5> QED
          BY <2>0, <3>1, <4>1, <4>2, <5>1, <5>2 DEF Kept
      <4>3. CASE queue # <<>>
        <5>1. Head(queue) = Sentinel /\ queue' = Tail(queue)
          BY <2>15, <3>3, <4>3 DEF DrainEnds
        <5>2. handler = "done"
          BY <3>1, <4>1 DEF Kept
        <5>3. Len(queue) + InHand = emitted + 1 /\ queue[Len(queue)] = Sentinel
          BY <3>1, <4>1, <4>3, <5>2 DEF Kept
        <5>4. Len(queue) = 1
          BY <2>0, <4>3, <5>1, <5>3, HeadOfQueue, Pop DEF Events
        <5>5. Len(queue') = 0 /\ queue' \in Seq(Events \cup {Sentinel})
          BY <4>3, <5>1, <5>4, Pop
        <5>6. queue' = <<>> /\ InHand' = emitted'
          BY <2>0, <3>1, <4>1, <5>3, <5>4, <5>5, EmptySeq
        <5> QED
          BY <3>1, <4>1, <5>2, <5>6 DEF Kept
      <4> QED
        BY <4>2, <4>3
    <3> QED
      BY <3>2, <3>3
  <2>16. CASE Respond
    <3>1. Len(out') = Len(out) + 1
      BY <2>16, SendLine DEF Respond
    <3>2. item = Nothing /\ EndFound /\ InHand = Len(out)
      BY <2>0, <2>16 DEF Respond, TypeOK, EndFound, InHand, Events
    <3> QED
      BY <2>0, <2>16, <3>1, <3>2 DEF Respond, Kept
  <2>17. CASE WriteFails
    BY <2>17 DEF WriteFails, Kept
  <2>18. CASE ReadProgress
    BY <2>18, KeepsPlace DEF ReadProgress
  <2>19. CASE ReadResponse
    BY <2>19, KeepsPlace DEF ReadResponse
  <2>20. CASE GiveUp
    BY <2>20, KeepsPlace DEF GiveUp
  <2>21. CASE UNCHANGED vars
    BY <2>21, KeepsPlace DEF vars
  <2>22. QED
    BY <2>1, <2>2, <2>3, <2>4, <2>5, <2>6, <2>7, <2>8, <2>9, <2>10, <2>11,
       <2>12, <2>13, <2>14, <2>15, <2>16, <2>17, <2>18, <2>19, <2>20, <2>21
       DEF Next, Handler, PollThread, Loop, Client
<1>3. QED
  BY <1>1, <1>2, Typing, InOrder, PTL DEF Spec

-----------------------------------------------------------------------------
(* Which events they are, and what the client is shown of them.             *)

\* While none is missing, sent, in hand and queued events are numbered through.
Numbered ==
  (~late /\ loop # "broken") =>
    /\ \A k \in 1 .. Len(out) : out[k] \in Events => out[k] = k
    /\ item \in Events => item = Len(out) + 1
    /\ loop # "responded" =>
         \A i \in 1 .. Len(queue) : queue[i] # Sentinel => queue[i] = InHand + i

\* The client relays what was sent line by line, and has answered only when
\* the response was all that was left.
RelayInv ==
  /\ Len(shown) <= Len(out)
  /\ \A k \in 1 .. Len(shown) : shown[k] = out[k]
  /\ client = "answered" => loop = "responded" /\ Len(out) = Len(shown) + 1

\* A step that leaves the lines, the item and the queue alone.
LEMMA KeepsNumbers ==
  ASSUME Numbered, UNCHANGED <<queue, out>>,
         item' = item \/ (item \notin Events /\ item' \notin Events),
         late => late', loop = "broken" => loop' = "broken",
         loop = "responded" => loop' = "responded"
  PROVE  Numbered'
<1>1. InHand' = InHand
  BY DEF InHand, Events
<1>2. item' \in Events => item \in Events /\ item' = item
  BY DEF Events
<1> QED
  BY <1>1, <1>2 DEF Numbered, Events

\* A step that takes the head of the queue, an event, which is then in hand.
LEMMA HeadNumbered ==
  ASSUME TypeOK, Numbered, ~late, loop \notin {"broken", "responded"},
         queue # <<>>, queue' = Tail(queue), InHand \in Nat,
         InHand' = InHand + 1
  PROVE  /\ Head(queue) # Sentinel => Head(queue) = InHand + 1
         /\ \A i \in 1 .. Len(queue') :
              queue'[i] # Sentinel => queue'[i] = InHand' + i
<1>1. /\ Len(queue) \in Nat \ {0} /\ Head(queue) = queue[1]
      /\ Len(queue') = Len(queue) - 1
      /\ \A i \in 1 .. Len(queue') : queue'[i] = queue[i + 1]
  BY Pop
<1>2. 1 \in 1 .. Len(queue) /\ \A i \in 1 .. Len(queue') : i + 1 \in 1 .. Len(queue)
  BY <1>1
<1>3. \A i \in 1 .. Len(queue) : queue[i] # Sentinel => queue[i] = InHand + i
  BY DEF Numbered
<1>4. Head(queue) # Sentinel => Head(queue) = InHand + 1
  BY <1>1, <1>2, <1>3
<1>5. \A i \in 1 .. Len(queue') : queue'[i] # Sentinel => queue'[i] = InHand + (i + 1)
  BY <1>1, <1>2, <1>3
<1> QED
  BY <1>1, <1>4, <1>5

LEMMA AllNumbered == Spec => []Numbered
<1> USE BoundsAssumption, MarkersAssumption
<1>1. Init => Numbered
  BY EmptySeq DEF Init, Numbered, InHand, Events
<1>2. TypeOK /\ StreamInv /\ Kept /\ Kept' /\ Numbered /\ [Next]_vars => Numbered'
  <2> SUFFICES ASSUME TypeOK, StreamInv, Kept, Kept', Numbered, [Next]_vars
               PROVE  Numbered'
    OBVIOUS
  <2> USE DEF HandlerGoes, LoopGoes, loopVars, sendVars
  <2>0. /\ Len(out) \in Nat /\ Len(queue) \in Nat /\ emitted \in Nat
        /\ InHand \in Nat
    BY LenProperties DEF TypeOK, InHand
  <2>1. CASE StartHandler
    BY <2>1, KeepsNumbers DEF StartHandler
  <2>2. CASE Emit
    <3>1. emitted + 1 \in Events
      BY <2>0, <2>2 DEF Emit, TypeOK, Events
    <3>2. /\ Len(queue') = Len(queue) + 1
          /\ \A i \in 1 .. Len(queue) : queue'[i] = queue[i]
          /\ queue'[Len(queue) + 1] = emitted + 1
      BY <2>2, <3>1, Push DEF Emit
    <3>3. InHand' = InHand /\ UNCHANGED <<out, item, late, loop>>
      BY <2>2 DEF Emit, InHand
    <3>4. ~late /\ loop \notin {"broken", "responded"} => Len(queue) + InHand = emitted
      BY <2>2 DEF Emit, Kept
    <3>5. \A i \in 1 .. Len(queue') : i \in 1 .. Len(queue) \/ i = Len(queue) + 1
      BY <2>0, <3>2
    <3>6. ASSUME ~late, loop \notin {"broken", "responded"}
          PROVE  \A i \in 1 .. Len(queue') :
                   queue'[i] # Sentinel => queue'[i] = InHand + i
      BY <2>0, <3>2, <3>4, <3>5, <3>6 DEF Numbered
    <3> QED
      BY <3>3, <3>6 DEF Numbered
  <2>3. CASE Close
    <3>1. /\ Len(queue') = Len(queue) + 1
          /\ \A i \in 1 .. Len(queue) : queue'[i] = queue[i]
          /\ queue'[Len(queue) + 1] = Sentinel
      BY <2>3, Push DEF Close
    <3>2. InHand' = InHand /\ UNCHANGED <<out, item, late, loop>>
      BY <2>3 DEF Close, InHand
    <3>3. \A i \in 1 .. Len(queue') : i \in 1 .. Len(queue) \/ i = Len(queue) + 1
      BY <2>0, <3>1
    <3> QED
      BY <3>1, <3>2, <3>3 DEF Numbered
  <2>4. CASE Return
    BY <2>4, KeepsNumbers DEF Return
  <2>5. CASE StartPoll
    BY <2>5, KeepsNumbers DEF StartPoll
  <2>6. CASE Get
    <3>1. /\ queue # <<>> /\ queue' = Tail(queue) /\ item' = Head(queue)
          /\ UNCHANGED <<handler, loop, out, late>>
          /\ item = Nothing /\ loop = "await"
      BY <2>6 DEF Get, TypeOK
    <3>2. CASE late
      BY <3>1, <3>2 DEF Numbered
    <3>3. CASE ~late /\ Head(queue) = Sentinel
      <4>1. queue' = <<>> /\ item' \notin Events
        BY <3>1, <3>3 DEF Kept, EndFound, InHand, Events, TypeOK
      <4>2. Len(queue') = 0
        BY <4>1, EmptySeq
      <4>3. \A k \in 1 .. Len(out') : out'[k] \in Events => out'[k] = k
        BY <3>1, <3>3 DEF Numbered
      <4> QED
        BY <4>1, <4>2, <4>3 DEF Numbered
    <3>4. CASE ~late /\ Head(queue) # Sentinel
      <4>1. Head(queue) \in Events
        BY <3>1, <3>4, Pop
      <4>2. InHand = Len(out) /\ InHand' = InHand + 1
        BY <2>0, <3>1, <4>1 DEF InHand, Events
      <4>3. /\ Head(queue) = InHand + 1
            /\ \A i \in 1 .. Len(queue') :
                 queue'[i] # Sentinel => queue'[i] = InHand' + i
        BY <2>0, <3>1, <3>4, <4>2, HeadNumbered
      <4> QED
        BY <3>1, <4>2, <4>3 DEF Numbered
    <3> QED
      BY <3>2, <3>3, <3>4
  <2>7. CASE GetExpires
    BY <2>7, KeepsNumbers DEF GetExpires
  <2>8. CASE StrayEnds
    BY <2>8 DEF StrayEnds, Kept, Numbered, TypeOK
  <2>9. CASE Poll
    BY <2>9, KeepsNumbers DEF Poll
  <2>10. CASE Deliver
    <3>1. CASE item = Sentinel
      BY <2>10, <3>1, KeepsNumbers DEF Deliver, Events
    <3>2. CASE item # Sentinel
      <4>1. /\ item \in Events /\ out' = Append(out, item)
            /\ item' \notin Events
            /\ loop = "await" /\ UNCHANGED <<queue, late>>
        BY <2>10, <3>2 DEF Deliver, TypeOK, Events
      <4>2. /\ Len(out') = Len(out) + 1 /\ out'[Len(out) + 1] = item
            /\ \A k \in 1 .. Len(out) : out'[k] = out[k]
        BY <4>1, SendLine
      <4>3. InHand' = InHand
        BY <2>0, <4>1, <4>2 DEF InHand
      <4>4. \A k \in 1 .. Len(out') : k \in 1 .. Len(out) \/ k = Len(out) + 1
        BY <2>0, <4>2
      <4> QED
        BY <4>1, <4>2, <4>3, <4>4 DEF Numbered
    <3> QED
      BY <3>1, <3>2
  <2>11. CASE DeliverEmpty
    BY <2>11, KeepsNumbers DEF DeliverEmpty
  <2>12. CASE WaitExpires
    <3>1. CASE poll = "pending"
      <4>1. item = Nothing
        BY <3>1 DEF TypeOK
      <4> QED
        BY <2>12, <3>1, <4>1, KeepsNumbers DEF WaitExpires
    <3>2. CASE poll # "pending"
      BY <2>12, <3>2 DEF WaitExpires, Numbered
    <3> QED
      BY <3>1, <3>2
  <2>13. CASE CheckHandler
    BY <2>13, KeepsNumbers DEF CheckHandler
  <2>14. CASE Drain
    <3>1. /\ queue # <<>> /\ Head(queue) # Sentinel /\ loop = "drain"
          /\ out' = Append(out, Head(queue)) /\ queue' = Tail(queue)
          /\ UNCHANGED <<loop, item, late>> /\ item \notin Events
      BY <2>14 DEF Drain, TypeOK, Events
    <3>2. Head(queue) \in Events
      BY <3>1, Pop
    <3>3. /\ Len(out') = Len(out) + 1 /\ out'[Len(out) + 1] = Head(queue)
          /\ \A k \in 1 .. Len(out) : out'[k] = out[k]
      BY <3>1, <3>2, SendLine
    <3>4. InHand = Len(out) /\ InHand' = InHand + 1
      BY <2>0, <3>1, <3>3 DEF InHand
    <3>5. \A k \in 1 .. Len(out') : k \in 1 .. Len(out) \/ k = Len(out) + 1
      BY <2>0, <3>3
    <3>6. ~late => /\ Head(queue) = InHand + 1
                   /\ \A i \in 1 .. Len(queue') :
                        queue'[i] # Sentinel => queue'[i] = InHand' + i
      BY <2>0, <3>1, <3>4, HeadNumbered
    <3> QED
      BY <3>1, <3>3, <3>4, <3>5, <3>6 DEF Numbered
  <2>15. CASE DrainEnds
    <3>1. CASE UNCHANGED queue
      BY <2>15, <3>1, KeepsNumbers DEF DrainEnds
    <3>2. CASE queue' # queue
      <4>1. /\ loop = "drain" /\ loop' = "finish"
            /\ UNCHANGED <<handler, out, item, late>> /\ item \notin Events
        BY <2>15, <3>2 DEF DrainEnds, TypeOK, Events
      <4>2. ~late' => queue' = <<>>
        BY <4>1 DEF Kept, EndFound, TypeOK
      <4>3. ~late' => Len(queue') = 0
        BY <4>2, EmptySeq
      <4> QED
        BY <4>1, <4>3 DEF Numbered
    <3> QED
      BY <3>1, <3>2
  <2>16. CASE Respond
    <3>1. /\ Len(out') = Len(out) + 1 /\ out'[Len(out) + 1] = Response
          /\ \A k \in 1 .. Len(out) : out'[k] = out[k]
      BY <2>16, SendLine DEF Respond
    <3>2. /\ item' \notin Events /\ loop = "finish" /\ loop' = "responded"
          /\ UNCHANGED late
      BY <2>16 DEF Respond, TypeOK, Events
    <3>3. \A k \in 1 .. Len(out') : k \in 1 .. Len(out) \/ k = Len(out) + 1
      BY <2>0, <3>1
    <3> QED
      BY <3>1, <3>2, <3>3 DEF Numbered, Events
  <2>17. CASE WriteFails
    BY <2>17 DEF WriteFails, Numbered
  <2>18. CASE ReadProgress
    BY <2>18, KeepsNumbers DEF ReadProgress
  <2>19. CASE ReadResponse
    BY <2>19, KeepsNumbers DEF ReadResponse
  <2>20. CASE GiveUp
    BY <2>20, KeepsNumbers DEF GiveUp
  <2>21. CASE UNCHANGED vars
    BY <2>21, KeepsNumbers DEF vars
  <2>22. QED
    BY <2>1, <2>2, <2>3, <2>4, <2>5, <2>6, <2>7, <2>8, <2>9, <2>10, <2>11,
       <2>12, <2>13, <2>14, <2>15, <2>16, <2>17, <2>18, <2>19, <2>20, <2>21
       DEF Next, Handler, PollThread, Loop, Client
<1>3. QED
  BY <1>1, <1>2, Typing, InOrder, AllKept, PTL DEF Spec

-----------------------------------------------------------------------------
\* One line more on the client's side, and on the server's.
LEMMA RelayStep ==
  ASSUME TypeOK, StreamInv, RelayInv, [Next]_vars
  PROVE  RelayInv'
<1> USE BoundsAssumption, MarkersAssumption
<1> USE DEF HandlerGoes, LoopGoes, loopVars, sendVars
<1>0. Len(out) \in Nat /\ Len(shown) \in Nat
  BY LenProperties DEF TypeOK
<1>1. ASSUME UNCHANGED sendVars, loop = "responded" => loop' = "responded"
      PROVE  RelayInv'
  BY <1>1 DEF RelayInv
<1>2. ASSUME UNCHANGED <<client, shown>>, loop # "responded",
             NEW x \in Events \cup {Response}, out' = Append(out, x)
      PROVE  RelayInv'
  <2>1. Len(out') = Len(out) + 1 /\ \A k \in 1 .. Len(out) : out'[k] = out[k]
    BY <1>2, SendLine
  <2>2. \A k \in 1 .. Len(shown) : k \in 1 .. Len(out)
    BY <1>0 DEF RelayInv
  <2> QED
    BY <1>0, <1>2, <2>1, <2>2 DEF RelayInv
<1>3. CASE Handler
  BY <1>1, <1>3 DEF Handler, StartHandler, Emit, Close, Return
<1>4. CASE PollThread
  BY <1>1, <1>4 DEF PollThread, StartPoll, Get, GetExpires
<1>5. CASE StrayEnds
  BY <1>1, <1>5 DEF StrayEnds
<1>6. CASE Poll \/ DeliverEmpty \/ WaitExpires \/ CheckHandler \/ DrainEnds
           \/ WriteFails
  BY <1>1, <1>6 DEF Poll, DeliverEmpty, WaitExpires, CheckHandler, DrainEnds,
                    WriteFails
<1>7. CASE Deliver
  <2>1. CASE item = Sentinel
    BY <1>1, <1>7, <2>1 DEF Deliver
  <2>2. CASE item # Sentinel
    BY <1>2, <1>7, <2>2 DEF Deliver, TypeOK
  <2> QED
    BY <2>1, <2>2
<1>8. CASE Drain
  <2>1. Head(queue) \in Events
    BY <1>8, Pop DEF Drain
  <2> QED
    BY <1>2, <1>8, <2>1 DEF Drain
<1>9. CASE Respond
  BY <1>2, <1>9 DEF Respond
<1>10. CASE ReadProgress
  <2>1. /\ Len(shown) + 1 \in 1 .. Len(out)
        /\ out[Len(shown) + 1] \in Events
    BY <1>0, <1>10, ElementOfSeq DEF ReadProgress, TypeOK
  <2>2. /\ Len(shown') = Len(shown) + 1
        /\ \A k \in 1 .. Len(shown) : shown'[k] = shown[k]
        /\ shown'[Len(shown) + 1] = out[Len(shown) + 1]
    BY <1>10, <2>1, AppendProperties DEF ReadProgress, TypeOK
  <2> QED
    BY <1>0, <1>10, <2>1, <2>2 DEF ReadProgress, RelayInv
<1>11. CASE ReadResponse
  <2>1. /\ Len(shown) + 1 \in 1 .. Len(out) /\ out[Len(shown) + 1] = Response
        /\ UNCHANGED <<shown, out, loop>>
    BY <1>0, <1>11 DEF ReadResponse
  <2>2. loop = "responded"
    BY <2>1 DEF StreamInv, SentBefore, Events
  <2>3. Len(out) = Len(shown) + 1
    <3>1. ~(Len(shown) + 1 < Len(out))
      BY <1>0, <2>1 DEF StreamInv, SentInOrder
    <3> QED
      BY <1>0, <2>1, <3>1
  <2> QED
    BY <2>1, <2>2, <2>3 DEF RelayInv
<1>12. CASE GiveUp
  BY <1>12 DEF GiveUp, RelayInv
<1>13. CASE UNCHANGED vars
  BY <1>1, <1>13 DEF vars
<1> QED
  BY <1>3, <1>4, <1>5, <1>6, <1>7, <1>8, <1>9, <1>10, <1>11, <1>12, <1>13
     DEF Next, Loop, Client

\* What the renderer is shown is what the server has sent, from the start and
\* without a gap, and the response is returned after all of it.
THEOREM Relayed == Spec => []RelayInv
<1>1. Init => RelayInv
  BY EmptySeq DEF Init, RelayInv
<1>2. QED
  BY <1>1, RelayStep, Typing, InOrder, PTL DEF Spec

\* Events are only lost to an abandoned poll or to the drain's limit: otherwise
\* the renderer has been shown all of them, numbered through, when the client
\* returns.
THEOREM AllSent == Spec => []NothingLost
<1>1. TypeOK /\ Kept /\ Numbered /\ RelayInv => NothingLost
  <2> SUFFICES ASSUME TypeOK, Kept, Numbered, RelayInv,
                      client = "answered", ~late
               PROVE  shown = [i \in 1 .. emitted |-> i]
    BY DEF NothingLost
  <2>1. Len(out) \in Nat /\ Len(shown) \in Nat /\ emitted \in Nat
    BY LenProperties, BoundsAssumption DEF TypeOK
  <2>2. Len(shown) = emitted
    BY <2>1 DEF Kept, RelayInv
  <2>3. ASSUME NEW k \in 1 .. Len(shown) PROVE shown[k] = k
    <3>1. k \in 1 .. Len(out) /\ out[k] = shown[k] /\ shown[k] \in Events
      BY <2>1, ElementOfSeq DEF RelayInv, TypeOK
    <3> QED
      BY <3>1 DEF Numbered, RelayInv
  <2>4. shown \in [1 .. Len(shown) -> Events]
    BY LenProperties DEF TypeOK
  <2> QED
    BY <2>2, <2>3, <2>4
<1>2. QED
  BY <1>1, Typing, AllKept, AllNumbered, Relayed, PTL

=============================================================================
