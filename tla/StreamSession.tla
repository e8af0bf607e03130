---------------------------- MODULE StreamSession ----------------------------
(***************************************************************************)
(* Bidirectional streams, from end to end: the handlers of the front end   *)
(* (_do_ws_stream in http/handlers.py; StreamPredict and                   *)
(* BidirectionalStream in grpc/servicer.py) with submit_stream_open,       *)
(* _chunk and _close (core/model_manager.py), and in the inference worker  *)
(* BidirectionalStreamingLoop with one StreamSession per stream            *)
(* (core/loops.py).                                                        *)
(*                                                                         *)
(* The handler of a stream sends OPEN, chunks and CLOSE through the bounded *)
(* request queue of one worker.  The session's thread runs the model's     *)
(* generator over the chunks and puts its outputs into the transport; the  *)
(* front end's consumer appends them to the response queue of the stream   *)
(* and sets its event; the handler clears the event and empties the queue. *)
(* The three handlers differ in when they do what: a WebSocket client      *)
(* cannot close its input, StreamPredict closes it after one chunk.        *)
(*                                                                         *)
(* Every message is addressed anew.  One of a stream without a version goes *)
(* to the version that is active when it is sent, which may be another one *)
(* than at OPEN, or one without queues (an ensemble), or none.  Any of them *)
(* may be activated between two messages, so each may go anywhere; the     *)
(* streams here are those whose OPEN goes to this worker.                  *)
(***************************************************************************)
EXTENDS Naturals, FiniteSets, Sequences, SequencesExt

CONSTANTS
    Streams,
    MaxChunks,      \* bound, per stream: chunks its client sends
    MaxOutputs,     \* bound, per stream: outputs of its generator
    Ageing,         \* streams that may last as long as ttl_seconds
    Unversioned,    \* streams whose client names no version of the model
    QueueSize       \* max_queue_size of the worker's request queue

None == "none"      \* no stream, no thread

ASSUME StreamsAssumption == None \notin Streams

ASSUME BoundAssumption ==
    /\ MaxChunks \in [Streams -> Nat] /\ MaxOutputs \in [Streams -> Nat]
    /\ QueueSize \in Nat \ {0} /\ Ageing \subseteq Streams
    /\ Unversioned \subseteq Streams

VARIABLES
    pc,         \* per stream: its handler
    route,      \* streams in stream_routing
    sent,       \* per stream: number of chunks put on the queue
    queue,      \* request queue of the worker: <<type, stream, chunk number>>
    alive,      \* the worker runs
    sessions,   \* the worker's sessions
    closed,     \* sessions whose closed flag is set
    input,      \* per stream: input queue of its session
    thread,     \* per stream: thread of its session
    read,       \* per stream: number of chunks the generator has got
    produced,   \* per stream: number of outputs
    transport,  \* <<stream, response>>; a response is <<status, output number>>
    signalling, \* the stream whose event the consumer is about to set
    registered, \* streams that have an item in the response buffer
    inbox,      \* per stream: response_queue of its item, which its handler holds too
    event,      \* streams whose event is set
    received,   \* per stream: what its client has got
    lost,       \* history: streams whose CLOSE has not come to the worker
    astray      \* history: streams a chunk of which has not come to the worker

handlerVars == <<pc, route, sent, lost, astray>>
workerVars == <<alive, sessions, closed, input>>
threadVars == <<thread, read, produced>>
consumerVars == <<transport, signalling>>
bufferVars == <<registered, inbox, event, received>>
vars == <<handlerVars, queue, workerVars, threadVars, consumerVars, bufferVars>>

EOF == 0            \* None in the input queue

Finals == {"FINISH", "ERROR"}
Responses == ({"OK"} \X Nat) \cup (Finals \X {0})
Messages == {"OPEN", "CHUNK", "CLOSE"} \X Streams \X Nat

Room == Len(queue) < QueueSize

Init ==
    /\ pc = [s \in Streams |-> "new"]
    /\ route = {} /\ sent = [s \in Streams |-> 0]
    /\ queue = <<>>
    /\ alive = TRUE /\ sessions = {} /\ closed = {}
    /\ input = [s \in Streams |-> <<>>]
    /\ thread = [s \in Streams |-> None]
    /\ read = [s \in Streams |-> 0] /\ produced = [s \in Streams |-> 0]
    /\ transport = <<>> /\ signalling = None
    /\ registered = {} /\ inbox = [s \in Streams |-> <<>>]
    /\ event = {} /\ received = [s \in Streams |-> <<>>]
    /\ lost = {} /\ astray = {}

-----------------------------------------------------------------------------
(* The handler of a stream                                                 *)

\* The item is registered before OPEN is sent; if the queue is full, or no version
\* with queues is active, the route and the item are taken back.
Open(s) ==
    /\ pc[s] = "new"
    /\ \/ /\ Room
          /\ queue' = Append(queue, <<"OPEN", s, 0>>)
          /\ route' = route \cup {s} /\ registered' = registered \cup {s}
          /\ pc' = [pc EXCEPT ![s] = "waiting"]
       \/ /\ ~Room \/ s \in Unversioned
          /\ pc' = [pc EXCEPT ![s] = "refused"]
          /\ UNCHANGED <<queue, route, registered>>
    /\ UNCHANGED <<sent, lost, astray, workerVars, threadVars, consumerVars, inbox, event, received>>

\* submit_stream_close: nothing if the stream has no route.  The route goes also
\* when CLOSE does not come to the worker: the queue stays full for a second, or
\* the version active now is another one, whose worker does not know the stream,
\* or has no queues.
SendClose(s) ==
    /\ route' = route \ {s}
    /\ \/ s \notin route /\ UNCHANGED <<queue, lost>>
       \/ /\ s \in route /\ Room
          /\ queue' = Append(queue, <<"CLOSE", s, 0>>) /\ UNCHANGED lost
       \/ /\ s \in route /\ (~Room \/ s \in Unversioned)
          /\ lost' = lost \cup {s} /\ UNCHANGED queue
    /\ UNCHANGED astray

\* Variant with a bug: the handler does not close the stream when it ends.
Leave_NoClose(s) ==
    /\ pc' = [pc EXCEPT ![s] = "ended"]
    /\ registered' = registered \ {s} /\ inbox' = [inbox EXCEPT ![s] = <<>>]
    /\ event' = event \ {s}
    /\ route' = route \ {s} /\ UNCHANGED <<queue, lost, astray>>

\* The finally block of a handler, which gives up its item.
Leave(s) ==
    /\ pc' = [pc EXCEPT ![s] = "ended"]
    /\ registered' = registered \ {s} /\ inbox' = [inbox EXCEPT ![s] = <<>>]
    /\ event' = event \ {s}
    /\ SendClose(s)

Active(s) == pc[s] \in {"waiting", "draining"}

\* Variant with a bug: put without looking at the size of the queue.
Chunk_NoLimit(s) ==
    /\ Active(s) /\ s \in route /\ sent[s] < MaxChunks[s]
    /\ sent' = [sent EXCEPT ![s] = @ + 1]
    /\ queue' = Append(queue, <<"CHUNK", s, sent'[s]>>)
    /\ UNCHANGED <<pc, route, lost, astray, workerVars, threadVars, consumerVars, bufferVars>>

\* A chunk from the client.  It is accepted too if it goes to the worker of another
\* version, which drops it.  A full queue, no queue, or a chunk after the end of
\* the input ends the stream.
Chunk(s) ==
    /\ Active(s) /\ sent[s] < MaxChunks[s]
    /\ \/ /\ s \in route /\ Room
          /\ sent' = [sent EXCEPT ![s] = @ + 1]
          /\ queue' = Append(queue, <<"CHUNK", s, sent'[s]>>)
          /\ UNCHANGED <<pc, route, lost, astray, bufferVars>>
       \/ /\ s \in route \cap Unversioned
          /\ sent' = [sent EXCEPT ![s] = @ + 1]
          /\ astray' = astray \cup {s}
          /\ UNCHANGED <<pc, route, lost, queue, bufferVars>>
       \/ /\ ~ (s \in route /\ Room) \/ s \in Unversioned
          /\ Leave(s)
          /\ UNCHANGED <<sent, received>>
    /\ UNCHANGED <<workerVars, threadVars, consumerVars>>

\* gRPC: after its chunk (StreamPredict) or with a final one.
CloseInput(s) ==
    /\ Active(s) /\ s \in route
    /\ SendClose(s)
    /\ UNCHANGED <<pc, sent, workerVars, threadVars, consumerVars, bufferVars>>

\* The client disconnects, or the handler has waited long enough.
GiveUp(s) ==
    /\ Active(s)
    /\ Leave(s)
    /\ UNCHANGED <<sent, received, workerVars, threadVars, consumerVars>>

\* event.wait() returns, event.clear().
Wake(s) ==
    /\ pc[s] = "waiting" /\ s \in event
    /\ event' = event \ {s}
    /\ pc' = [pc EXCEPT ![s] = "draining"]
    /\ UNCHANGED <<route, sent, lost, astray, queue, workerVars, threadVars, consumerVars,
                   registered, inbox, received>>

\* Variant with a bug: pop() instead of popleft().
Receive_Newest(s) ==
    /\ pc[s] = "draining" /\ inbox[s] # <<>>
    /\ LET output == Last(inbox[s]) IN
       /\ received' = [received EXCEPT ![s] = Append(@, output)]
       /\ IF output[1] \in Finals
          THEN Leave(s)
          ELSE /\ inbox' = [inbox EXCEPT ![s] = Front(@)]
               /\ UNCHANGED <<pc, route, lost, astray, queue, registered, event>>
    /\ UNCHANGED <<sent, workerVars, threadVars, consumerVars>>

\* popleft() and what it yields; a final status ends the handler.
Receive(s) ==
    /\ pc[s] = "draining" /\ inbox[s] # <<>>
    /\ LET output == Head(inbox[s]) IN
       /\ received' = [received EXCEPT ![s] = Append(@, output)]
       /\ IF output[1] \in Finals
          THEN Leave(s)
          ELSE /\ inbox' = [inbox EXCEPT ![s] = Tail(@)]
               /\ UNCHANGED <<pc, route, lost, astray, queue, registered, event>>
    /\ UNCHANGED <<sent, workerVars, threadVars, consumerVars>>

\* Variant with a bug: the handler sleeps although the queue is not empty.
Drained_Early(s) ==
    /\ pc[s] = "draining"
    /\ pc' = [pc EXCEPT ![s] = "waiting"]
    /\ UNCHANGED <<route, sent, lost, astray, queue, workerVars, threadVars, consumerVars, bufferVars>>

Drained(s) ==
    /\ pc[s] = "draining" /\ inbox[s] = <<>>
    /\ pc' = [pc EXCEPT ![s] = "waiting"]
    /\ UNCHANGED <<route, sent, lost, astray, queue, workerVars, threadVars, consumerVars, bufferVars>>

-----------------------------------------------------------------------------
(* The consumer of the front end                                           *)

\* A message of a stream that has no item any more is dropped.
Consume ==
    /\ transport # <<>> /\ signalling = None
    /\ transport' = Tail(transport)
    /\ LET s == Head(transport)[1] IN
       IF s \in registered
       THEN /\ inbox' = [inbox EXCEPT ![s] = Append(@, Head(transport)[2])]
            /\ signalling' = s
       ELSE UNCHANGED <<inbox, signalling>>
    /\ UNCHANGED <<handlerVars, queue, workerVars, threadVars, registered, event, received>>

\* event.set(), on an item that its handler may have given up in between.
Signal ==
    /\ signalling # None
    /\ event' = event \cup {s \in {signalling} : Active(s)}
    /\ signalling' = None
    /\ UNCHANGED <<handlerVars, queue, workerVars, threadVars, transport, registered, inbox, received>>

\* TTLResponseBuffer: the item is older than ttl_seconds, or the oldest of too
\* many; what comes from now on finds no item.  The age of an item is that of its
\* stream.  In an HTTP worker process this does not happen.
Expire(s) ==
    /\ s \in registered \cap Ageing
    /\ registered' = registered \ {s}
    /\ UNCHANGED <<handlerVars, queue, workerVars, threadVars, consumerVars, inbox, event, received>>

-----------------------------------------------------------------------------
(* The worker's loop                                                       *)

\* OPEN starts a session unless there is one.
OnOpen(s) ==
    /\ Head(queue)[1] = "OPEN" /\ Head(queue)[2] = s
    /\ IF s \in sessions
       THEN UNCHANGED <<sessions, thread>>
       ELSE sessions' = sessions \cup {s} /\ thread' = [thread EXCEPT ![s] = "running"]
    /\ UNCHANGED <<closed, input>>

OnChunk(s) ==
    /\ Head(queue)[1] = "CHUNK" /\ Head(queue)[2] = s
    /\ input' = IF s \in sessions THEN [input EXCEPT ![s] = Append(@, Head(queue)[3])] ELSE input
    /\ UNCHANGED <<sessions, closed, thread>>

\* Variants with a bug: the unread chunks go, as in cancel(); there is no EOF.
OnClose_Drains(s) ==
    /\ Head(queue)[1] = "CLOSE" /\ Head(queue)[2] = s
    /\ sessions' = sessions \ {s}
    /\ closed' = IF s \in sessions THEN closed \cup {s} ELSE closed
    /\ input' = IF s \in sessions THEN [input EXCEPT ![s] = <<EOF>>] ELSE input
    /\ UNCHANGED thread

OnClose_NoEOF(s) ==
    /\ Head(queue)[1] = "CLOSE" /\ Head(queue)[2] = s
    /\ sessions' = sessions \ {s}
    /\ closed' = IF s \in sessions THEN closed \cup {s} ELSE closed
    /\ UNCHANGED <<thread, input>>

OnClose(s) ==
    /\ Head(queue)[1] = "CLOSE" /\ Head(queue)[2] = s
    /\ sessions' = sessions \ {s}
    /\ closed' = IF s \in sessions THEN closed \cup {s} ELSE closed
    /\ input' = IF s \in sessions THEN [input EXCEPT ![s] = Append(@, EOF)] ELSE input
    /\ UNCHANGED thread

HandleMessage ==
    /\ alive /\ queue # <<>>
    /\ \E s \in Streams : OnOpen(s) \/ OnChunk(s) \/ OnClose(s)
    /\ queue' = Tail(queue)
    /\ UNCHANGED <<handlerVars, alive, read, produced, consumerVars, bufferVars>>

\* The process dies with its sessions and threads, and with the responses that it
\* has not written yet.
WorkerDies ==
    /\ alive /\ alive' = FALSE
    /\ sessions' = {} /\ closed' = {}
    /\ input' = [s \in Streams |-> <<>>] /\ read' = [s \in Streams |-> 0]
    /\ thread' = [s \in Streams |-> IF thread[s] = None THEN None ELSE "ended"]
    /\ \E n \in 0 .. Len(transport) : transport' = SubSeq(transport, 1, n)
    /\ UNCHANGED <<handlerVars, queue, produced, signalling, bufferVars>>

-----------------------------------------------------------------------------
(* The thread of a session, StreamSession._run, and the generator it runs  *)

\* The generator asks for the next chunk.
Read(s) ==
    /\ thread[s] = "running" /\ input[s] # <<>>
    /\ input' = [input EXCEPT ![s] = Tail(@)]
    /\ IF Head(input[s]) = EOF
       THEN thread' = [thread EXCEPT ![s] = "drained"] /\ UNCHANGED read
       ELSE read' = [read EXCEPT ![s] = Head(input[s])] /\ UNCHANGED thread
    /\ UNCHANGED <<handlerVars, queue, alive, sessions, closed, produced, consumerVars, bufferVars>>

Output(s) ==
    /\ thread[s] \in {"running", "drained"} /\ produced[s] < MaxOutputs[s]
    /\ produced' = [produced EXCEPT ![s] = @ + 1]
    /\ transport' = Append(transport, <<s, <<"OK", produced'[s]>>>>)
    /\ UNCHANGED <<handlerVars, queue, workerVars, thread, read, signalling, bufferVars>>

\* The generator is finished; FINISH only if the session has not been closed.
Return(s) ==
    /\ thread[s] \in {"running", "drained"}
    /\ thread' = [thread EXCEPT ![s] = "ended"]
    /\ transport' = IF s \in closed THEN transport ELSE Append(transport, <<s, <<"FINISH", 0>>>>)
    /\ UNCHANGED <<handlerVars, queue, workerVars, read, produced, signalling, bufferVars>>

Raise(s) ==
    /\ thread[s] \in {"running", "drained"}
    /\ thread' = [thread EXCEPT ![s] = "ended"]
    /\ transport' = Append(transport, <<s, <<"ERROR", 0>>>>)
    /\ UNCHANGED <<handlerVars, queue, workerVars, read, produced, signalling, bufferVars>>

-----------------------------------------------------------------------------
Handler(s) ==
    \/ Open(s) \/ Chunk(s) \/ CloseInput(s) \/ GiveUp(s)
    \/ Wake(s) \/ Receive(s) \/ Drained(s)

Thread(s) == Read(s) \/ Output(s) \/ Return(s) \/ Raise(s)

Next ==
    \/ \E s \in Streams : Handler(s) \/ Thread(s) \/ Expire(s)
    \/ Consume \/ Signal \/ HandleMessage \/ WorkerDies

\* The worker's loop and the threads of its sessions run; generators read the
\* input that is there and come to their end after its end.  Handlers, clients
\* and the consumer need do nothing.
FairSpec ==
    /\ Init /\ [][Next]_vars
    /\ WF_vars(HandleMessage)
    /\ \A s \in Streams : WF_vars(Read(s)) /\ WF_vars(thread[s] = "drained" /\ Thread(s))

-----------------------------------------------------------------------------
(* Properties                                                              *)

TypeOK ==
    /\ pc \in [Streams -> {"new", "refused", "waiting", "draining", "ended"}]
    /\ route \subseteq Streams /\ lost \subseteq Streams /\ astray \subseteq Unversioned
    /\ sent \in [Streams -> Nat] /\ read \in [Streams -> Nat] /\ produced \in [Streams -> Nat]
    /\ queue \in Seq(Messages) /\ Len(queue) <= QueueSize
    /\ alive \in BOOLEAN /\ sessions \subseteq Streams /\ closed \subseteq Streams
    /\ input \in [Streams -> Seq(Nat)]
    /\ thread \in [Streams -> {None, "running", "drained", "ended"}]
    /\ transport \in Seq(Streams \X Responses)
    /\ signalling \in Streams \cup {None}
    /\ registered \subseteq Streams /\ event \subseteq Streams
    /\ inbox \in [Streams -> Seq(Responses)]
    /\ received \in [Streams -> Seq(Responses)]

\* Responses without a final one.
Outputs(responses) ==
    IF responses # <<>> /\ Last(responses)[1] \in Finals THEN Front(responses) ELSE responses

\* Numbers of the outputs of a stream that the consumer has yet to see.
Coming(s) ==
    {n \in 1 .. produced[s] : \E i \in DOMAIN transport : transport[i] = <<s, <<"OK", n>>>>}

\* The consumer will see them in order, and nothing after a final response.
ComingInOrder(s) ==
    \A i, j \in DOMAIN transport :
        i < j /\ transport[i][1] = s /\ transport[j][1] = s =>
            /\ transport[i][2][1] = "OK"
            /\ transport[j][2][1] = "OK" => transport[i][2][2] < transport[j][2][2]

\* Both directions of a stream are complete and in order.  A client gets, and has
\* before it, the outputs of its generator one by one from the first, and all of
\* them if they come to an end; as long as the worker lives and the item is in the
\* buffer, no output is lost anywhere on its way, comes twice or overtakes another.
\* A generator that is told that its input has ended has got every chunk that was
\* accepted from the client, unless one of them went to another version
\* (_response_consumer, the handlers, submit_stream_chunk, StreamSession).
StreamsComplete ==
    \A s \in Streams :
        LET passed == Outputs(received[s] \o inbox[s])
            made == [i \in 1 .. produced[s] |-> <<"OK", i>>]
        IN
        /\ IsPrefix(passed, made)
        /\ received[s] # <<>> /\ Last(received[s])[1] \in Finals => passed = made
        /\ alive /\ s \in registered =>
              Coming(s) = Len(passed) + 1 .. produced[s] /\ ComingInOrder(s)
        /\ thread[s] = "drained" /\ s \notin astray => read[s] = sent[s]

\* A session outlives its stream only as long as a CLOSE is on its way, or if that
\* CLOSE has not come to the worker: the queue was full for it, or another version,
\* or none, was active when it was sent for a stream without a version
\* (submit_stream_close).
NoSessionLeft ==
    \A s \in sessions :
        s \in route \cup lost \/ \E i \in DOMAIN queue : queue[i] = <<"CLOSE", s, 0>>

\* The handler does not sleep on outputs that are there.
NoLostWakeup ==
    \A s \in Streams :
        pc[s] = "waiting" /\ inbox[s] # <<>> => s \in event \/ signalling = s

\* The thread of an ended stream ends, unless its CLOSE has not come to the worker.
SessionsEnd ==
    \A s \in Streams :
        pc[s] = "ended" /\ s \notin lost ~> thread[s] = "ended" \/ ~ alive
=============================================================================
