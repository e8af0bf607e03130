------------------------- MODULE StreamSession_proofs -------------------------
(***************************************************************************)
(* Proofs about StreamSession, for any number of streams, chunks, outputs  *)
(* and any size of the worker's queue.                                     *)
(***************************************************************************)
EXTENDS StreamSession, DataLemmas, SequenceTheorems, TLAPS

Spec == Init /\ [][Next]_vars

-----------------------------------------------------------------------------
(* Type correctness                                                        *)

LEMMA AppendTyped ==
    ASSUME NEW S, NEW q \in Seq(S), NEW e \in S
    PROVE  Append(q, e) \in Seq(S) /\ Len(Append(q, e)) = Len(q) + 1
BY AppendProperties

\* A queue that is not empty gives up its head.
LEMMA TailTyped ==
    ASSUME NEW S, NEW q \in Seq(S), q # <<>>
    PROVE  Head(q) \in S /\ Tail(q) \in Seq(S) /\ Len(Tail(q)) = Len(q) - 1
BY HeadTailProperties

\* A message fits if there is room for it.
LEMMA PutTyped ==
    ASSUME TypeOK, Room, NEW e \in Messages
    PROVE  Append(queue, e) \in Seq(Messages) /\ Len(Append(queue, e)) <= QueueSize
<1>1. queue \in Seq(Messages) /\ Len(queue) < QueueSize /\ Len(queue) \in Nat
  BY DEF TypeOK, Room
<1>2. Append(queue, e) \in Seq(Messages) /\ Len(Append(queue, e)) = Len(queue) + 1
  BY <1>1, AppendTyped
<1> QED BY <1>1, <1>2, BoundAssumption

LEMMA LeaveTyped ==
    ASSUME TypeOK, NEW s \in Streams, Leave(s)
    PROVE  /\ pc' \in [Streams -> {"new", "refused", "waiting", "draining", "ended"}]
           /\ route' \subseteq Streams /\ lost' \subseteq Streams /\ astray' \subseteq Unversioned
           /\ queue' \in Seq(Messages) /\ Len(queue') <= QueueSize
           /\ registered' \subseteq Streams /\ event' \subseteq Streams
           /\ inbox' \in [Streams -> Seq(Responses)]
<1>1. <<"CLOSE", s, 0>> \in Messages
  BY DEF Messages
<1>2. queue' \in Seq(Messages) /\ Len(queue') <= QueueSize
  BY <1>1, PutTyped DEF Leave, SendClose, TypeOK
<1>3. inbox' \in [Streams -> Seq(Responses)]
  BY DEF Leave, TypeOK
<1> QED BY <1>2, <1>3 DEF Leave, SendClose, TypeOK

LEMMA TypeInit == Init => TypeOK
BY BoundAssumption DEF Init, TypeOK, None

LEMMA TypeNext == TypeOK /\ [Next]_vars => TypeOK'
<1> SUFFICES ASSUME TypeOK, [Next]_vars PROVE TypeOK'
  OBVIOUS
<1> USE BoundAssumption
<1>1. ASSUME NEW s \in Streams, Open(s) PROVE TypeOK'
  <2>1. <<"OPEN", s, 0>> \in Messages
    BY DEF Messages
  <2>2. queue' \in Seq(Messages) /\ Len(queue') <= QueueSize
    <3>1. CASE Room /\ queue' = Append(queue, <<"OPEN", s, 0>>)
      BY <2>1, <3>1, PutTyped
    <3>2. CASE queue' = queue
      BY <3>2 DEF TypeOK
    <3> QED BY <1>1, <3>1, <3>2 DEF Open
  <2> QED BY <1>1, <2>2 DEF Open, TypeOK, workerVars, threadVars, consumerVars
<1>2. ASSUME NEW s \in Streams, Chunk(s) PROVE TypeOK'
  <2>1. CASE Leave(s) /\ UNCHANGED <<sent, received>>
    BY <1>2, <2>1, LeaveTyped DEF Chunk, TypeOK, workerVars, threadVars, consumerVars
  <2>2. CASE /\ s \in route /\ Room
             /\ sent' = [sent EXCEPT ![s] = @ + 1]
             /\ queue' = Append(queue, <<"CHUNK", s, sent'[s]>>)
             /\ UNCHANGED <<pc, route, lost, astray, bufferVars>>
    <3>1. sent' \in [Streams -> Nat] /\ sent'[s] \in Nat
      BY <2>2 DEF TypeOK
    <3>2. <<"CHUNK", s, sent'[s]>> \in Messages
      BY <3>1 DEF Messages
    <3>3. queue' \in Seq(Messages) /\ Len(queue') <= QueueSize
      BY <2>2, <3>2, PutTyped DEF TypeOK
    <3> QED BY <1>2, <2>2, <3>1, <3>3
             DEF Chunk, TypeOK, workerVars, threadVars, consumerVars, bufferVars
  <2>3. CASE /\ s \in route \cap Unversioned
             /\ sent' = [sent EXCEPT ![s] = @ + 1]
             /\ astray' = astray \cup {s}
             /\ UNCHANGED <<pc, route, lost, queue, bufferVars>>
    <3>1. sent' \in [Streams -> Nat]
      BY <2>3 DEF TypeOK
    <3> QED BY <1>2, <2>3, <3>1
             DEF Chunk, TypeOK, workerVars, threadVars, consumerVars, bufferVars
  <2> QED BY <1>2, <2>1, <2>2, <2>3 DEF Chunk
<1>3. ASSUME NEW s \in Streams, CloseInput(s) PROVE TypeOK'
  <2>1. <<"CLOSE", s, 0>> \in Messages
    BY DEF Messages
  <2>2. queue' \in Seq(Messages) /\ Len(queue') <= QueueSize
    BY <1>3, <2>1, PutTyped DEF CloseInput, SendClose, TypeOK
  <2> QED BY <1>3, <2>2
           DEF CloseInput, SendClose, TypeOK, workerVars, threadVars, consumerVars, bufferVars
<1>4. ASSUME NEW s \in Streams, GiveUp(s) PROVE TypeOK'
  BY <1>4, LeaveTyped DEF GiveUp, TypeOK, workerVars, threadVars, consumerVars
<1>5. ASSUME NEW s \in Streams, Wake(s) PROVE TypeOK'
  BY <1>5 DEF Wake, TypeOK, workerVars, threadVars, consumerVars
<1>6. ASSUME NEW s \in Streams, Receive(s) PROVE TypeOK'
  <2>1. inbox[s] \in Seq(Responses) /\ inbox[s] # <<>>
    BY <1>6 DEF Receive, TypeOK
  <2>2. Head(inbox[s]) \in Responses /\ Tail(inbox[s]) \in Seq(Responses)
    BY <2>1, TailTyped
  <2>3. received' \in [Streams -> Seq(Responses)]
    BY <1>6, <2>2 DEF Receive, TypeOK
  <2>4. CASE Leave(s)
    BY <1>6, <2>3, <2>4, LeaveTyped DEF Receive, TypeOK, workerVars, threadVars, consumerVars
  <2>5. CASE /\ inbox' = [inbox EXCEPT ![s] = Tail(@)]
             /\ UNCHANGED <<pc, route, lost, astray, queue, registered, event>>
    BY <1>6, <2>2, <2>3, <2>5 DEF Receive, TypeOK, workerVars, threadVars, consumerVars
  <2> QED BY <1>6, <2>4, <2>5 DEF Receive, TypeOK
<1>7. ASSUME NEW s \in Streams, Drained(s) PROVE TypeOK'
  BY <1>7 DEF Drained, TypeOK, workerVars, threadVars, consumerVars, bufferVars
<1>8. ASSUME NEW s \in Streams, Expire(s) PROVE TypeOK'
  BY <1>8 DEF Expire, TypeOK, handlerVars, workerVars, threadVars, consumerVars
<1>9. ASSUME Consume PROVE TypeOK'
  <2> DEFINE m == Head(transport)
  <2>1. m \in Streams \X Responses /\ transport' \in Seq(Streams \X Responses)
    BY <1>9, TailTyped DEF Consume, TypeOK
  <2>2. inbox' \in [Streams -> Seq(Responses)] /\ signalling' \in Streams \cup {None}
    <3>1. inbox \in [Streams -> Seq(Responses)] /\ signalling \in Streams \cup {None}
      BY DEF TypeOK
    <3>2. CASE m[1] \in registered
      <4>1. m[1] \in Streams /\ m[2] \in Responses
        BY <2>1
      <4>2. Append(inbox[m[1]], m[2]) \in Seq(Responses)
        BY <3>1, <4>1, AppendTyped
      <4>3. /\ inbox' = [inbox EXCEPT ![m[1]] = Append(@, m[2])]
            /\ signalling' = m[1]
        BY <1>9, <3>2 DEF Consume
      <4> QED BY <3>1, <4>1, <4>2, <4>3
    <3>3. CASE m[1] \notin registered
      BY <1>9, <3>1, <3>3 DEF Consume
    <3> QED BY <3>2, <3>3
  <2> QED BY <1>9, <2>1, <2>2 DEF Consume, TypeOK, handlerVars, workerVars, threadVars
<1>10. ASSUME Signal PROVE TypeOK'
  BY <1>10 DEF Signal, TypeOK, handlerVars, workerVars, threadVars
<1>11. ASSUME HandleMessage PROVE TypeOK'
  <2>1. /\ Head(queue) \in Messages /\ queue' \in Seq(Messages) /\ Len(queue') <= QueueSize
    BY <1>11, TailTyped DEF HandleMessage, TypeOK
  <2>2. Head(queue)[3] \in Nat
    BY <2>1 DEF Messages
  <2>3. PICK s \in Streams : OnOpen(s) \/ OnChunk(s) \/ OnClose(s)
    BY <1>11 DEF HandleMessage
  <2>4. input' \in [Streams -> Seq(Nat)]
    <3>1. input \in [Streams -> Seq(Nat)] /\ EOF \in Nat
      BY DEF EOF, TypeOK
    <3>2. Append(input[s], EOF) \in Seq(Nat) /\ Append(input[s], Head(queue)[3]) \in Seq(Nat)
      BY <2>2, <3>1, AppendTyped
    <3> QED BY <2>3, <3>1, <3>2 DEF OnOpen, OnChunk, OnClose
  <2>5. /\ sessions' \subseteq Streams /\ closed' \subseteq Streams
        /\ thread' \in [Streams -> {None, "running", "drained", "ended"}]
    <3>1. /\ sessions \subseteq Streams /\ closed \subseteq Streams
          /\ thread \in [Streams -> {None, "running", "drained", "ended"}]
      BY DEF TypeOK
    <3> QED BY <2>3, <3>1 DEF OnOpen, OnChunk, OnClose
  <2> QED BY <1>11, <2>1, <2>4, <2>5
           DEF HandleMessage, TypeOK, handlerVars, consumerVars, bufferVars
<1>12. ASSUME WorkerDies PROVE TypeOK'
  <2>1. transport' \in Seq(Streams \X Responses)
    <3>1. PICK n \in 0 .. Len(transport) : transport' = SubSeq(transport, 1, n)
      BY <1>12 DEF WorkerDies
    <3> QED BY <3>1, SubSeqProperties DEF TypeOK
  <2>2. thread' \in [Streams -> {None, "running", "drained", "ended"}]
    BY <1>12 DEF WorkerDies
  <2>3. input' \in [Streams -> Seq(Nat)] /\ read' \in [Streams -> Nat]
    <3>1. <<>> \in Seq(Nat)
      OBVIOUS
    <3> QED BY <1>12, <3>1 DEF WorkerDies
  <2>4. alive' \in BOOLEAN /\ sessions' \subseteq Streams /\ closed' \subseteq Streams
    BY <1>12 DEF WorkerDies
  <2> QED BY <1>12, <2>1, <2>2, <2>3, <2>4 DEF WorkerDies, TypeOK, handlerVars, bufferVars
<1>13. ASSUME NEW s \in Streams, Read(s) PROVE TypeOK'
  <2>1. Head(input[s]) \in Nat /\ Tail(input[s]) \in Seq(Nat)
    BY <1>13, TailTyped DEF Read, TypeOK
  <2> QED BY <1>13, <2>1 DEF Read, TypeOK, handlerVars, consumerVars, bufferVars
<1>14. ASSUME NEW s \in Streams, Output(s) PROVE TypeOK'
  <2>1. produced' \in [Streams -> Nat] /\ produced'[s] \in Nat
    <3>1. produced \in [Streams -> Nat] /\ produced' = [produced EXCEPT ![s] = produced[s] + 1]
      BY <1>14 DEF Output, TypeOK
    <3> QED BY <3>1
  <2>2. <<s, <<"OK", produced'[s]>>>> \in Streams \X Responses
    BY <2>1 DEF Responses
  <2>3. transport' \in Seq(Streams \X Responses)
    BY <1>14, <2>2, AppendTyped DEF Output, TypeOK
  <2> QED BY <1>14, <2>1, <2>3 DEF Output, TypeOK, handlerVars, workerVars, bufferVars
<1>15. ASSUME NEW s \in Streams, Return(s) PROVE TypeOK'
  <2>1. <<s, <<"FINISH", 0>>>> \in Streams \X Responses
    BY DEF Responses, Finals
  <2>2. transport' \in Seq(Streams \X Responses)
    BY <1>15, <2>1, AppendTyped DEF Return, TypeOK
  <2> QED BY <1>15, <2>2 DEF Return, TypeOK, handlerVars, workerVars, bufferVars
<1>16. ASSUME NEW s \in Streams, Raise(s) PROVE TypeOK'
  <2>1. <<s, <<"ERROR", 0>>>> \in Streams \X Responses
    BY DEF Responses, Finals
  <2>2. transport' \in Seq(Streams \X Responses)
    BY <1>16, <2>1, AppendTyped DEF Raise, TypeOK
  <2> QED BY <1>16, <2>2 DEF Raise, TypeOK, handlerVars, workerVars, bufferVars
<1>17. CASE UNCHANGED vars
  BY <1>17 DEF TypeOK, vars, handlerVars, workerVars, threadVars, consumerVars, bufferVars
<1> QED BY <1>1, <1>2, <1>3, <1>4, <1>5, <1>6, <1>7, <1>8, <1>9, <1>10, <1>11, <1>12, <1>13,
           <1>14, <1>15, <1>16, <1>17 DEF Next, Handler, Thread

\* Every state of the specification is well typed: the queue of the worker never
\* holds more than QueueSize messages, whoever puts them (submit_stream_open,
\* _chunk and _close).
THEOREM TypeCorrect == Spec => []TypeOK
BY TypeInit, TypeNext, PTL DEF Spec

-----------------------------------------------------------------------------
(* No session is left                                                      *)

\* Stream s still has its route, its CLOSE has gone elsewhere or nowhere, or it is in
\* the queue behind position i.
WillClose(s, i) ==
    s \in route \cup lost \/ \E j \in DOMAIN queue : j > i /\ queue[j] = <<"CLOSE", s, 0>>

\* NoSessionLeft is not inductive: it says nothing of the OPEN that is about to make
\* a session.  Behind such an OPEN there must be a CLOSE, in this order.
EveryOpenCloses ==
    /\ \A s \in sessions : WillClose(s, 0)
    /\ \A i \in DOMAIN queue : queue[i][1] = "OPEN" => WillClose(queue[i][2], i)

LEMMA ClosesInit == Init => EveryOpenCloses
BY DEF Init, EveryOpenCloses

\* A step outside the worker puts at most one message at the end of the queue, and
\* takes a route only with a CLOSE or a mark in lost.
LEMMA ClosesSend ==
    ASSUME TypeOK, EveryOpenCloses, sessions' = sessions,
           \/ queue' = queue
           \/ \E e \in Messages : /\ queue' = Append(queue, e)
                                  /\ e[1] = "OPEN" => e[2] \in route' \cup lost',
           \A s \in route \cup lost :
               s \in route' \cup lost' \/ queue' = Append(queue, <<"CLOSE", s, 0>>)
    PROVE  EveryOpenCloses'
<1>1. queue \in Seq(Messages)
  BY DEF TypeOK
<1>2. /\ DOMAIN queue = 1 .. Len(queue) /\ Len(queue) \in Nat
      /\ DOMAIN queue \subseteq DOMAIN queue'
      /\ \A i \in DOMAIN queue : queue'[i] = queue[i]
      /\ \A i \in DOMAIN queue' : i \in DOMAIN queue \/ i = Len(queue) + 1
  BY <1>1, AppendProperties
<1>3. ASSUME NEW s, NEW i \in 0 .. Len(queue), WillClose(s, i)
      PROVE  WillClose(s, i)'
  <2>1. CASE s \in route \cup lost
    <3>1. CASE queue' = Append(queue, <<"CLOSE", s, 0>>)
      <4>1. /\ Len(queue) + 1 \in DOMAIN queue'
            /\ queue'[Len(queue) + 1] = <<"CLOSE", s, 0>>
        <5>1. <<"CLOSE", s, 0>> \in Messages
          BY <2>1 DEF TypeOK, Messages
        <5> QED BY <1>1, <3>1, <5>1, AppendProperties
      <4> QED BY <1>2, <4>1 DEF WillClose
    <3> QED BY <2>1, <3>1 DEF WillClose
  <2>2. CASE \E j \in DOMAIN queue : j > i /\ queue[j] = <<"CLOSE", s, 0>>
    BY <1>2, <2>2 DEF WillClose
  <2> QED BY <1>3, <2>1, <2>2 DEF WillClose
<1>4. ASSUME NEW s \in sessions' PROVE WillClose(s, 0)'
  <2>1. WillClose(s, 0) /\ 0 \in 0 .. Len(queue)
    BY <1>2, <1>4 DEF EveryOpenCloses
  <2> QED BY <1>3, <2>1
<1>5. ASSUME NEW i \in DOMAIN queue', queue'[i][1] = "OPEN"
      PROVE  \/ queue'[i][2] \in route' \cup lost'
             \/ \E j \in DOMAIN queue' : j > i /\ queue'[j] = <<"CLOSE", queue'[i][2], 0>>
  <2>1. CASE i \in DOMAIN queue
    <3>1. PICK s : s = queue[i][2]
      OBVIOUS
    <3>2. WillClose(s, i) /\ queue'[i][2] = s /\ i \in 0 .. Len(queue)
      BY <1>2, <1>5, <2>1, <3>1 DEF EveryOpenCloses
    <3>3. WillClose(s, i)'
      BY <1>3, <3>2
    <3> QED BY <3>2, <3>3 DEF WillClose
  <2>2. CASE i \notin DOMAIN queue
    <3>1. PICK e \in Messages : /\ queue' = Append(queue, e)
                                /\ e[1] = "OPEN" => e[2] \in route' \cup lost'
      BY <1>5, <2>2
    <3>2. i = Len(queue) + 1 /\ queue'[i] = e
      <4>1. i = Len(queue) + 1
        BY <1>2, <2>2
      <4>2. Append(queue, e)[Len(queue) + 1] = e
        BY <1>1, <3>1, AppendProperties
      <4> QED BY <3>1, <4>1, <4>2
    <3> QED BY <1>5, <3>1, <3>2
  <2> QED BY <2>1, <2>2
<1> QED BY <1>4, <1>5 DEF EveryOpenCloses, WillClose

\* submit_stream_close, for a handler that leaves or that ends its input.
LEMMA ClosesSendClose ==
    ASSUME TypeOK, EveryOpenCloses, NEW s \in Streams, SendClose(s), sessions' = sessions
    PROVE  EveryOpenCloses'
<1>1. <<"CLOSE", s, 0>> \in Messages /\ <<"CLOSE", s, 0>>[1] # "OPEN"
  BY DEF Messages
<1>2. \/ queue' = queue
      \/ \E e \in Messages : /\ queue' = Append(queue, e)
                             /\ e[1] = "OPEN" => e[2] \in route' \cup lost'
  BY <1>1 DEF SendClose
<1>3. \A r \in route \cup lost :
          r \in route' \cup lost' \/ queue' = Append(queue, <<"CLOSE", r, 0>>)
  BY DEF SendClose
<1> QED BY <1>2, <1>3, ClosesSend

\* The worker takes the head of the queue: every position moves forward by one.
LEMMA ClosesHandle == TypeOK /\ EveryOpenCloses /\ HandleMessage => EveryOpenCloses'
<1> SUFFICES ASSUME TypeOK, EveryOpenCloses, HandleMessage PROVE EveryOpenCloses'
  OBVIOUS
<1>1. /\ queue \in Seq(Messages) /\ queue # <<>> /\ queue' = Tail(queue)
      /\ route' = route /\ lost' = lost
  BY DEF TypeOK, HandleMessage, handlerVars
<1>2. /\ DOMAIN queue = 1 .. Len(queue) /\ Len(queue) \in Nat /\ 1 \in DOMAIN queue
      /\ Head(queue) = queue[1]
      /\ DOMAIN queue' = 1 .. Len(queue) - 1
      /\ \A i \in DOMAIN queue' : queue'[i] = queue[i + 1] /\ i + 1 \in DOMAIN queue
  BY <1>1, HeadTailProperties, EmptySeq
<1>3. PICK m \in Streams : OnOpen(m) \/ OnChunk(m) \/ OnClose(m)
  BY DEF HandleMessage
\* What is promised behind position i is promised behind i - 1 afterwards.
<1>4. ASSUME NEW s, NEW i \in DOMAIN queue, WillClose(s, i)
      PROVE  WillClose(s, i - 1)'
  <2>1. CASE s \in route \cup lost
    BY <1>1, <2>1 DEF WillClose
  <2>2. CASE \E j \in DOMAIN queue : j > i /\ queue[j] = <<"CLOSE", s, 0>>
    <3>1. PICK j \in DOMAIN queue : j > i /\ queue[j] = <<"CLOSE", s, 0>>
      BY <2>2
    <3>2. j - 1 \in DOMAIN queue' /\ j - 1 > i - 1 /\ queue'[j - 1] = <<"CLOSE", s, 0>>
      BY <1>2, <3>1
    <3> QED BY <3>2 DEF WillClose
  <2> QED BY <1>4, <2>1, <2>2 DEF WillClose
<1>5. ASSUME NEW s \in sessions' PROVE WillClose(s, 0)'
  <2>1. CASE s \in sessions /\ queue[1] # <<"CLOSE", s, 0>>
    <3>1. WillClose(s, 0)
      BY <2>1 DEF EveryOpenCloses
    <3>2. WillClose(s, 1)
      BY <1>2, <2>1, <3>1 DEF WillClose
    <3> QED BY <1>2, <1>4, <3>2
  <2>2. CASE s \in sessions /\ queue[1] = <<"CLOSE", s, 0>>
    <3>1. s \notin sessions'
      BY <1>2, <1>3, <2>2 DEF OnOpen, OnChunk, OnClose
    <3> QED BY <1>5, <3>1
  <2>3. CASE s \notin sessions
    <3>1. queue[1][1] = "OPEN" /\ queue[1][2] = s
      BY <1>2, <1>3, <1>5, <2>3 DEF OnOpen, OnChunk, OnClose
    <3>2. WillClose(s, 1)
      BY <1>2, <3>1 DEF EveryOpenCloses
    <3> QED BY <1>2, <1>4, <3>2
  <2> QED BY <2>1, <2>2, <2>3
<1>6. ASSUME NEW i \in DOMAIN queue', queue'[i][1] = "OPEN"
      PROVE  \/ queue'[i][2] \in route' \cup lost'
             \/ \E j \in DOMAIN queue' : j > i /\ queue'[j] = <<"CLOSE", queue'[i][2], 0>>
  <2>1. PICK s : s = queue[i + 1][2]
    OBVIOUS
  <2>2. WillClose(s, i + 1) /\ i + 1 \in DOMAIN queue /\ queue'[i][2] = s /\ (i + 1) - 1 = i
    BY <1>2, <1>6, <2>1 DEF EveryOpenCloses
  <2>3. WillClose(s, (i + 1) - 1)'
    BY <1>4, <2>2
  <2> QED BY <2>2, <2>3 DEF WillClose
<1> QED BY <1>5, <1>6 DEF EveryOpenCloses, WillClose

LEMMA ClosesNext == TypeOK /\ EveryOpenCloses /\ [Next]_vars => EveryOpenCloses'
<1> SUFFICES ASSUME TypeOK, EveryOpenCloses, [Next]_vars PROVE EveryOpenCloses'
  OBVIOUS
<1>1. ASSUME UNCHANGED <<queue, route, lost, sessions>> PROVE EveryOpenCloses'
  BY <1>1, ClosesSend
<1>2. ASSUME NEW s \in Streams, Open(s) PROVE EveryOpenCloses'
  <2>1. CASE UNCHANGED <<queue, route, registered>>
    BY <1>1, <1>2, <2>1 DEF Open, workerVars
  <2>2. CASE queue' = Append(queue, <<"OPEN", s, 0>>) /\ route' = route \cup {s}
    <3>1. /\ queue' = Append(queue, <<"OPEN", s, 0>>) /\ <<"OPEN", s, 0>> \in Messages
          /\ route' = route \cup {s} /\ lost' = lost /\ sessions' = sessions
      BY <1>2, <2>2 DEF Open, workerVars, Messages
    <3> QED BY <3>1, ClosesSend
  <2> QED BY <1>2, <2>1, <2>2 DEF Open
<1>3. ASSUME NEW s \in Streams, Chunk(s) PROVE EveryOpenCloses'
  <2>1. CASE Leave(s)
    BY <1>3, <2>1, ClosesSendClose DEF Chunk, Leave, workerVars
  <2>2. CASE /\ sent' = [sent EXCEPT ![s] = @ + 1]
             /\ queue' = Append(queue, <<"CHUNK", s, sent'[s]>>)
             /\ UNCHANGED <<pc, route, lost, astray, bufferVars>>
    <3>1. <<"CHUNK", s, sent'[s]>> \in Messages
      BY <2>2 DEF TypeOK, Messages
    <3>2. sessions' = sessions
      BY <1>3 DEF Chunk, workerVars
    <3> QED BY <2>2, <3>1, <3>2, ClosesSend
  <2>3. CASE UNCHANGED <<pc, route, lost, queue, bufferVars>>
    BY <1>1, <1>3, <2>3 DEF Chunk, workerVars
  <2> QED BY <1>3, <2>1, <2>2, <2>3 DEF Chunk
<1>4. ASSUME NEW s \in Streams, CloseInput(s) PROVE EveryOpenCloses'
  BY <1>4, ClosesSendClose DEF CloseInput, workerVars
<1>5. ASSUME NEW s \in Streams, GiveUp(s) PROVE EveryOpenCloses'
  BY <1>5, ClosesSendClose DEF GiveUp, Leave, workerVars
<1>6. ASSUME NEW s \in Streams, Receive(s) PROVE EveryOpenCloses'
  <2>1. CASE Leave(s)
    BY <1>6, <2>1, ClosesSendClose DEF Receive, Leave, workerVars
  <2>2. CASE UNCHANGED <<pc, route, lost, astray, queue, registered, event>>
    BY <1>1, <1>6, <2>2 DEF Receive, workerVars
  <2> QED BY <1>6, <2>1, <2>2 DEF Receive
<1>7. ASSUME NEW s \in Streams, Wake(s) \/ Drained(s) \/ Expire(s) PROVE EveryOpenCloses'
  BY <1>1, <1>7 DEF Wake, Drained, Expire, handlerVars, workerVars
<1>8. ASSUME Consume \/ Signal PROVE EveryOpenCloses'
  BY <1>1, <1>8 DEF Consume, Signal, handlerVars, workerVars
<1>9. ASSUME WorkerDies PROVE EveryOpenCloses'
  BY <1>9 DEF WorkerDies, EveryOpenCloses, WillClose, handlerVars
<1>10. ASSUME NEW s \in Streams, Thread(s) PROVE EveryOpenCloses'
  BY <1>1, <1>10 DEF Thread, Read, Output, Return, Raise, handlerVars, workerVars
<1>11. CASE UNCHANGED vars
  BY <1>1, <1>11 DEF vars, handlerVars, workerVars
<1> QED BY <1>2, <1>3, <1>4, <1>5, <1>6, <1>7, <1>8, <1>9, <1>10, <1>11, ClosesHandle
        DEF Next, Handler

\* A session lives on in the worker without a stream only while a CLOSE is on its
\* way to it, or if that CLOSE has not come to the worker: the queue was full for it,
\* or another version was active than at OPEN.  In between, whatever becomes of the
\* chunks and of the worker, every OPEN in the queue has its CLOSE behind it
\* (submit_stream_close, BidirectionalStreamingLoop, the finally blocks of the
\* handlers).
THEOREM SessionsAreClosed == Spec => []NoSessionLeft
<1>1. EveryOpenCloses => NoSessionLeft
  BY DEF EveryOpenCloses, WillClose, NoSessionLeft
<1> QED BY <1>1, TypeInit, TypeNext, ClosesInit, ClosesNext, PTL DEF Spec

-----------------------------------------------------------------------------
(* No wake-up is lost                                                      *)

\* Only an active stream has an item, and nothing is in the queue of a stream that
\* has not been opened.
ItemsActive ==
    \A s \in Streams : /\ s \in registered => Active(s)
                       /\ pc[s] = "new" => inbox[s] = <<>>

WakeupInv == ItemsActive /\ NoLostWakeup

LEMMA WakeupInit == Init => WakeupInv
BY DEF Init, WakeupInv, ItemsActive, NoLostWakeup

LEMMA WakeupLeave ==
    ASSUME TypeOK, WakeupInv, NEW s \in Streams, Leave(s), signalling' = signalling
    PROVE  WakeupInv'
<1>1. /\ pc' = [pc EXCEPT ![s] = "ended"] /\ registered' = registered \ {s}
      /\ inbox' = [inbox EXCEPT ![s] = <<>>] /\ event' = event \ {s}
  BY DEF Leave
<1>2. \A r \in Streams : /\ r # s => pc'[r] = pc[r] /\ inbox'[r] = inbox[r]
                         /\ r = s => pc'[r] = "ended" /\ r \notin registered'
  BY <1>1 DEF TypeOK
<1> QED BY <1>1, <1>2 DEF WakeupInv, ItemsActive, NoLostWakeup, Active

LEMMA WakeupNext == TypeOK /\ WakeupInv /\ [Next]_vars => WakeupInv'
<1> SUFFICES ASSUME TypeOK, WakeupInv, [Next]_vars PROVE WakeupInv'
  OBVIOUS
<1>1. ASSUME UNCHANGED <<pc, registered, inbox, event, signalling>> PROVE WakeupInv'
  BY <1>1 DEF WakeupInv, ItemsActive, NoLostWakeup, Active
<1>2. ASSUME NEW s \in Streams, Open(s) PROVE WakeupInv'
  <2>1. /\ pc[s] = "new" /\ UNCHANGED <<inbox, event, signalling>>
        /\ \/ pc' = [pc EXCEPT ![s] = "waiting"] /\ registered' = registered \cup {s}
           \/ pc' = [pc EXCEPT ![s] = "refused"] /\ registered' = registered
    BY <1>2 DEF Open, consumerVars
  <2> QED BY <2>1 DEF TypeOK, WakeupInv, ItemsActive, NoLostWakeup, Active
<1>3. ASSUME NEW s \in Streams, Leave(s), signalling' = signalling PROVE WakeupInv'
  BY <1>3, WakeupLeave
<1>4. ASSUME NEW s \in Streams, Chunk(s) \/ CloseInput(s) \/ GiveUp(s) PROVE WakeupInv'
  BY <1>1, <1>3, <1>4 DEF Chunk, CloseInput, GiveUp, bufferVars, consumerVars
<1>5. ASSUME NEW s \in Streams, Wake(s) PROVE WakeupInv'
  <2>1. /\ pc[s] = "waiting" /\ pc' = [pc EXCEPT ![s] = "draining"] /\ event' = event \ {s}
        /\ UNCHANGED <<registered, inbox, signalling>>
    BY <1>5 DEF Wake, consumerVars
  <2> QED BY <2>1 DEF TypeOK, WakeupInv, ItemsActive, NoLostWakeup, Active
<1>6. ASSUME NEW s \in Streams, Receive(s) PROVE WakeupInv'
  <2>1. CASE Leave(s)
    BY <1>3, <1>6, <2>1 DEF Receive, consumerVars
  <2>2. CASE /\ inbox' = [inbox EXCEPT ![s] = Tail(@)]
             /\ UNCHANGED <<pc, route, lost, astray, queue, registered, event>>
    <3>1. pc[s] = "draining" /\ signalling' = signalling
      BY <1>6 DEF Receive, consumerVars
    <3> QED BY <2>2, <3>1 DEF TypeOK, WakeupInv, ItemsActive, NoLostWakeup, Active
  <2> QED BY <1>6, <2>1, <2>2 DEF Receive
<1>7. ASSUME NEW s \in Streams, Drained(s) PROVE WakeupInv'
  <2>1. /\ pc[s] = "draining" /\ inbox[s] = <<>> /\ pc' = [pc EXCEPT ![s] = "waiting"]
        /\ UNCHANGED <<registered, inbox, event, signalling>>
    BY <1>7 DEF Drained, consumerVars, bufferVars
  <2> QED BY <2>1 DEF TypeOK, WakeupInv, ItemsActive, NoLostWakeup, Active
<1>8. ASSUME NEW s \in Streams, Expire(s) PROVE WakeupInv'
  <2>1. registered' = registered \ {s} /\ UNCHANGED <<pc, inbox, event, signalling>>
    BY <1>8 DEF Expire, handlerVars, consumerVars
  <2> QED BY <2>1 DEF WakeupInv, ItemsActive, NoLostWakeup, Active
\* The item is there when the output is put, and its event is set for it next.
<1>9. ASSUME Consume PROVE WakeupInv'
  <2> DEFINE m == Head(transport)
  <2>1. m[1] \in Streams /\ signalling = None
    <3>1. m \in Streams \X Responses
      BY <1>9, TailTyped DEF Consume, TypeOK
    <3> QED BY <1>9, <3>1 DEF Consume
  <2>2. /\ UNCHANGED <<pc, registered, event>>
        /\ \/ /\ m[1] \in registered /\ signalling' = m[1]
              /\ inbox' = [inbox EXCEPT ![m[1]] = Append(@, m[2])]
           \/ UNCHANGED <<inbox, signalling>>
    BY <1>9 DEF Consume, handlerVars
  <2>3. CASE /\ m[1] \in registered /\ signalling' = m[1]
             /\ inbox' = [inbox EXCEPT ![m[1]] = Append(@, m[2])]
    <3>1. \A r \in Streams : r # m[1] => inbox'[r] = inbox[r]
      BY <2>3 DEF TypeOK
    <3>2. pc[m[1]] # "new"
      BY <2>1, <2>3 DEF WakeupInv, ItemsActive, Active
    <3>3. \A r \in Streams : r # m[1] /\ pc[r] = "waiting" /\ inbox[r] # <<>>
                               => r \in event
      BY <2>1, StreamsAssumption DEF WakeupInv, NoLostWakeup
    <3> QED BY <2>1, <2>2, <2>3, <3>1, <3>2, <3>3 DEF WakeupInv, ItemsActive, NoLostWakeup, Active
  <2>4. CASE UNCHANGED <<inbox, signalling>>
    BY <1>1, <2>2, <2>4
  <2> QED BY <2>2, <2>3, <2>4
<1>10. ASSUME Signal PROVE WakeupInv'
  <2>1. /\ event' = event \cup {s \in {signalling} : Active(s)}
        /\ UNCHANGED <<pc, registered, inbox>>
    BY <1>10 DEF Signal, handlerVars
  <2> QED BY <2>1 DEF WakeupInv, ItemsActive, NoLostWakeup, Active
<1>11. ASSUME HandleMessage \/ WorkerDies \/ \E s \in Streams : Thread(s) PROVE WakeupInv'
  BY <1>1, <1>11 DEF HandleMessage, WorkerDies, Thread, Read, Output, Return, Raise,
                     handlerVars, consumerVars, bufferVars
<1>12. CASE UNCHANGED vars
  BY <1>1, <1>12 DEF vars, handlerVars, consumerVars, bufferVars
<1> QED BY <1>2, <1>4, <1>5, <1>6, <1>7, <1>8, <1>9, <1>10, <1>11, <1>12 DEF Next, Handler

\* A handler never sleeps on an output that is in its queue: the event is set or the
\* consumer is about to set it (_response_consumer, _do_ws_stream).
THEOREM NoWakeupLost == Spec => []NoLostWakeup
<1>1. WakeupInv => NoLostWakeup
  BY DEF WakeupInv
<1> QED BY <1>1, TypeInit, TypeNext, WakeupInit, WakeupNext, PTL DEF Spec

-----------------------------------------------------------------------------
(* Both directions of a stream, StreamsComplete.  The invariant follows a   *)
(* stream from end to end.  Intake: the queue and the input queue of the    *)
(* session hold together the chunks that were sent and not read, in order.  *)
(* Outgoing: the transport, the response queue and the client hold the      *)
(* outputs, in order.                                                       *)

(* The input of a stream                                                    *)

\* Positions of the messages of a stream in a queue.
Mail(q, s) == {i \in DOMAIN q : q[i][2] = s}

\* The stream is opened, gets chunks by increasing number and is closed.
Ordered(q, s) ==
    \A i, j \in Mail(q, s) :
        i < j => /\ q[i][1] # "CLOSE" /\ q[j][1] # "OPEN"
                 /\ q[i][1] = "CHUNK" /\ q[j][1] = "CHUNK" => q[i][3] < q[j][3]

\* The chunks in the queue are those after the m-th, without a gap,
Follows(q, s, m) ==
    \A i \in Mail(q, s) : q[i][1] = "CHUNK" =>
        /\ q[i][3] > m
        /\ q[i][3] = m + 1 \/ \E j \in Mail(q, s) : j < i /\ q[j] = <<"CHUNK", s, q[i][3] - 1>>

\* up to the n-th.
Reaches(q, s, m, n) == n = m \/ \E i \in Mail(q, s) : q[i] = <<"CHUNK", s, n>>

\* Nothing has been sent of a stream that is not open.
Begun(s) ==
    pc[s] \in {"new", "refused"} =>
        /\ Mail(queue, s) = {} /\ sent[s] = 0 /\ thread[s] = None
        /\ s \notin route

\* A session is there, or its OPEN at position i or before.
Opens(s, i) ==
    s \in sessions \/ \E j \in Mail(queue, s) : j < i /\ queue[j][1] = "OPEN"

\* What may be in the queue: CLOSE comes when the route is gone, OPEN before the
\* session's thread, all other messages after OPEN.
Posted(s) ==
    /\ \A i \in Mail(queue, s) :
          /\ queue[i][1] = "CHUNK" => queue[i][3] \in 1 .. sent[s]
          /\ queue[i][1] = "CLOSE" => s \notin route
          /\ queue[i][1] = "OPEN" => thread[s] = None
          /\ alive /\ queue[i][1] # "OPEN" => Opens(s, i)
    /\ alive /\ s \in route => \E i \in Nat : Opens(s, i)

\* A session is closed at most once, and nothing of it is left after the worker.
Held(s) ==
    /\ s \in sessions => s \notin closed
    /\ thread[s] = None => s \notin sessions \cup closed
    /\ s \in closed => s \notin route /\ Mail(queue, s) = {}
    /\ ~alive => thread[s] \in {None, "ended"} /\ s \notin sessions \cup closed

\* Where all chunks come to this worker: until its session is closed they go on from
\* the one read last through its input queue and the worker's; after that the input
\* queue has the rest and EOF.
Fed(s) ==
    /\ alive /\ s \notin closed =>
          /\ thread[s] # "drained"
          /\ \A i \in DOMAIN input[s] : input[s][i] = read[s] + i
          /\ Follows(queue, s, read[s] + Len(input[s]))
          /\ Reaches(queue, s, read[s] + Len(input[s]), sent[s])
    /\ s \in closed =>
          /\ thread[s] = "drained" => input[s] = <<>> /\ read[s] = sent[s]
          /\ thread[s] = "running" =>
                /\ read[s] + Len(input[s]) = sent[s] + 1
                /\ \A i \in DOMAIN input[s] :
                      input[s][i] = IF i = Len(input[s]) THEN EOF ELSE read[s] + i

IntakeOf(s) ==
    /\ Begun(s) /\ Ordered(queue, s) /\ Posted(s) /\ Held(s)
    /\ s \notin astray => Fed(s)

Intake == \A s \in Streams : IntakeOf(s)

-----------------------------------------------------------------------------
(* The outputs of a stream                                                 *)

\* Positions of the messages of a stream in the transport.
Mine(q, s) == {i \in DOMAIN q : q[i][1] = s}

\* Number of a response, of c outputs: its own, or the next for a final one,
Number(c, r) == IF r[1] = "OK" THEN r[2] ELSE c + 1

\* which there is only of a thread that has ended.  It may be the n-th of its stream.
Fits(c, t, r, n) ==
    /\ Number(c, r) = n /\ n \in 1 .. c + 1
    /\ n = c + 1 => r[1] \in Finals /\ t = "ended"

Numbered(q, s, c, t) == \A i \in Mine(q, s) : Fits(c, t, q[i][2], Number(c, q[i][2]))

Rising(q, s, c) ==
    \A i, j \in Mine(q, s) : i < j => Number(c, q[i][2]) < Number(c, q[j][2])

\* They go on after the k-th, without a gap,
Gapless(q, s, c, k) ==
    \A i \in Mine(q, s) :
        /\ Number(c, q[i][2]) > k
        /\ \/ Number(c, q[i][2]) = k + 1
           \/ \E j \in Mine(q, s) : j < i /\ Number(c, q[j][2]) = Number(c, q[i][2]) - 1

\* up to the last output.
Whole(q, s, c, k) == k >= c \/ \E i \in Mine(q, s) : Number(c, q[i][2]) = c

\* What has come out of the transport.
Passed(s) == Len(received[s]) + Len(inbox[s])

\* What has come out are the first ones of the stream, one by one.
Gone(s) ==
    /\ \A i \in DOMAIN received[s] : Fits(produced[s], thread[s], received[s][i], i)
    /\ \A i \in DOMAIN inbox[s] :
          Fits(produced[s], thread[s], inbox[s][i], Len(received[s]) + i)

\* The transport goes on where it stopped, as long as the item is registered.
Underway(s) ==
    /\ Numbered(transport, s, produced[s], thread[s]) /\ Rising(transport, s, produced[s])
    /\ s \in registered => Active(s) /\ Gapless(transport, s, produced[s], Passed(s))
    /\ alive /\ s \in registered => Whole(transport, s, produced[s], Passed(s))
    /\ thread[s] = None => produced[s] = 0 /\ Mine(transport, s) = {}

OutgoingOf(s) == Gone(s) /\ Underway(s)

Outgoing == \A s \in Streams : OutgoingOf(s)

\* From a queue q to p, as far as stream s is concerned: k positions forward.
Shifted(q, p, s, k) ==
    /\ \A i \in Mail(p, s) : i \in Nat /\ i + k \in Mail(q, s) /\ p[i] = q[i + k]
    /\ \A i \in Mail(q, s) : i \in Nat /\ i - k \in Mail(p, s) /\ p[i - k] = q[i]

\* p is the queue q, of n messages, with one more.
Longer(q, p, e, n) ==
    q \in Seq(Messages) /\ e \in Messages /\ p = Append(q, e) /\ n = Len(q)

LEMMA MailAppend ==
    ASSUME NEW q, NEW p, NEW e, NEW n, Longer(q, p, e, n), NEW s
    PROVE  /\ \A i \in Mail(q, s) : i \in Mail(p, s) /\ p[i] = q[i] /\ i \in Nat /\ i < n + 1
           /\ \A i \in Mail(p, s) : i \in Nat /\ (i \in Mail(q, s) \/ (i = n + 1 /\ e[2] = s))
           /\ e[2] = s => n + 1 \in Mail(p, s)
           /\ p[n + 1] = e
           /\ e[2] # s => Shifted(q, p, s, 0)
           /\ n \in Nat
<1>1. n \in Nat
  BY LenProperties DEF Longer
<1>2. /\ DOMAIN q = 1 .. n /\ DOMAIN p = DOMAIN q \cup {n + 1} /\ p[n + 1] = e
      /\ \A i \in DOMAIN q : p[i] = q[i]
  BY <1>1, AppendOf, LenProperties DEF Longer
<1>3. \A i \in DOMAIN p : i \in Nat /\ i + 0 = i /\ i - 0 = i
  BY <1>1, <1>2
<1> QED BY <1>1, <1>2, <1>3 DEF Mail, Shifted

\* p is the queue q without its head m.
Shorter(q, p, m) == q \in Seq(Messages) /\ q # <<>> /\ p = Tail(q) /\ m = Head(q)

LEMMA MailTail ==
    ASSUME NEW q, NEW p, NEW m, Shorter(q, p, m), NEW s
    PROVE  /\ \A i \in Mail(p, s) : i \in Nat \ {0} /\ i + 1 \in Mail(q, s) /\ p[i] = q[i + 1]
           /\ \A i \in Mail(q, s) :
                 i \in Nat \ {0} /\ (i # 1 => i - 1 \in Mail(p, s) /\ p[i - 1] = q[i])
           /\ m = q[1] /\ m \in Messages
           /\ m[2] = s => 1 \in Mail(q, s)
           /\ m[2] # s => Shifted(q, p, s, 1)
<1>1. PICK n : n = Len(q) /\ n \in Nat \ {0}
  BY EmptySeq, LenProperties DEF Shorter
<1>2. /\ DOMAIN q = 1 .. n /\ DOMAIN p = 1 .. n - 1 /\ m = q[1] /\ m \in Messages
      /\ \A i \in 1 .. n - 1 : p[i] = q[i + 1]
  BY <1>1, HeadTailProperties, LenProperties DEF Shorter
<1>3. \A i \in 1 .. n - 1 : i \in Nat \ {0} /\ i + 1 \in 1 .. n
  BY <1>1
<1>4. \A i \in 1 .. n : i # 1 => i - 1 \in 1 .. n - 1 /\ (i - 1) + 1 = i
  BY <1>1
<1>5. 1 \in 1 .. n
  BY <1>1
<1>6. \A i \in Mail(p, s) : i \in Nat \ {0} /\ i + 1 \in Mail(q, s) /\ p[i] = q[i + 1]
  BY <1>2, <1>3 DEF Mail
<1>7. \A i \in Mail(q, s) : i \in Nat \ {0} /\ (i # 1 => i - 1 \in Mail(p, s) /\ p[i - 1] = q[i])
  BY <1>1, <1>2, <1>4 DEF Mail
<1>8. m[2] = s <=> 1 \in Mail(q, s)
  BY <1>2, <1>5 DEF Mail
<1>9. m[2] # s => Shifted(q, p, s, 1)
  BY <1>6, <1>7, <1>8 DEF Shifted
<1> QED BY <1>1, <1>2, <1>6, <1>7, <1>8, <1>9

LEMMA ShiftedOrdered ==
    ASSUME NEW q, NEW p, NEW s, NEW k \in Nat, Shifted(q, p, s, k)
    PROVE  /\ Mail(q, s) = {} <=> Mail(p, s) = {}
           /\ Ordered(q, s) => Ordered(p, s)
           /\ \A m \in Nat : Follows(q, s, m) => Follows(p, s, m)
           /\ \A m, n : Reaches(q, s, m, n) => Reaches(p, s, m, n)
<1>1. /\ \A i \in Mail(p, s) : i \in Nat /\ i + k \in Mail(q, s) /\ p[i] = q[i + k]
      /\ \A i \in Mail(q, s) : i \in Nat /\ i - k \in Mail(p, s) /\ p[i - k] = q[i]
  BY DEF Shifted
<1>2. Mail(q, s) = {} <=> Mail(p, s) = {}
  BY <1>1
<1>3. ASSUME Ordered(q, s) PROVE Ordered(p, s)
  <2>1. ASSUME NEW i \in Mail(p, s), NEW j \in Mail(p, s), i < j
        PROVE  i + k \in Mail(q, s) /\ j + k \in Mail(q, s) /\ i + k < j + k
    BY <1>1, <2>1
  <2> QED BY <1>1, <1>3, <2>1 DEF Ordered
<1>4. ASSUME NEW m \in Nat, Follows(q, s, m) PROVE Follows(p, s, m)
  <2> SUFFICES ASSUME NEW i \in Mail(p, s), p[i][1] = "CHUNK"
               PROVE  /\ p[i][3] > m
                      /\ \/ p[i][3] = m + 1
                         \/ \E j \in Mail(p, s) : j < i /\ p[j] = <<"CHUNK", s, p[i][3] - 1>>
    BY DEF Follows
  <2>1. i \in Nat /\ i + k \in Mail(q, s) /\ p[i] = q[i + k]
    BY <1>1
  <2>2. q[i + k][3] > m /\ (q[i + k][3] = m + 1
           \/ \E j \in Mail(q, s) : j < i + k /\ q[j] = <<"CHUNK", s, q[i + k][3] - 1>>)
    BY <1>4, <2>1 DEF Follows
  <2>3. ASSUME NEW j \in Mail(q, s), j < i + k
        PROVE  j - k \in Mail(p, s) /\ j - k < i /\ p[j - k] = q[j]
    BY <1>1, <2>1, <2>3
  <2> QED BY <2>1, <2>2, <2>3
<1>5. ASSUME NEW m, NEW n, Reaches(q, s, m, n) PROVE Reaches(p, s, m, n)
  BY <1>1, <1>5 DEF Reaches
<1> QED BY <1>2, <1>3, <1>4, <1>5

\* What a step does not change of a stream.
Same(s) ==
    /\ pc'[s] \in {"new", "refused"} => pc[s] \in {"new", "refused"}
    /\ s \in route' => s \in route
    /\ sent'[s] = sent[s] /\ thread'[s] = thread[s] /\ input'[s] = input[s] /\ read'[s] = read[s]
    /\ s \in sessions' <=> s \in sessions
    /\ s \in closed' <=> s \in closed
    /\ s \in astray' <=> s \in astray
    /\ alive' = alive

LEMMA IntakeKept ==
    ASSUME TypeOK, NEW s \in Streams, IntakeOf(s), Same(s),
           NEW k \in {0, 1}, Shifted(queue, queue', s, k)
    PROVE  IntakeOf(s)'
<1>1. /\ Mail(queue, s) = {} <=> Mail(queue', s) = {}
      /\ Ordered(queue, s) => Ordered(queue', s)
      /\ \A m \in Nat : Follows(queue, s, m) => Follows(queue', s, m)
      /\ \A m, n : Reaches(queue, s, m, n) => Reaches(queue', s, m, n)
  <2>1. PICK q, p : q = queue /\ p = queue'
    OBVIOUS
  <2>2. Shifted(q, p, s, k) /\ k \in Nat
    BY <2>1
  <2> QED BY <2>1, <2>2, ShiftedOrdered
<1>2. read[s] + Len(input[s]) \in Nat
  BY LenProperties DEF TypeOK
<1>3. Begun(s)' /\ Held(s)' /\ Ordered(queue', s)
  BY <1>1 DEF IntakeOf, Begun, Held, Same
<1>4. s \notin astray' => Fed(s)'
  BY <1>1, <1>2 DEF IntakeOf, Fed, Same
<1>5. ASSUME NEW i \in Int, Opens(s, i + k) PROVE Opens(s, i)'
  <2>1. ASSUME NEW j \in Mail(queue, s), j < i + k
        PROVE  j - k \in Mail(queue', s) /\ j - k < i /\ queue'[j - k] = queue[j]
    BY <2>1 DEF Shifted
  <2> QED BY <1>5, <2>1 DEF Opens, Same
<1>6. Posted(s)'
  <2>1. ASSUME NEW i \in Mail(queue', s)
        PROVE  /\ queue'[i][1] = "CHUNK" => queue'[i][3] \in 1 .. sent'[s]
               /\ queue'[i][1] = "CLOSE" => s \notin route'
               /\ queue'[i][1] = "OPEN" => thread'[s] = None
               /\ alive' /\ queue'[i][1] # "OPEN" => Opens(s, i)'
    <3>1. i \in Nat /\ i + k \in Mail(queue, s) /\ queue'[i] = queue[i + k]
      BY DEF Shifted
    <3>2. /\ queue[i + k][1] = "CHUNK" => queue[i + k][3] \in 1 .. sent[s]
          /\ queue[i + k][1] = "CLOSE" => s \notin route
          /\ queue[i + k][1] = "OPEN" => thread[s] = None
          /\ alive /\ queue[i + k][1] # "OPEN" => Opens(s, i + k)
      BY <3>1 DEF IntakeOf, Posted
    <3> QED BY <1>5, <3>1, <3>2 DEF Same
  <2>2. ASSUME alive', s \in route' PROVE \E i \in Nat : Opens(s, i)'
    <3>1. PICK i \in Nat : Opens(s, i)
      BY <2>2 DEF IntakeOf, Posted, Same
    <3>2. Opens(s, i + k)
      BY <3>1 DEF Opens, Mail, Shifted
    <3> QED BY <1>5, <3>2
  <2> QED BY <2>1, <2>2 DEF Posted
<1> QED BY <1>3, <1>4, <1>6 DEF IntakeOf

\* The handler puts a message of its stream: OPEN,
LEMMA IntakeOpen ==
    ASSUME TypeOK, NEW s \in Streams, IntakeOf(s), Open(s)
    PROVE  IntakeOf(s)'
<1>1. PICK q, n : q = queue /\ n = Len(queue) /\ q \in Seq(Messages) /\ n \in Nat
  BY LenProperties DEF TypeOK
<1>2. /\ Mail(q, s) = {} /\ sent[s] = 0 /\ thread[s] = None /\ s \notin route
      /\ s \notin sessions /\ s \notin closed
  BY <1>1 DEF Open, IntakeOf, Begun, Held
<1>3. UNCHANGED <<sent, astray, alive, sessions, closed, input, thread, read>>
  BY DEF Open, workerVars, threadVars
<1>4. CASE UNCHANGED <<queue, route, registered>>
  <2>1. queue' = queue /\ route' = route
    BY <1>4
  <2> QED BY <1>1, <1>2, <1>3, <2>1
          DEF IntakeOf, Begun, Ordered, Posted, Held, Fed, Follows, Reaches
<1>5. CASE /\ queue' = Append(queue, <<"OPEN", s, 0>>)
           /\ route' = route \cup {s} /\ pc' = [pc EXCEPT ![s] = "waiting"]
  <2>0. <<"OPEN", s, 0>> \in Messages /\ <<"OPEN", s, 0>>[1] = "OPEN" /\ <<"OPEN", s, 0>>[2] = s
    BY DEF Messages
  <2>1. PICK e, p : e = <<"OPEN", s, 0>> /\ e \in Messages /\ p = Append(q, e)
                 /\ e[1] = "OPEN" /\ e[2] = s
    BY <2>0
  <2>1a. Longer(q, p, e, n)
    BY <1>1, <2>1 DEF Longer
  <2>1b. e[1] = "OPEN" /\ e[2] = s
    BY <2>1
  <2>2. queue' = p /\ route' = route \cup {s} /\ pc'[s] = "waiting"
    BY <1>1, <1>5, <2>1 DEF TypeOK
  <2>3. /\ Mail(p, s) = {n + 1} /\ p[n + 1] = e
    <3>1. \A i \in Mail(p, s) : i = n + 1
      BY <1>2, <2>1a, MailAppend
    <3>2. n + 1 \in Mail(p, s) /\ p[n + 1] = e
      BY <2>1a, <2>1b, MailAppend
    <3> QED BY <3>1, <3>2
  <2>4. Ordered(p, s) /\ \A m \in Nat : Follows(p, s, m)
    BY <2>1, <2>3, <1>1 DEF Ordered, Follows
  <2>5. read[s] + Len(input[s]) \in Nat
    BY LenProperties DEF TypeOK
  <2>6. alive /\ s \notin astray => read[s] + Len(input[s]) = 0
    BY <1>1, <1>2 DEF IntakeOf, Fed, Reaches
  <2>7. s \notin astray' => Fed(s)'
    BY <1>2, <1>3, <2>2, <2>4, <2>5, <2>6 DEF IntakeOf, Fed, Reaches
  <2>8. Posted(s)'
    <3>1. n + 2 \in Nat /\ n + 1 < n + 2
      BY <1>1
    <3>2. Opens(s, n + 2)'
      BY <2>1, <2>2, <2>3, <3>1 DEF Opens
    <3>3. \A i \in Mail(p, s) : p[i][1] = "OPEN"
      BY <2>1, <2>3
    <3> QED BY <1>2, <1>3, <2>2, <3>1, <3>2, <3>3 DEF Posted
  <2>9. Begun(s)' /\ Held(s)'
    BY <1>2, <1>3, <2>2 DEF IntakeOf, Begun, Held
  <2> QED BY <2>2, <2>4, <2>7, <2>8, <2>9 DEF IntakeOf
<1> QED BY <1>4, <1>5 DEF Open

\* a chunk,
LEMMA IntakeChunk ==
    ASSUME TypeOK, NEW s \in Streams, IntakeOf(s), s \in route,
           sent' = [sent EXCEPT ![s] = @ + 1],
           queue' = Append(queue, <<"CHUNK", s, sent'[s]>>),
           UNCHANGED <<pc, route, astray, alive, sessions, closed, input, thread, read>>
    PROVE  IntakeOf(s)'
<1>1. PICK q, n, c, e : /\ q = queue /\ n = Len(queue) /\ c = sent[s] /\ e = <<"CHUNK", s, c + 1>>
                        /\ q \in Seq(Messages) /\ n \in Nat /\ c \in Nat
  BY LenProperties DEF TypeOK
<1>2. e \in Messages /\ e[1] = "CHUNK" /\ e[2] = s /\ e[3] = c + 1
  BY <1>1 DEF Messages
<1>3. PICK p : p = Append(q, e)
  OBVIOUS
<1>4. queue' = p /\ sent'[s] = c + 1
  BY <1>1, <1>3 DEF TypeOK
<1>5. /\ \A i \in Mail(q, s) : i \in Mail(p, s) /\ p[i] = q[i] /\ i \in Nat /\ i < n + 1
      /\ \A i \in Mail(p, s) : i \in Nat /\ (i \in Mail(q, s) \/ i = n + 1)
      /\ n + 1 \in Mail(p, s) /\ p[n + 1] = e
  <2>0. Longer(q, p, e, n) /\ e[2] = s
    BY <1>1, <1>2, <1>3 DEF Longer
  <2>1. \A i \in Mail(q, s) : i \in Mail(p, s) /\ p[i] = q[i] /\ i \in Nat /\ i < n + 1
    BY <2>0, MailAppend
  <2>2. \A i \in Mail(p, s) : i \in Nat /\ (i \in Mail(q, s) \/ i = n + 1)
    BY <2>0, MailAppend
  <2>3. n + 1 \in Mail(p, s) /\ p[n + 1] = e
    BY <2>0, MailAppend
  <2> QED BY <2>1, <2>2, <2>3
<1>6. s \notin closed /\ ~(pc[s] \in {"new", "refused"}) /\ thread[s] = thread[s]
  BY DEF IntakeOf, Held, Begun
<1>7. \A i \in Mail(q, s) : /\ q[i][1] # "CLOSE"
                            /\ q[i][1] = "CHUNK" => q[i][3] \in 1 .. c
                            /\ q[i][1] = "OPEN" => thread[s] = None
  BY <1>1 DEF IntakeOf, Posted
<1>8. Ordered(p, s)
  <2> SUFFICES ASSUME NEW i \in Mail(p, s), NEW j \in Mail(p, s), i < j
               PROVE  /\ p[i][1] # "CLOSE" /\ p[j][1] # "OPEN"
                      /\ p[i][1] = "CHUNK" /\ p[j][1] = "CHUNK" => p[i][3] < p[j][3]
    BY DEF Ordered
  <2>1. i \in Mail(q, s) /\ p[i] = q[i]
    BY <1>1, <1>5
  <2>2. CASE j = n + 1
    <3>1. p[j][1] = "CHUNK" /\ p[j][3] = c + 1
      BY <1>2, <1>5, <2>2
    <3>2. p[i][1] # "CLOSE" /\ (p[i][1] = "CHUNK" => p[i][3] \in 1 .. c)
      BY <1>7, <2>1
    <3> QED BY <1>1, <3>1, <3>2
  <2>3. CASE j # n + 1
    <3>1. j \in Mail(q, s) /\ p[j] = q[j]
      BY <1>5, <2>3
    <3> QED BY <1>1, <2>1, <3>1 DEF IntakeOf, Ordered
  <2> QED BY <2>2, <2>3
<1>9. PICK m : m = read[s] + Len(input[s]) /\ m \in Nat
  BY LenProperties DEF TypeOK
<1>10. ASSUME s \notin astray PROVE Fed(s)'
  <2>1. CASE alive
    <3>1. Follows(q, s, m) /\ Reaches(q, s, m, c) /\ thread[s] # "drained"
          /\ \A i \in DOMAIN input[s] : input[s][i] = read[s] + i
      BY <1>1, <1>6, <1>9, <1>10, <2>1 DEF IntakeOf, Fed
    <3>2. c >= m
      BY <1>1, <1>9, <3>1 DEF Reaches, Follows
    <3>3. Follows(p, s, m)
      <4> SUFFICES ASSUME NEW i \in Mail(p, s), p[i][1] = "CHUNK"
                   PROVE  /\ p[i][3] > m
                          /\ \/ p[i][3] = m + 1
                             \/ \E j \in Mail(p, s) : j < i /\ p[j] = <<"CHUNK", s, p[i][3] - 1>>
        BY DEF Follows
      <4>1. CASE i \in Mail(q, s)
        <5>1. p[i] = q[i]
          BY <1>5, <4>1
        <5> QED BY <1>5, <3>1, <4>1, <5>1 DEF Follows
      <4>2. CASE i = n + 1
        <5>1. p[i][3] = c + 1 /\ (c + 1) - 1 = c
          BY <1>1, <1>2, <1>5, <4>2
        <5>2. CASE c = m
          BY <1>1, <5>1, <5>2
        <5>3. CASE c # m
          <6>1. PICK j \in Mail(q, s) : q[j] = <<"CHUNK", s, c>>
            BY <3>1, <5>3 DEF Reaches
          <6>2. j \in Mail(p, s) /\ j < i /\ p[j] = <<"CHUNK", s, p[i][3] - 1>>
            BY <1>5, <4>2, <5>1, <6>1
          <6>3. p[i][3] > m
            BY <1>1, <1>9, <3>2, <5>1
          <6> QED BY <6>2, <6>3
        <5> QED BY <5>2, <5>3
      <4> QED BY <1>5, <4>1, <4>2
    <3>4. Reaches(p, s, m, c + 1)
      BY <1>2, <1>5, <1>1 DEF Reaches
    <3> QED BY <1>4, <1>6, <1>9, <3>1, <3>3, <3>4 DEF Fed
  <2>2. CASE ~alive
    BY <1>6, <2>2 DEF Fed
  <2> QED BY <2>1, <2>2
<1>11. ASSUME NEW i \in Nat, Opens(s, i), alive, i <= n + 1 PROVE Opens(s, i)'
  BY <1>1, <1>4, <1>5, <1>11 DEF Opens
<1>12. alive => Opens(s, n + 1)'
  <2>1. ASSUME alive PROVE Opens(s, n + 1)'
    <3>1. PICK i \in Nat : Opens(s, i)
      BY <2>1 DEF IntakeOf, Posted
    <3>2. Opens(s, n + 1)
      BY <1>1, <1>5, <3>1 DEF Opens
    <3> QED BY <1>1, <1>11, <2>1, <3>2
  <2> QED BY <2>1
<1>13. Posted(s)'
  <2>1. ASSUME NEW i \in Mail(p, s)
        PROVE  /\ p[i][1] = "CHUNK" => p[i][3] \in 1 .. c + 1
               /\ p[i][1] = "CLOSE" => s \notin route
               /\ p[i][1] = "OPEN" => thread[s] = None
               /\ alive /\ p[i][1] # "OPEN" => Opens(s, i)'
    <3>1. CASE i \in Mail(q, s)
      <4>1. p[i] = q[i] /\ i \in Nat /\ i <= n + 1
        BY <1>1, <1>5, <3>1
      <4>2. /\ q[i][1] = "CHUNK" => q[i][3] \in 1 .. c
            /\ q[i][1] = "CLOSE" => s \notin route
            /\ q[i][1] = "OPEN" => thread[s] = None
            /\ alive /\ q[i][1] # "OPEN" => Opens(s, i)
        BY <1>1, <3>1 DEF IntakeOf, Posted
      <4> QED BY <1>1, <1>11, <4>1, <4>2
    <3>2. CASE i = n + 1
      BY <1>1, <1>2, <1>5, <1>12, <3>2
    <3> QED BY <1>5, <3>1, <3>2
  <2>2. alive => \E i \in Nat : Opens(s, i)'
    BY <1>1, <1>12
  <2> QED BY <1>4, <2>1, <2>2 DEF Posted
<1>14. Begun(s)' /\ Held(s)'
  BY <1>6 DEF Begun, Held, IntakeOf
<1> QED BY <1>4, <1>8, <1>10, <1>13, <1>14 DEF IntakeOf

\* a chunk that goes to another version,
LEMMA IntakeAstray ==
    ASSUME TypeOK, NEW s \in Streams, IntakeOf(s), s \in route,
           sent' = [sent EXCEPT ![s] = @ + 1], astray' = astray \cup {s},
           UNCHANGED <<pc, route, queue, alive, sessions, closed, input, thread, read>>
    PROVE  IntakeOf(s)'
<1>1. sent[s] \in Nat /\ sent'[s] = sent[s] + 1
  BY DEF TypeOK
<1>2. \A k \in 1 .. sent[s] : k \in 1 .. sent'[s]
  BY <1>1
<1>3. Begun(s)' /\ Held(s)' /\ Ordered(queue', s)
  BY DEF IntakeOf, Begun, Held
<1>4. Posted(s)'
  BY <1>2 DEF IntakeOf, Posted, Opens
<1> QED BY <1>3, <1>4 DEF IntakeOf

\* or CLOSE, with which the route goes; also if it does not come to the worker.
LEMMA IntakeClosing ==
    ASSUME TypeOK, NEW s \in Streams, IntakeOf(s), SendClose(s),
           pc[s] \notin {"new", "refused"}, pc'[s] \notin {"new", "refused"},
           UNCHANGED <<sent, alive, sessions, closed, input, thread, read>>
    PROVE  IntakeOf(s)'
<1>1. PICK q, n, e : /\ q = queue /\ n = Len(queue) /\ e = <<"CLOSE", s, 0>>
                     /\ q \in Seq(Messages) /\ n \in Nat
  BY LenProperties DEF TypeOK
<1>2. e \in Messages /\ e[1] = "CLOSE" /\ e[2] = s
  BY <1>1 DEF Messages
<1>3. s \notin route' /\ Begun(s)'
  BY DEF SendClose, Begun
<1>6. astray' = astray
  BY DEF SendClose
<1>4. CASE queue' = queue
  <2>1. Held(s)' /\ Ordered(queue', s) /\ (s \notin astray => Fed(s)')
    BY <1>3, <1>4 DEF IntakeOf, Held, Fed
  <2>2. Posted(s)'
    BY <1>3, <1>4 DEF IntakeOf, Posted, Opens
  <2> QED BY <1>3, <1>6, <2>1, <2>2 DEF IntakeOf
<1>5. CASE s \in route /\ queue' = Append(queue, e)
  <2>1. PICK p : p = Append(q, e)
    OBVIOUS
  <2>2. queue' = p
    BY <1>1, <1>5, <2>1
  <2>3. /\ \A i \in Mail(q, s) : i \in Mail(p, s) /\ p[i] = q[i] /\ i \in Nat /\ i < n + 1
        /\ \A i \in Mail(p, s) : i \in Nat /\ (i \in Mail(q, s) \/ i = n + 1)
        /\ n + 1 \in Mail(p, s) /\ p[n + 1] = e
    <3>0. Longer(q, p, e, n) /\ e[2] = s
      BY <1>1, <1>2, <2>1 DEF Longer
    <3>1. \A i \in Mail(q, s) : i \in Mail(p, s) /\ p[i] = q[i] /\ i \in Nat /\ i < n + 1
      BY <3>0, MailAppend
    <3>2. \A i \in Mail(p, s) : i \in Nat /\ (i \in Mail(q, s) \/ i = n + 1)
      BY <3>0, MailAppend
    <3>3. n + 1 \in Mail(p, s) /\ p[n + 1] = e
      BY <3>0, MailAppend
    <3> QED BY <3>1, <3>2, <3>3
  <2>4. s \notin closed
    BY <1>5 DEF IntakeOf, Held
  <2>5. \A i \in Mail(q, s) : q[i][1] # "CLOSE"
    BY <1>1, <1>5 DEF IntakeOf, Posted
  <2>6. Ordered(p, s)
    <3> SUFFICES ASSUME NEW i \in Mail(p, s), NEW j \in Mail(p, s), i < j
                 PROVE  /\ p[i][1] # "CLOSE" /\ p[j][1] # "OPEN"
                        /\ p[i][1] = "CHUNK" /\ p[j][1] = "CHUNK" => p[i][3] < p[j][3]
      BY DEF Ordered
    <3>1. i \in Mail(q, s) /\ p[i] = q[i] /\ q[i][1] # "CLOSE"
      BY <1>1, <2>3, <2>5
    <3>2. CASE j = n + 1
      BY <1>2, <2>3, <3>1, <3>2
    <3>3. CASE j # n + 1
      <4>1. j \in Mail(q, s) /\ p[j] = q[j]
        BY <2>3, <3>3
      <4> QED BY <1>1, <3>1, <4>1 DEF IntakeOf, Ordered
    <3> QED BY <3>2, <3>3
  <2>7. PICK m : m = read[s] + Len(input[s]) /\ m \in Nat
    BY LenProperties DEF TypeOK
  <2>8. ASSUME s \notin astray PROVE Fed(s)'
    <3>1. CASE alive
      <4>1. Follows(q, s, m) /\ Reaches(q, s, m, sent[s]) /\ thread[s] # "drained"
            /\ \A i \in DOMAIN input[s] : input[s][i] = read[s] + i
        BY <1>1, <2>4, <2>7, <2>8, <3>1 DEF IntakeOf, Fed
      <4>2. Follows(p, s, m)
        <5> SUFFICES ASSUME NEW i \in Mail(p, s), p[i][1] = "CHUNK"
                     PROVE  /\ p[i][3] > m
                            /\ \/ p[i][3] = m + 1
                               \/ \E j \in Mail(p, s) :
                                     j < i /\ p[j] = <<"CHUNK", s, p[i][3] - 1>>
          BY DEF Follows
        <5>1. i \in Mail(q, s) /\ p[i] = q[i]
          BY <1>2, <2>3
        <5> QED BY <2>3, <4>1, <5>1 DEF Follows
      <4>3. Reaches(p, s, m, sent[s])
        BY <2>3, <4>1 DEF Reaches
      <4> QED BY <2>2, <2>4, <2>7, <4>1, <4>2, <4>3 DEF Fed
    <3>2. CASE ~alive
      BY <2>4, <3>2 DEF Fed
    <3> QED BY <3>1, <3>2
  <2>9. ASSUME NEW i \in Nat, Opens(s, i) PROVE Opens(s, i)'
    BY <1>1, <2>2, <2>3, <2>9 DEF Opens
  <2>10. Posted(s)'
    <3>1. ASSUME NEW i \in Mail(p, s)
          PROVE  /\ p[i][1] = "CHUNK" => p[i][3] \in 1 .. sent[s]
                 /\ p[i][1] = "OPEN" => thread[s] = None
                 /\ alive /\ p[i][1] # "OPEN" => Opens(s, i)'
      <4>1. CASE i \in Mail(q, s)
        <5>1. p[i] = q[i] /\ i \in Nat
          BY <2>3, <4>1
        <5>2. /\ q[i][1] = "CHUNK" => q[i][3] \in 1 .. sent[s]
              /\ q[i][1] = "OPEN" => thread[s] = None
              /\ alive /\ q[i][1] # "OPEN" => Opens(s, i)
          BY <1>1, <4>1 DEF IntakeOf, Posted
        <5> QED BY <2>9, <5>1, <5>2
      <4>2. CASE i = n + 1
        <5>1. ASSUME alive PROVE Opens(s, n + 1)'
          <6>1. PICK k \in Nat : Opens(s, k)
            BY <1>5, <5>1 DEF IntakeOf, Posted
          <6>2. Opens(s, n + 1)
            BY <1>1, <2>3, <6>1 DEF Opens
          <6> QED BY <1>1, <2>9, <6>2
        <5> QED BY <1>2, <2>3, <4>2, <5>1
      <4> QED BY <2>3, <4>1, <4>2
    <3> QED BY <1>3, <2>2, <3>1 DEF Posted
  <2>11. Held(s)'
    BY <2>4 DEF IntakeOf, Held
  <2> QED BY <1>3, <1>6, <2>2, <2>6, <2>8, <2>10, <2>11 DEF IntakeOf
<1> QED BY <1>1, <1>4, <1>5 DEF SendClose

\* The generator reads a chunk, or the end of its input.
LEMMA IntakeRead ==
    ASSUME TypeOK, NEW s \in Streams, IntakeOf(s), Read(s)
    PROVE  IntakeOf(s)'
<1>1. PICK b, r, n : /\ b = input[s] /\ r = read[s] /\ n = Len(b)
                     /\ b \in Seq(Nat) /\ r \in Nat /\ n \in Nat \ {0} /\ b # <<>>
  BY EmptySeq, LenProperties DEF TypeOK, Read
<1>a. PICK t : t = Tail(b)
  OBVIOUS
<1>b. Len(t) = n - 1 /\ t \in Seq(Nat) /\ \A i \in 1 .. Len(t) : t[i] = b[i + 1]
  BY <1>1, <1>a, HeadTailProperties
<1>2. /\ t \in Seq(Nat) /\ Len(t) = n - 1 /\ DOMAIN t = 1 .. n - 1
      /\ DOMAIN b = 1 .. n /\ Head(b) = b[1] /\ \A i \in 1 .. n - 1 : t[i] = b[i + 1]
  BY <1>1, <1>b, LenProperties
<1>3. /\ thread[s] = "running" /\ input'[s] = t
      /\ UNCHANGED <<pc, route, sent, astray, queue, alive, sessions, closed>>
  BY <1>1, <1>a DEF Read, TypeOK, handlerVars
<1>4. /\ b[1] = EOF => thread'[s] = "drained" /\ read'[s] = r
      /\ b[1] # EOF => thread'[s] = "running" /\ read'[s] = b[1]
  BY <1>1, <1>2 DEF Read, TypeOK
<1>5. alive /\ "running" # None /\ "drained" # None /\ EOF = 0
  BY <1>3 DEF IntakeOf, Held, None, EOF
<1>6. Begun(s)' /\ Posted(s)' /\ Held(s)' /\ Ordered(queue', s)
  BY <1>3, <1>4, <1>5 DEF IntakeOf, Begun, Posted, Held, Opens
<1>7. CASE s \notin closed /\ s \notin astray
  <2>1. /\ \A i \in 1 .. n : b[i] = r + i
        /\ Follows(queue, s, r + n) /\ Reaches(queue, s, r + n, sent[s])
    BY <1>1, <1>2, <1>5, <1>7 DEF IntakeOf, Fed
  <2>2. b[1] = r + 1 /\ r + 1 # 0
    BY <1>1, <2>1
  <2>3. thread'[s] = "running" /\ read'[s] = r + 1
    BY <1>4, <1>5, <2>2
  <2>4. \A i \in 1 .. n - 1 : t[i] = (r + 1) + i
    <3> SUFFICES ASSUME NEW i \in 1 .. n - 1 PROVE t[i] = (r + 1) + i
      OBVIOUS
    <3>1. i + 1 \in 1 .. n /\ r + (i + 1) = (r + 1) + i
      BY <1>1
    <3> QED BY <1>2, <2>1, <3>1
  <2>5. (r + 1) + Len(t) = r + n
    <3>1. Len(t) = n - 1 /\ r \in Nat /\ n \in Nat
      BY <1>1, <1>2
    <3> QED BY <3>1
  <2>6. Fed(s)'
    BY <1>2, <1>3, <1>7, <2>1, <2>3, <2>4, <2>5 DEF Fed
  <2> QED BY <1>3, <1>6, <2>6 DEF IntakeOf
<1>8. CASE s \in closed /\ s \notin astray
  <2>1. r + n = sent[s] + 1 /\ \A i \in 1 .. n : b[i] = IF i = n THEN EOF ELSE r + i
    BY <1>1, <1>2, <1>3, <1>8 DEF IntakeOf, Fed
  <2>2. sent[s] \in Nat
    BY DEF TypeOK
  <2>3. CASE n = 1
    <3>1. b[1] = EOF /\ t = <<>> /\ r = sent[s]
      BY <1>1, <1>2, <2>1, <2>2, <2>3, EmptySeq
    <3>2. thread'[s] = "drained" /\ read'[s] = r
      BY <1>4, <3>1
    <3>3. Fed(s)'
      BY <1>3, <1>8, <3>1, <3>2 DEF Fed
    <3> QED BY <1>3, <1>6, <3>3 DEF IntakeOf
  <2>4. CASE n # 1
    <3>0. 1 \in 1 .. n /\ r + 1 # 0
      BY <1>1
    <3>1. b[1] = r + 1 /\ r + 1 # 0
      BY <2>1, <2>4, <3>0
    <3>2. thread'[s] = "running" /\ read'[s] = r + 1
      BY <1>4, <1>5, <3>1
    <3>3. \A i \in 1 .. n - 1 : t[i] = IF i = n - 1 THEN EOF ELSE (r + 1) + i
      <4> SUFFICES ASSUME NEW i \in 1 .. n - 1
                   PROVE  t[i] = IF i = n - 1 THEN EOF ELSE (r + 1) + i
        OBVIOUS
      <4>1. i + 1 \in 1 .. n /\ r + (i + 1) = (r + 1) + i /\ (i + 1 = n <=> i = n - 1)
        BY <1>1
      <4> QED BY <1>2, <2>1, <4>1
    <3>4. (r + 1) + Len(t) = sent[s] + 1
      BY <1>1, <1>2, <2>1
    <3>5. Fed(s)'
      BY <1>2, <1>3, <1>8, <3>2, <3>3, <3>4 DEF Fed
    <3> QED BY <1>3, <1>6, <3>5 DEF IntakeOf
  <2> QED BY <2>3, <2>4
<1>9. CASE s \in astray
  BY <1>3, <1>6, <1>9 DEF IntakeOf
<1> QED BY <1>7, <1>8, <1>9

\* The generator ends.
LEMMA IntakeEnds ==
    ASSUME TypeOK, NEW s \in Streams, IntakeOf(s), thread[s] # None,
           thread' = [thread EXCEPT ![s] = "ended"],
           UNCHANGED <<pc, route, sent, astray, queue, alive, sessions, closed, input, read>>
    PROVE  IntakeOf(s)'
<1>1. thread'[s] = "ended" /\ "ended" # None
  BY DEF TypeOK, None
<1>2. Begun(s)' /\ Held(s)' /\ (s \notin astray' => Fed(s)') /\ Ordered(queue', s)
  BY <1>1 DEF IntakeOf, Begun, Held, Fed
<1>3. Posted(s)'
  BY <1>1 DEF IntakeOf, Posted, Opens
<1> QED BY <1>2, <1>3 DEF IntakeOf

\* The worker handles a message of the stream: what is left in the queue.
LEMMA IntakeTaken ==
    ASSUME TypeOK, NEW s \in Streams, IntakeOf(s), HandleMessage, Head(queue)[2] = s
    PROVE  /\ Ordered(queue', s) /\ Head(queue) = queue[1] /\ 1 \in Mail(queue, s)
           /\ \A i \in Mail(queue', s) :
                 /\ i \in Nat \ {0} /\ i + 1 \in Mail(queue, s) /\ queue'[i] = queue[i + 1]
                 /\ queue'[i][1] # "OPEN"
                 /\ queue'[i][1] = "CHUNK" => queue'[i][3] \in 1 .. sent[s]
                 /\ queue'[i][1] = "CLOSE" => s \notin route
           /\ Head(queue)[1] = "CLOSE" => Mail(queue', s) = {}
           /\ Head(queue)[1] = "CHUNK" => \A i \in Mail(queue', s) :
                 queue'[i][1] = "CHUNK" => queue'[i][3] > Head(queue)[3]
<1>1. PICK q, p, m : q = queue /\ p = queue' /\ m = Head(queue) /\ Shorter(q, p, m)
  BY DEF HandleMessage, TypeOK, Shorter
<1>2. /\ \A i \in Mail(p, s) : i \in Nat \ {0} /\ i + 1 \in Mail(q, s) /\ p[i] = q[i + 1]
      /\ m = q[1] /\ 1 \in Mail(q, s)
  <2>1. m[2] = s /\ Shorter(q, p, m)
    BY <1>1
  <2> QED BY <2>1, MailTail
<1>3. Ordered(q, s)
  BY <1>1 DEF IntakeOf
<1>4. \A i \in Mail(p, s) : i + 1 > 1
  BY <1>2
<1>5. \A i \in Mail(p, s) : /\ m[1] # "CLOSE" /\ p[i][1] # "OPEN"
                            /\ m[1] = "CHUNK" /\ p[i][1] = "CHUNK" => p[i][3] > m[3]
  BY <1>2, <1>3, <1>4 DEF Ordered
<1>6. Ordered(p, s)
  <2>1. \A i, j \in Mail(p, s) : i < j => i + 1 < j + 1
    BY <1>2
  <2> QED BY <1>2, <1>3, <2>1 DEF Ordered
<1>7. \A i \in Mail(p, s) : /\ p[i][1] = "CHUNK" => p[i][3] \in 1 .. sent[s]
                            /\ p[i][1] = "CLOSE" => s \notin route
  BY <1>1, <1>2 DEF IntakeOf, Posted
<1> QED BY <1>1, <1>2, <1>5, <1>6, <1>7

LEMMA IntakeOnOpen ==
    ASSUME TypeOK, NEW s \in Streams, IntakeOf(s), HandleMessage, OnOpen(s)
    PROVE  IntakeOf(s)'
<1>1. PICK p : p = queue'
  OBVIOUS
<1>2. /\ Ordered(p, s) /\ Head(queue) = queue[1] /\ 1 \in Mail(queue, s)
      /\ \A i \in Mail(p, s) :
            /\ i \in Nat \ {0} /\ i + 1 \in Mail(queue, s) /\ p[i] = queue[i + 1]
            /\ p[i][1] # "OPEN"
            /\ p[i][1] = "CHUNK" => p[i][3] \in 1 .. sent[s]
            /\ p[i][1] = "CLOSE" => s \notin route
  BY <1>1, IntakeTaken DEF OnOpen
<1>3. /\ Head(queue)[1] = "OPEN" /\ alive
      /\ UNCHANGED <<pc, route, sent, astray, alive, read, closed, input>>
  BY DEF OnOpen, HandleMessage, handlerVars
<1>4. thread[s] = None /\ s \notin sessions /\ s \notin closed /\ ~(pc[s] \in {"new", "refused"})
  BY <1>2, <1>3 DEF IntakeOf, Posted, Held, Begun
<1>5. thread'[s] = "running" /\ s \in sessions' /\ "running" # None /\ "running" # "drained"
  BY <1>4 DEF OnOpen, TypeOK, None
<1>6. Begun(s)' /\ Held(s)'
  BY <1>3, <1>4, <1>5 DEF Begun, Held
<1>7. Posted(s)'
  BY <1>1, <1>2, <1>3, <1>5 DEF Posted, Opens
<1>8. PICK m : m = read[s] + Len(input[s]) /\ m \in Nat
  BY LenProperties DEF TypeOK
<1>9. s \notin astray =>
         /\ Follows(queue, s, m) /\ Reaches(queue, s, m, sent[s])
         /\ \A i \in DOMAIN input[s] : input[s][i] = read[s] + i
  BY <1>3, <1>4, <1>8 DEF IntakeOf, Fed
\* The OPEN itself is no chunk.
<1>10. \A i \in Mail(queue, s) : queue[i][1] = "CHUNK" =>
          i - 1 \in Mail(p, s) /\ p[i - 1] = queue[i] /\ i \in Nat
  <2>1. PICK q, h : q = queue /\ h = Head(queue) /\ Shorter(q, p, h)
    BY <1>1 DEF HandleMessage, TypeOK, Shorter
  <2>2. \A i \in Mail(q, s) : i \in Nat /\ (i # 1 => i - 1 \in Mail(p, s) /\ p[i - 1] = q[i])
    BY <2>1, MailTail
  <2>3. q[1][1] = "OPEN"
    BY <1>2, <1>3, <2>1
  <2> QED BY <2>1, <2>2, <2>3
<1>11. ASSUME s \notin astray PROVE Follows(p, s, m)
  <2> SUFFICES ASSUME NEW i \in Mail(p, s), p[i][1] = "CHUNK"
               PROVE  /\ p[i][3] > m
                      /\ \/ p[i][3] = m + 1
                         \/ \E j \in Mail(p, s) : j < i /\ p[j] = <<"CHUNK", s, p[i][3] - 1>>
    BY DEF Follows
  <2>1. i \in Nat \ {0} /\ i + 1 \in Mail(queue, s) /\ p[i] = queue[i + 1]
    BY <1>2
  <2>2. p[i][3] > m /\ (p[i][3] = m + 1
           \/ \E j \in Mail(queue, s) : j < i + 1 /\ queue[j] = <<"CHUNK", s, p[i][3] - 1>>)
    BY <1>9, <1>11, <2>1 DEF Follows
  <2>3. ASSUME NEW j \in Mail(queue, s), j < i + 1, queue[j] = <<"CHUNK", s, p[i][3] - 1>>
        PROVE  j - 1 \in Mail(p, s) /\ j - 1 < i /\ p[j - 1] = <<"CHUNK", s, p[i][3] - 1>>
    <3>1. queue[j][1] = "CHUNK"
      BY <2>3
    <3>2. j - 1 \in Mail(p, s) /\ p[j - 1] = queue[j] /\ j \in Nat /\ i \in Nat
      BY <1>10, <2>1, <3>1
    <3>3. j - 1 < i
      BY <2>3, <3>2
    <3> QED BY <2>3, <3>2, <3>3
  <2> QED BY <2>2, <2>3
<1>12. ASSUME s \notin astray PROVE Reaches(p, s, m, sent[s])
  <2>1. ASSUME NEW i \in Mail(queue, s), queue[i] = <<"CHUNK", s, sent[s]>>
        PROVE  i - 1 \in Mail(p, s) /\ p[i - 1] = <<"CHUNK", s, sent[s]>>
    BY <1>10, <2>1
  <2> QED BY <1>9, <1>12, <2>1 DEF Reaches
<1>13. s \notin astray' => Fed(s)'
  BY <1>1, <1>3, <1>4, <1>5, <1>8, <1>9, <1>11, <1>12 DEF Fed
<1> QED BY <1>1, <1>2, <1>6, <1>7, <1>13 DEF IntakeOf

LEMMA IntakeOnChunk ==
    ASSUME TypeOK, NEW s \in Streams, IntakeOf(s), HandleMessage, OnChunk(s)
    PROVE  IntakeOf(s)'
<1>1. PICK p : p = queue'
  OBVIOUS
<1>2. /\ Ordered(p, s) /\ Head(queue) = queue[1] /\ 1 \in Mail(queue, s)
      /\ \A i \in Mail(p, s) :
            /\ i \in Nat \ {0} /\ i + 1 \in Mail(queue, s) /\ p[i] = queue[i + 1]
            /\ p[i][1] # "OPEN"
            /\ p[i][1] = "CHUNK" => p[i][3] \in 1 .. sent[s]
            /\ p[i][1] = "CLOSE" => s \notin route
      /\ \A i \in Mail(p, s) : p[i][1] = "CHUNK" => p[i][3] > Head(queue)[3]
  BY <1>1, IntakeTaken DEF OnChunk
<1>3. /\ Head(queue)[1] = "CHUNK" /\ Head(queue)[2] = s /\ alive
      /\ UNCHANGED <<pc, route, sent, astray, alive, read, closed, sessions, thread>>
  BY DEF OnChunk, HandleMessage, handlerVars
<1>4. \A i \in Mail(queue, s) : i \in Nat \ {0} /\
          (i # 1 => i - 1 \in Mail(p, s) /\ p[i - 1] = queue[i])
  <2>1. PICK q, h : q = queue /\ h = Head(queue) /\ Shorter(q, p, h)
    BY <1>1 DEF HandleMessage, TypeOK, Shorter
  <2>2. \A i \in Mail(q, s) : i \in Nat \ {0} /\ (i # 1 => i - 1 \in Mail(p, s) /\ p[i - 1] = q[i])
    BY <2>1, MailTail
  <2> QED BY <2>1, <2>2
<1>5. s \in sessions /\ s \notin closed
  <2>1. Opens(s, 1)
    BY <1>2, <1>3 DEF IntakeOf, Posted
  <2>2. ~(\E j \in Mail(queue, s) : j < 1)
    BY <1>4
  <2> QED BY <2>1, <2>2 DEF Opens, IntakeOf, Held
<1>6. PICK c, b, n, r : /\ c = Head(queue)[3] /\ b = input[s] /\ n = Len(b) /\ r = read[s]
                        /\ b \in Seq(Nat) /\ n \in Nat /\ r \in Nat
  BY LenProperties DEF TypeOK
<1>7. c \in Nat /\ Head(queue) = <<"CHUNK", s, c>>
  <2>1. Head(queue) \in Messages
    <3>1. queue \in Seq(Messages) /\ queue # <<>>
      BY DEF TypeOK, HandleMessage
    <3> QED BY <3>1, TailTyped
  <2> QED BY <1>3, <1>6, <2>1 DEF Messages
<1>8. s \notin astray =>
         /\ \A i \in 1 .. n : b[i] = r + i
         /\ Follows(queue, s, r + n) /\ Reaches(queue, s, r + n, sent[s])
         /\ thread[s] # "drained"
  BY <1>3, <1>5, <1>6, LenProperties DEF IntakeOf, Fed
\* The first in the queue is the next.
<1>9. ASSUME s \notin astray PROVE c = r + n + 1
  <2>1. \/ queue[1][3] = r + n + 1
        \/ \E j \in Mail(queue, s) : j < 1 /\ queue[j] = <<"CHUNK", s, queue[1][3] - 1>>
    BY <1>2, <1>3, <1>8, <1>9 DEF Follows
  <2> QED BY <1>2, <1>4, <1>6, <2>1
<1>10. PICK t : t = Append(b, c)
  OBVIOUS
<1>11. input'[s] = t
  BY <1>5, <1>6, <1>10 DEF OnChunk, TypeOK
<1>12. ASSUME s \notin astray
       PROVE  Len(t) = n + 1 /\ DOMAIN t = 1 .. n + 1 /\ \A i \in 1 .. n + 1 : t[i] = r + i
  <2>1. /\ Len(t) = n + 1 /\ DOMAIN t = 1 .. n + 1 /\ t[n + 1] = c
        /\ \A i \in 1 .. n : t[i] = b[i]
    BY <1>6, <1>7, <1>10, AppendProperties
  <2>2. \A i \in 1 .. n + 1 : i \in 1 .. n \/ i = n + 1
    BY <1>6
  <2>3. c = r + n + 1 /\ \A i \in 1 .. n : t[i] = r + i
    BY <1>8, <1>9, <1>12, <2>1
  <2>4. t[n + 1] = r + (n + 1)
    <3>1. r + n + 1 = r + (n + 1)
      BY <1>6
    <3> QED BY <2>1, <2>3, <3>1
  <2> QED BY <2>1, <2>2, <2>3, <2>4
<1>0. n \in Nat /\ r \in Nat
  BY <1>6
<1>13. r + Len(t) = r + n + 1 /\ r + n + 1 \in Nat
  <2>1. Len(t) = n + 1
    BY <1>6, <1>7, <1>10, AppendProperties
  <2> QED BY <1>0, <2>1
<1>14. ASSUME s \notin astray PROVE Follows(p, s, r + n + 1)
  <2> SUFFICES ASSUME NEW i \in Mail(p, s), p[i][1] = "CHUNK"
               PROVE  /\ p[i][3] > r + n + 1
                      /\ \/ p[i][3] = (r + n + 1) + 1
                         \/ \E j \in Mail(p, s) : j < i /\ p[j] = <<"CHUNK", s, p[i][3] - 1>>
    BY DEF Follows
  <2>1. i \in Nat \ {0} /\ i + 1 \in Mail(queue, s) /\ p[i] = queue[i + 1]
        /\ p[i][3] \in Nat /\ p[i][3] > c
    BY <1>2, <1>6
  <2>2. p[i][3] = r + n + 1 \/ \E j \in Mail(queue, s) : j < i + 1 /\ queue[j] = <<"CHUNK", s, p[i][3] - 1>>
    BY <1>8, <1>14, <2>1 DEF Follows
  <2>3. CASE p[i][3] = r + n + 1
    BY <1>6, <1>9, <1>14, <2>1, <2>3
  <2>4. CASE \E j \in Mail(queue, s) : j < i + 1 /\ queue[j] = <<"CHUNK", s, p[i][3] - 1>>
    <3>1. PICK j \in Mail(queue, s) : j < i + 1 /\ queue[j] = <<"CHUNK", s, p[i][3] - 1>>
      BY <2>4
    <3>2. CASE j = 1
      <4>1. p[i][3] - 1 = c
        BY <1>2, <1>7, <3>1, <3>2
      <4>2. p[i][3] \in Nat
        BY <2>1
      <4> QED BY <1>0, <1>9, <1>14, <4>1, <4>2
    <3>3. CASE j # 1
      <4>1. j - 1 \in Mail(p, s) /\ p[j - 1] = queue[j] /\ j - 1 < i
        BY <1>4, <2>1, <3>1, <3>3
      <4> QED BY <1>9, <1>14, <2>1, <3>1, <4>1
    <3> QED BY <3>2, <3>3
  <2> QED BY <2>2, <2>3, <2>4
<1>15. ASSUME s \notin astray PROVE Reaches(p, s, r + n + 1, sent[s])
  <2>0. c \in 1 .. sent[s]
    BY <1>2, <1>3, <1>6 DEF IntakeOf, Posted
  <2>1. CASE sent[s] = r + n
    BY <1>6, <1>9, <1>15, <2>0, <2>1
  <2>2. CASE sent[s] # r + n
    <3>1. PICK i \in Mail(queue, s) : queue[i] = <<"CHUNK", s, sent[s]>>
      BY <1>8, <1>15, <2>2 DEF Reaches
    <3>2. CASE i = 1
      BY <1>2, <1>7, <1>9, <1>15, <3>1, <3>2 DEF Reaches
    <3>3. CASE i # 1
      BY <1>4, <3>1, <3>3 DEF Reaches
    <3> QED BY <3>2, <3>3
  <2> QED BY <2>1, <2>2
<1>16. s \notin astray' => Fed(s)'
  BY <1>1, <1>3, <1>5, <1>6, <1>8, <1>11, <1>12, <1>13, <1>14, <1>15 DEF Fed
<1>17. Posted(s)'
  BY <1>1, <1>2, <1>3, <1>5 DEF Posted, Opens
<1>18. Begun(s)' /\ Held(s)'
  <2>1. ~(pc[s] \in {"new", "refused"})
    BY <1>2 DEF IntakeOf, Begun
  <2> QED BY <1>3, <1>5, <2>1 DEF IntakeOf, Begun, Held
<1> QED BY <1>1, <1>2, <1>16, <1>17, <1>18 DEF IntakeOf

LEMMA IntakeOnClose ==
    ASSUME TypeOK, NEW s \in Streams, IntakeOf(s), HandleMessage, OnClose(s)
    PROVE  IntakeOf(s)'
<1>1. /\ Head(queue) = queue[1] /\ 1 \in Mail(queue, s) /\ Mail(queue', s) = {}
      /\ Head(queue)[1] = "CLOSE" /\ Head(queue)[2] = s
  BY IntakeTaken DEF OnClose
<1>2. /\ alive /\ UNCHANGED <<pc, route, sent, astray, alive, read, thread>>
      /\ s \notin sessions'
  BY DEF OnClose, HandleMessage, handlerVars
<1>3. \A i \in Mail(queue, s) : i \in Nat \ {0} /\ (i # 1 => i - 1 \in Mail(queue', s))
  <2>1. PICK q, p, h : q = queue /\ p = queue' /\ h = Head(queue) /\ Shorter(q, p, h)
    BY DEF HandleMessage, TypeOK, Shorter
  <2>2. \A i \in Mail(q, s) : i \in Nat \ {0} /\ (i # 1 => i - 1 \in Mail(p, s))
    BY <2>1, MailTail
  <2> QED BY <2>1, <2>2
<1>4. Mail(queue, s) = {1}
  BY <1>1, <1>3
<1>5. s \in sessions /\ s \notin closed /\ s \notin route /\ thread[s] # None
      /\ ~(pc[s] \in {"new", "refused"})
  <2>1. Opens(s, 1) /\ s \notin route /\ ~(pc[s] \in {"new", "refused"})
    BY <1>1, <1>2 DEF IntakeOf, Posted, Begun
  <2>2. s \in sessions
    BY <1>1, <1>4, <2>1 DEF Opens
  <2> QED BY <2>1, <2>2 DEF IntakeOf, Held
<1>6. PICK b, n, r, t : /\ b = input[s] /\ n = Len(b) /\ r = read[s] /\ t = Append(b, EOF)
                        /\ b \in Seq(Nat) /\ n \in Nat /\ r \in Nat
  BY LenProperties DEF TypeOK
<1>7. ASSUME s \notin astray
      PROVE  thread[s] # "drained" /\ sent[s] = r + n /\ \A i \in 1 .. n : b[i] = r + i
  <2>1. Reaches(queue, s, r + n, sent[s])
    BY <1>2, <1>5, <1>6, <1>7 DEF IntakeOf, Fed
  <2>2. ~(\E i \in Mail(queue, s) : queue[i] = <<"CHUNK", s, sent[s]>>)
    BY <1>1, <1>4
  <2>3. thread[s] # "drained" /\ \A i \in DOMAIN b : b[i] = r + i
    BY <1>2, <1>5, <1>6, <1>7 DEF IntakeOf, Fed
  <2>4. DOMAIN b = 1 .. n
    BY <1>6, LenProperties
  <2> QED BY <2>1, <2>2, <2>3, <2>4 DEF Reaches
<1>8. input'[s] = t /\ closed' = closed \cup {s}
  BY <1>5, <1>6 DEF OnClose, TypeOK
<1>9. EOF \in Nat
  BY DEF EOF
<1>10. ASSUME s \notin astray
       PROVE  /\ Len(t) = n + 1 /\ DOMAIN t = 1 .. n + 1
              /\ \A i \in 1 .. n + 1 : t[i] = IF i = n + 1 THEN EOF ELSE r + i
  <2>1. /\ Len(t) = n + 1 /\ DOMAIN t = 1 .. n + 1 /\ t[n + 1] = EOF
        /\ \A i \in 1 .. n : t[i] = b[i]
    BY <1>6, <1>9, AppendProperties
  <2>2. \A i \in 1 .. n + 1 : i # n + 1 => i \in 1 .. n
    BY <1>6
  <2> QED BY <1>7, <1>10, <2>1, <2>2
<1>11. ASSUME s \notin astray PROVE r + (n + 1) = sent[s] + 1
  <2>1. n \in Nat /\ r \in Nat
    BY <1>6
  <2> QED BY <1>7, <1>11, <2>1
<1>12. ASSUME s \notin astray PROVE Fed(s)'
  <2>1. /\ s \in closed' /\ thread'[s] # "drained" /\ read'[s] = r /\ sent'[s] = sent[s]
        /\ input'[s] = t
    BY <1>2, <1>6, <1>7, <1>8, <1>12
  <2>2. read'[s] + Len(input'[s]) = sent'[s] + 1
    BY <1>10, <1>11, <1>12, <2>1
  <2>3. \A i \in DOMAIN input'[s] :
           input'[s][i] = IF i = Len(input'[s]) THEN EOF ELSE read'[s] + i
    BY <1>10, <1>12, <2>1
  <2> QED BY <2>1, <2>2, <2>3 DEF Fed
<1>13. Held(s)' /\ Begun(s)'
  BY <1>1, <1>2, <1>5, <1>8 DEF Held, Begun
<1>14. Posted(s)' /\ Ordered(queue', s)
  BY <1>1, <1>2, <1>5 DEF Posted, Ordered
<1> QED BY <1>2, <1>12, <1>13, <1>14 DEF IntakeOf

LEMMA IntakeDies ==
    ASSUME TypeOK, NEW s \in Streams, IntakeOf(s), WorkerDies
    PROVE  IntakeOf(s)'
<1>1. /\ ~alive' /\ sessions' = {} /\ closed' = {}
      /\ thread'[s] = IF thread[s] = None THEN None ELSE "ended"
      /\ UNCHANGED <<pc, route, sent, astray, queue>>
  BY DEF WorkerDies, handlerVars
<1>2. Begun(s)' /\ Held(s)' /\ (s \notin astray' => Fed(s)') /\ Ordered(queue', s)
  BY <1>1 DEF IntakeOf, Begun, Held, Fed
<1>3. Posted(s)'
  BY <1>1 DEF IntakeOf, Posted
<1> QED BY <1>2, <1>3 DEF IntakeOf

\* A queue that no message of stream s enters or leaves.
LEMMA MailSame == ASSUME TypeOK, NEW s PROVE Shifted(queue, queue, s, 0)
<1>1. \A i \in DOMAIN queue : i \in Nat
  BY LenProperties DEF TypeOK
<1> QED BY <1>1 DEF Shifted, Mail

LEMMA MailOfOther ==
    ASSUME TypeOK, NEW e \in Messages, queue' = Append(queue, e), NEW s, e[2] # s
    PROVE  Shifted(queue, queue', s, 0)
<1>1. PICK q, p, n : q = queue /\ p = queue' /\ n = Len(queue) /\ Longer(q, p, e, n)
  BY DEF Longer, TypeOK
<1>2. Shifted(q, p, s, 0)
  BY <1>1, MailAppend
<1> QED BY <1>1, <1>2

LEMMA MailLeft ==
    ASSUME TypeOK, HandleMessage, NEW s, Head(queue)[2] # s
    PROVE  Shifted(queue, queue', s, 1)
<1>1. PICK q, p, m : q = queue /\ p = queue' /\ m = Head(queue) /\ Shorter(q, p, m)
  BY DEF HandleMessage, TypeOK, Shorter
<1>2. m[2] # s
  BY <1>1
<1>3. Shifted(q, p, s, 1)
  BY <1>1, <1>2, MailTail
<1> QED BY <1>1, <1>3

\* A handler leaves: the other streams.
LEMMA IntakeSendClose ==
    ASSUME TypeOK, Intake, NEW s \in Streams, SendClose(s), pc[s] \notin {"new", "refused"},
           pc' = pc \/ pc' = [pc EXCEPT ![s] = "ended"],
           UNCHANGED <<sent, alive, sessions, closed, input, thread, read>>
    PROVE  Intake'
<1> SUFFICES ASSUME NEW u \in Streams PROVE IntakeOf(u)'
  BY DEF Intake
<1>1. IntakeOf(u)
  BY DEF Intake
<1>2. CASE u = s
  <2>1. pc'[s] \notin {"new", "refused"}
    BY DEF TypeOK
  <2> QED BY <1>1, <1>2, <2>1, IntakeClosing
<1>3. CASE u # s
  <2>1. Same(u)
    BY <1>3 DEF Same, SendClose, TypeOK
  <2>2. <<"CLOSE", s, 0>> \in Messages /\ <<"CLOSE", s, 0>>[2] = s
    BY DEF Messages
  <2>3. Shifted(queue, queue', u, 0)
    <3>1. CASE queue' = queue
      BY <3>1, MailSame
    <3>2. CASE queue' = Append(queue, <<"CLOSE", s, 0>>)
      BY <1>3, <2>2, <3>2, MailOfOther
    <3> QED BY <3>1, <3>2 DEF SendClose
  <2> QED BY <1>1, <2>1, <2>3, IntakeKept
<1> QED BY <1>2, <1>3

\* A step of stream s alone that puts nothing into the queue.
LEMMA IntakeAlone ==
    ASSUME TypeOK, Intake, queue' = queue, NEW s \in Streams, IntakeOf(s)',
           \A u \in Streams : u # s => Same(u)
    PROVE  Intake'
<1> SUFFICES ASSUME NEW u \in Streams, u # s PROVE IntakeOf(u)'
  BY DEF Intake
<1>1. IntakeOf(u) /\ Same(u)
  BY DEF Intake
<1>2. Shifted(queue, queue', u, 0)
  BY MailSame
<1> QED BY <1>1, <1>2, IntakeKept

\* Nothing of all this changes.
LEMMA IntakeUntouched ==
    ASSUME TypeOK, Intake,
           UNCHANGED <<queue, route, sent, astray, alive, sessions, closed, input, thread, read>>,
           \A s \in Streams : pc'[s] \in {"new", "refused"} => pc[s] \in {"new", "refused"}
    PROVE  Intake'
<1> SUFFICES ASSUME NEW s \in Streams PROVE IntakeOf(s)'
  BY DEF Intake
<1>1. IntakeOf(s) /\ Same(s)
  BY DEF Intake, Same
<1>2. Shifted(queue, queue', s, 0)
  BY MailSame
<1> QED BY <1>1, <1>2, IntakeKept

\* The input: the invariant.
LEMMA IntakeInit == Init => Intake
<1> SUFFICES ASSUME Init, NEW s \in Streams PROVE IntakeOf(s)
  BY DEF Intake
<1>1. Mail(queue, s) = {}
  BY DEF Init, Mail
<1>2. Begun(s) /\ Held(s) /\ Ordered(queue, s) /\ Posted(s)
  BY <1>1 DEF Init, Begun, Held, Ordered, Posted
<1>3. Fed(s)
  <2>1. Follows(queue, s, 0) /\ Reaches(queue, s, 0, 0)
    BY <1>1 DEF Follows, Reaches
  <2>2. input[s] = <<>> /\ Len(<<>>) = 0 /\ DOMAIN <<>> = {}
    BY DEF Init
  <2> QED BY <2>1, <2>2 DEF Init, Fed, None
<1> QED BY <1>2, <1>3 DEF IntakeOf

LEMMA IntakeNext == TypeOK /\ Intake /\ [Next]_vars => Intake'
<1> SUFFICES ASSUME TypeOK, Intake, [Next]_vars PROVE Intake'
  OBVIOUS
<1>0. \A s \in Streams : IntakeOf(s)
  BY DEF Intake
<1>1. ASSUME NEW s \in Streams, Open(s) PROVE Intake'
  <2>1. IntakeOf(s)'
    BY <1>0, <1>1, IntakeOpen
  <2>2. ASSUME NEW u \in Streams, u # s PROVE IntakeOf(u)'
    <3>1. Same(u)
      <4>1. pc'[u] = pc[u] /\ (u \in route' => u \in route)
        BY <1>1, <2>2 DEF Open, TypeOK
      <4>2. UNCHANGED <<sent, astray, thread, input, read, sessions, closed, alive>>
        BY <1>1 DEF Open, workerVars, threadVars
      <4> QED BY <4>1, <4>2 DEF Same
    <3>2. <<"OPEN", s, 0>> \in Messages /\ <<"OPEN", s, 0>>[2] = s
      BY DEF Messages
    <3>3. Shifted(queue, queue', u, 0)
      BY <1>1, <2>2, <3>2, MailSame, MailOfOther DEF Open
    <3> QED BY <1>0, <3>1, <3>3, IntakeKept
  <2> QED BY <2>1, <2>2 DEF Intake
<1>2. ASSUME NEW s \in Streams, Leave(s), Active(s),
             UNCHANGED <<sent, alive, sessions, closed, input, thread, read>>
      PROVE  Intake'
  BY <1>2, IntakeSendClose DEF Leave, Active
<1>3. ASSUME NEW s \in Streams, Chunk(s) PROVE Intake'
  <2>1. CASE Leave(s) /\ UNCHANGED sent
    BY <1>2, <1>3, <2>1 DEF Chunk, workerVars, threadVars
  <2>2. CASE /\ s \in route
             /\ sent' = [sent EXCEPT ![s] = @ + 1]
             /\ queue' = Append(queue, <<"CHUNK", s, sent'[s]>>)
             /\ UNCHANGED <<pc, route, lost, astray, bufferVars>>
    <3>1. UNCHANGED <<pc, route, astray, alive, sessions, closed, input, thread, read>>
      BY <1>3, <2>2 DEF Chunk, workerVars, threadVars
    <3>2. IntakeOf(s)'
      BY <1>0, <2>2, <3>1, IntakeChunk
    <3>3. ASSUME NEW u \in Streams, u # s PROVE IntakeOf(u)'
      <4>1. Same(u)
        <5>1. sent'[u] = sent[u]
          BY <2>2, <3>3 DEF TypeOK
        <5> QED BY <3>1, <5>1 DEF Same
      <4>2. sent'[s] \in Nat
        <5>1. sent \in [Streams -> Nat] /\ sent' = [sent EXCEPT ![s] = sent[s] + 1]
          BY <2>2 DEF TypeOK
        <5> QED BY <5>1
      <4>3. PICK e : e = <<"CHUNK", s, sent'[s]>>
        OBVIOUS
      <4>4. e \in Messages /\ e[2] = s
        BY <4>2, <4>3 DEF Messages
      <4>5. Shifted(queue, queue', u, 0)
        BY <2>2, <3>3, <4>3, <4>4, MailOfOther
      <4> QED BY <1>0, <4>1, <4>5, IntakeKept
    <3> QED BY <3>2, <3>3 DEF Intake
  <2>3. CASE /\ s \in route \cap Unversioned
             /\ sent' = [sent EXCEPT ![s] = @ + 1]
             /\ astray' = astray \cup {s}
             /\ UNCHANGED <<pc, route, lost, queue, bufferVars>>
    <3>1. UNCHANGED <<pc, route, queue, alive, sessions, closed, input, thread, read>>
      BY <1>3, <2>3 DEF Chunk, workerVars, threadVars
    <3>2. IntakeOf(s)'
      BY <1>0, <2>3, <3>1, IntakeAstray
    <3>3. \A u \in Streams : u # s => Same(u)
      BY <2>3, <3>1 DEF Same, TypeOK
    <3> QED BY <3>1, <3>2, <3>3, IntakeAlone
  <2> QED BY <1>3, <2>1, <2>2, <2>3 DEF Chunk
<1>4. ASSUME NEW s \in Streams, CloseInput(s) PROVE Intake'
  BY <1>4, IntakeSendClose DEF CloseInput, Active, workerVars, threadVars
<1>5. ASSUME NEW s \in Streams, GiveUp(s) PROVE Intake'
  BY <1>2, <1>5 DEF GiveUp, workerVars, threadVars
<1>6. ASSUME NEW s \in Streams, Wake(s) \/ Drained(s) PROVE Intake'
  <2>1. \A u \in Streams : pc'[u] \in {"new", "refused"} => pc[u] \in {"new", "refused"}
    BY <1>6 DEF Wake, Drained, TypeOK
  <2> QED BY <1>6, <2>1, IntakeUntouched DEF Wake, Drained, workerVars, threadVars
<1>7. ASSUME NEW s \in Streams, Receive(s) PROVE Intake'
  <2>1. CASE Leave(s)
    <3>1. Active(s) /\ UNCHANGED <<sent, alive, sessions, closed, input, thread, read>>
      BY <1>7 DEF Receive, Active, workerVars, threadVars
    <3> QED BY <1>2, <2>1, <3>1
  <2>2. CASE UNCHANGED <<pc, route, lost, astray, queue, registered, event>>
    BY <1>7, <2>2, IntakeUntouched DEF Receive, workerVars, threadVars
  <2> QED BY <1>7, <2>1, <2>2 DEF Receive
<1>8. ASSUME Consume \/ Signal \/ \E s \in Streams : Expire(s) \/ Output(s) PROVE Intake'
  BY <1>8, IntakeUntouched
     DEF Consume, Signal, Expire, Output, handlerVars, workerVars, threadVars
<1>9. CASE UNCHANGED vars
  BY <1>9, IntakeUntouched DEF vars, handlerVars, workerVars, threadVars
<1>10. ASSUME NEW s \in Streams, Return(s) \/ Raise(s) PROVE Intake'
  <2>1. /\ thread[s] # None /\ thread' = [thread EXCEPT ![s] = "ended"]
        /\ UNCHANGED <<pc, route, sent, astray, queue, alive, sessions, closed, input, read>>
    BY <1>10 DEF Return, Raise, None, handlerVars, workerVars
  <2>2. IntakeOf(s)'
    BY <1>0, <2>1, IntakeEnds
  <2>3. \A u \in Streams : u # s => Same(u)
    BY <2>1 DEF Same, TypeOK
  <2> QED BY <2>1, <2>2, <2>3, IntakeAlone
<1>11. ASSUME NEW s \in Streams, Read(s) PROVE Intake'
  <2>1. IntakeOf(s)'
    BY <1>0, <1>11, IntakeRead
  <2>2. queue' = queue /\ \A u \in Streams : u # s => Same(u)
    BY <1>11 DEF Read, Same, TypeOK, handlerVars
  <2> QED BY <2>1, <2>2, IntakeAlone
<1>12. CASE WorkerDies
  BY <1>0, <1>12, IntakeDies DEF Intake
<1>13. CASE HandleMessage
  <2>1. PICK s \in Streams : OnOpen(s) \/ OnChunk(s) \/ OnClose(s)
    BY <1>13 DEF HandleMessage
  <2>2. IntakeOf(s)'
    BY <1>0, <1>13, <2>1, IntakeOnOpen, IntakeOnChunk, IntakeOnClose
  <2>3. ASSUME NEW u \in Streams, u # s PROVE IntakeOf(u)'
    <3>1. Head(queue)[2] = s /\ Head(queue)[2] # u
      BY <2>1, <2>3 DEF OnOpen, OnChunk, OnClose
    <3>2. /\ UNCHANGED <<pc, route, sent, astray, alive, read>>
      BY <1>13 DEF HandleMessage, handlerVars
    <3>3. Same(u)
      <4>1. /\ thread' = thread \/ thread' = [thread EXCEPT ![s] = "running"]
            /\ input' = input \/ \E b : input' = [input EXCEPT ![s] = b]
            /\ sessions' \in {sessions, sessions \cup {s}, sessions \ {s}}
            /\ closed' \in {closed, closed \cup {s}}
        BY <2>1 DEF OnOpen, OnChunk, OnClose
      <4>2. thread'[u] = thread[u] /\ input'[u] = input[u]
        BY <2>3, <4>1 DEF TypeOK
      <4> QED BY <2>3, <3>2, <4>1, <4>2 DEF Same
    <3>4. Shifted(queue, queue', u, 1)
      BY <1>13, <3>1, MailLeft
    <3> QED BY <1>0, <3>3, <3>4, IntakeKept
  <2> QED BY <2>2, <2>3 DEF Intake
<1> QED BY <1>1, <1>3, <1>4, <1>5, <1>6, <1>7, <1>8, <1>9, <1>10, <1>11, <1>12, <1>13
        DEF Next, Handler, Thread

Sendings == Streams \X Responses

\* From a transport q to p, as far as stream s is concerned: k positions forward.
Passing(q, p, s, k) ==
    /\ \A i \in Mine(p, s) : i \in Nat /\ i + k \in Mine(q, s) /\ p[i] = q[i + k]
    /\ \A i \in Mine(q, s) : i \in Nat /\ i - k \in Mine(p, s) /\ p[i - k] = q[i]

LEMMA PassingKeeps ==
    ASSUME NEW q, NEW p, NEW s, NEW k \in Nat, Passing(q, p, s, k), NEW c, NEW t
    PROVE  /\ Mine(q, s) = {} => Mine(p, s) = {}
           /\ Numbered(q, s, c, t) => Numbered(p, s, c, t)
           /\ Rising(q, s, c) => Rising(p, s, c)
           /\ \A n : Gapless(q, s, c, n) => Gapless(p, s, c, n)
           /\ \A n : Whole(q, s, c, n) => Whole(p, s, c, n)
<1>1. /\ \A i \in Mine(p, s) : i \in Nat /\ i + k \in Mine(q, s) /\ p[i] = q[i + k]
      /\ \A i \in Mine(q, s) : i \in Nat /\ i - k \in Mine(p, s) /\ p[i - k] = q[i]
  BY DEF Passing
<1>2. Mine(q, s) = {} => Mine(p, s) = {}
  BY <1>1
<1>3. Numbered(q, s, c, t) => Numbered(p, s, c, t)
  BY <1>1 DEF Numbered
<1>4. ASSUME Rising(q, s, c) PROVE Rising(p, s, c)
  <2>1. \A i, j \in Mine(p, s) : i < j => i + k < j + k
    BY <1>1
  <2> QED BY <1>1, <1>4, <2>1 DEF Rising
<1>5. ASSUME NEW n, Gapless(q, s, c, n) PROVE Gapless(p, s, c, n)
  <2> SUFFICES ASSUME NEW i \in Mine(p, s)
               PROVE  /\ Number(c, p[i][2]) > n
                      /\ \/ Number(c, p[i][2]) = n + 1
                         \/ \E j \in Mine(p, s) :
                               j < i /\ Number(c, p[j][2]) = Number(c, p[i][2]) - 1
    BY DEF Gapless
  <2>1. i \in Nat /\ i + k \in Mine(q, s) /\ p[i] = q[i + k]
    BY <1>1
  <2>2. /\ Number(c, p[i][2]) > n
        /\ \/ Number(c, p[i][2]) = n + 1
           \/ \E j \in Mine(q, s) : j < i + k /\ Number(c, q[j][2]) = Number(c, p[i][2]) - 1
    BY <1>5, <2>1 DEF Gapless
  <2>3. ASSUME NEW j \in Mine(q, s), j < i + k
        PROVE  j - k \in Mine(p, s) /\ j - k < i /\ p[j - k] = q[j]
    BY <1>1, <2>1, <2>3
  <2> QED BY <2>2, <2>3
<1>6. ASSUME NEW n, Whole(q, s, c, n) PROVE Whole(p, s, c, n)
  BY <1>1, <1>6 DEF Whole
<1> QED BY <1>2, <1>3, <1>4, <1>5, <1>6

\* The number of a response does not depend on how its thread ends.
LEMMA NumberedEnds ==
    ASSUME NEW q, NEW s, NEW c, NEW t, Numbered(q, s, c, t), NEW u, t = "ended" => u = "ended"
    PROVE  Numbered(q, s, c, u)
BY DEF Numbered, Fits

\* What a step leaves of a stream, or takes away from it.
Steady(s) ==
    /\ received'[s] = received[s] /\ inbox'[s] = inbox[s] /\ produced'[s] = produced[s]
    /\ thread[s] = "ended" => thread'[s] = "ended"
    /\ thread'[s] = None => thread[s] = None
    /\ s \in registered' => s \in registered /\ pc'[s] \in {"waiting", "draining"}
    /\ alive' => alive

LEMMA OutgoingKept ==
    ASSUME TypeOK, NEW s \in Streams, OutgoingOf(s), Steady(s),
           NEW k \in {0, 1}, Passing(transport, transport', s, k)
    PROVE  OutgoingOf(s)'
<1>1. PICK q, p, c, t, u, n : /\ q = transport /\ p = transport' /\ c = produced[s]
                              /\ t = thread[s] /\ u = thread'[s] /\ n = Passed(s)
  OBVIOUS
<1>2. Passing(q, p, s, k) /\ k \in Nat
  BY <1>1
<1>3. /\ Mine(q, s) = {} => Mine(p, s) = {}
      /\ Numbered(q, s, c, t) => Numbered(p, s, c, t)
      /\ Rising(q, s, c) => Rising(p, s, c)
      /\ Gapless(q, s, c, n) => Gapless(p, s, c, n)
      /\ Whole(q, s, c, n) => Whole(p, s, c, n)
  BY <1>2, PassingKeeps
<1>4. Gone(s)'
  BY DEF OutgoingOf, Gone, Fits, Steady
<1>5. /\ Numbered(q, s, c, t) /\ Rising(q, s, c)
      /\ s \in registered => Gapless(q, s, c, n)
      /\ alive /\ s \in registered => Whole(q, s, c, n)
      /\ t = None => c = 0 /\ Mine(q, s) = {}
  BY <1>1 DEF OutgoingOf, Underway
<1>6. Numbered(p, s, c, u)
  <2>1. t = "ended" => u = "ended"
    BY <1>1 DEF Steady
  <2> QED BY <1>3, <1>5, <2>1, NumberedEnds
<1>7. /\ produced'[s] = c /\ Passed(s)' = n
      /\ s \in registered' => s \in registered /\ Active(s)'
      /\ alive' => alive /\ (u = None => t = None)
  BY <1>1 DEF Steady, Passed, Active
<1>8. alive' => alive
  BY DEF Steady
<1>9. u = None => t = None
  BY <1>1 DEF Steady
<1>10. Underway(s)'
  BY <1>1, <1>3, <1>5, <1>6, <1>7, <1>8, <1>9 DEF Underway
<1> QED BY <1>4, <1>10 DEF OutgoingOf

\* p is the transport q, of n messages, with response m of stream s.
Sent(q, p, s, m, n) ==
    /\ q \in Seq(Sendings) /\ s \in Streams /\ m \in Responses
    /\ p = Append(q, <<s, m>>) /\ n = Len(q)

LEMMA MineAppend ==
    ASSUME NEW q, NEW p, NEW s, NEW m, NEW n, Sent(q, p, s, m, n)
    PROVE  /\ n \in Nat
           /\ \A i \in Mine(q, s) : i \in Nat /\ i < n + 1 /\ i \in Mine(p, s) /\ p[i] = q[i]
           /\ \A i \in Mine(p, s) : i \in Mine(q, s) \/ i = n + 1
           /\ n + 1 \in Mine(p, s) /\ p[n + 1][2] = m
           /\ \A u : u # s => Passing(q, p, u, 0)
<1>1. <<s, m>> \in Sendings /\ <<s, m>>[1] = s /\ <<s, m>>[2] = m
  BY DEF Sent, Sendings
<1>2. PICK e : e = <<s, m>>
  OBVIOUS
<1>3. n \in Nat
  BY LenProperties DEF Sent
<1>4. /\ DOMAIN q = 1 .. n /\ DOMAIN p = DOMAIN q \cup {n + 1} /\ p[n + 1] = e
      /\ \A i \in DOMAIN q : p[i] = q[i]
  BY <1>1, <1>2, <1>3, AppendOf, LenProperties DEF Sent
<1>5. \A i \in DOMAIN p : i \in Nat /\ i + 0 = i /\ i - 0 = i
  BY <1>3, <1>4
<1>6. e[1] = s /\ e[2] = m
  BY <1>1, <1>2
<1>7. /\ \A i \in Mine(q, s) : i \in Nat /\ i < n + 1 /\ i \in Mine(p, s) /\ p[i] = q[i]
      /\ \A i \in Mine(p, s) : i \in Mine(q, s) \/ i = n + 1
      /\ n + 1 \in Mine(p, s) /\ p[n + 1][2] = m
  BY <1>3, <1>4, <1>6 DEF Mine
<1>8. ASSUME NEW u, u # s PROVE Passing(q, p, u, 0)
  BY <1>4, <1>5, <1>6, <1>8 DEF Mine, Passing
<1> QED BY <1>3, <1>7, <1>8

\* A thread puts its next output, or ends with a final response.
LEMMA PutNext ==
    ASSUME NEW q, NEW p, NEW s, NEW m, NEW z, Sent(q, p, s, m, z),
           NEW c \in Nat, NEW d \in Nat, NEW t, NEW u, t # "ended",
           Numbered(q, s, c, t), Rising(q, s, c),
           \/ d = c + 1 /\ m[1] = "OK" /\ m[2] = d
           \/ d = c /\ m[1] \in Finals /\ u = "ended"
    PROVE  /\ Numbered(p, s, d, u) /\ Rising(p, s, d)
           /\ \A n \in Nat : n <= c /\ Gapless(q, s, c, n) /\ Whole(q, s, c, n) =>
                  Gapless(p, s, d, n) /\ Whole(p, s, d, n)
<1>1. /\ z \in Nat
      /\ \A i \in Mine(q, s) : i \in Nat /\ i < z + 1 /\ i \in Mine(p, s) /\ p[i] = q[i]
      /\ \A i \in Mine(p, s) : i \in Mine(q, s) \/ i = z + 1
      /\ z + 1 \in Mine(p, s) /\ p[z + 1][2] = m
  BY MineAppend
<1>2. Number(d, m) = c + 1 /\ Fits(d, u, m, c + 1)
  BY DEF Number, Fits, Finals
<1>3. ASSUME NEW i \in Mine(q, s)
      PROVE  LET r == q[i][2] IN
             /\ Number(d, r) = Number(c, r) /\ Number(c, r) \in 1 .. c /\ Fits(d, u, r, Number(c, r))
  <2>1. PICK r, n : r = q[i][2] /\ n = Number(c, r)
    OBVIOUS
  <2>2. Fits(c, t, r, n)
    BY <2>1 DEF Numbered
  <2>3. n \in 1 .. c + 1 /\ n # c + 1
    BY <2>2 DEF Fits
  <2>4. r[1] = "OK" /\ n = r[2]
    BY <2>1, <2>3 DEF Number
  <2> QED BY <2>1, <2>3, <2>4 DEF Number, Fits
<1>4. Numbered(p, s, d, u)
  BY <1>1, <1>2, <1>3 DEF Numbered
<1>5. Rising(p, s, d)
  BY <1>1, <1>2, <1>3 DEF Rising
<1>6. ASSUME NEW n \in Nat, n <= c, Gapless(q, s, c, n), Whole(q, s, c, n)
      PROVE  Gapless(p, s, d, n)
  <2>1. ASSUME NEW i \in Mine(q, s)
        PROVE  /\ Number(d, p[i][2]) > n
               /\ \/ Number(d, p[i][2]) = n + 1
                  \/ \E j \in Mine(p, s) :
                        j < i /\ Number(d, p[j][2]) = Number(d, p[i][2]) - 1
    <3>1. p[i] = q[i] /\ Number(d, p[i][2]) = Number(c, q[i][2])
      BY <1>1, <1>3
    <3>2. \A j \in Mine(q, s) :
             j \in Mine(p, s) /\ p[j] = q[j] /\ Number(d, p[j][2]) = Number(c, q[j][2])
      BY <1>1, <1>3
    <3> QED BY <1>6, <3>1, <3>2 DEF Gapless
  <2>2. /\ c + 1 > n
        /\ c + 1 = n + 1 \/ \E j \in Mine(p, s) : j < z + 1 /\ Number(d, p[j][2]) = c
    BY <1>1, <1>3, <1>6 DEF Whole
  <2> QED BY <1>1, <1>2, <2>1, <2>2 DEF Gapless
<1>7. ASSUME NEW n \in Nat, n <= c, Whole(q, s, c, n) PROVE Whole(p, s, d, n)
  <2>1. CASE d = c + 1
    BY <1>1, <1>2, <2>1 DEF Whole
  <2>2. CASE d = c
    BY <1>1, <1>3, <1>7, <2>2 DEF Whole
  <2> QED BY <2>1, <2>2
<1> QED BY <1>4, <1>5, <1>6, <1>7

\* p is the transport q without its head <<s, m>>.
Taken(q, p, s, m) ==
    q \in Seq(Sendings) /\ q # <<>> /\ p = Tail(q) /\ s = Head(q)[1] /\ m = Head(q)[2]

LEMMA MineTail ==
    ASSUME NEW q, NEW p, NEW s, NEW m, Taken(q, p, s, m)
    PROVE  /\ \A i \in Mine(p, s) : i \in Nat \ {0} /\ i + 1 \in Mine(q, s) /\ p[i] = q[i + 1]
           /\ \A i \in Mine(q, s) :
                 i \in Nat \ {0} /\ (i # 1 => i - 1 \in Mine(p, s) /\ p[i - 1] = q[i])
           /\ 1 \in Mine(q, s) /\ q[1][2] = m
           /\ s \in Streams /\ m \in Responses
           /\ \A u : u # s => Passing(q, p, u, 1)
<1>1. PICK n : n = Len(q) /\ n \in Nat \ {0}
  BY EmptySeq, LenProperties DEF Taken
<1>2. /\ DOMAIN q = 1 .. n /\ DOMAIN p = 1 .. n - 1 /\ Head(q) = q[1] /\ q[1] \in Sendings
      /\ \A i \in 1 .. n - 1 : p[i] = q[i + 1]
  BY <1>1, HeadTailProperties, LenProperties DEF Taken
<1>3. \A i \in 1 .. n - 1 : i \in Nat \ {0} /\ i + 1 \in 1 .. n
  BY <1>1
<1>4. \A i \in 1 .. n : i # 1 => i - 1 \in 1 .. n - 1 /\ (i - 1) + 1 = i
  BY <1>1
<1>5. 1 \in 1 .. n
  BY <1>1
<1>6. q[1][1] = s /\ q[1][2] = m
  BY <1>2 DEF Taken
<1>7. s \in Streams /\ m \in Responses
  BY <1>2, <1>6 DEF Sendings
<1>8. ASSUME NEW u
      PROVE  /\ \A i \in Mine(p, u) : i \in Nat \ {0} /\ i + 1 \in Mine(q, u) /\ p[i] = q[i + 1]
             /\ \A i \in Mine(q, u) :
                   i \in Nat \ {0} /\ (i # 1 => i - 1 \in Mine(p, u) /\ p[i - 1] = q[i])
             /\ 1 \in Mine(q, u) <=> u = s
  <2>1. \A i \in Mine(p, u) : i \in Nat \ {0} /\ i + 1 \in Mine(q, u) /\ p[i] = q[i + 1]
    BY <1>2, <1>3 DEF Mine
  <2>2. \A i \in Mine(q, u) :
           i \in Nat \ {0} /\ (i # 1 => i - 1 \in Mine(p, u) /\ p[i - 1] = q[i])
    BY <1>1, <1>2, <1>4 DEF Mine
  <2>3. 1 \in Mine(q, u) <=> u = s
    BY <1>2, <1>5, <1>6 DEF Mine
  <2> QED BY <2>1, <2>2, <2>3
<1>9. ASSUME NEW u, u # s PROVE Passing(q, p, u, 1)
  BY <1>8, <1>9 DEF Passing
<1> QED BY <1>6, <1>7, <1>8, <1>9

\* The first message of a stream leaves the transport.
LEMMA TakeNext ==
    ASSUME NEW q, NEW p, NEW s, NEW m, Taken(q, p, s, m), NEW c \in Nat, NEW t,
           Numbered(q, s, c, t), Rising(q, s, c)
    PROVE  /\ Numbered(p, s, c, t) /\ Rising(p, s, c)
           /\ \A n \in Nat : Gapless(q, s, c, n) =>
                  Fits(c, t, m, n + 1) /\ Gapless(p, s, c, n + 1)
           /\ \A n \in Nat : Gapless(q, s, c, n) /\ Whole(q, s, c, n) => Whole(p, s, c, n + 1)
<1>1. /\ \A i \in Mine(p, s) : i \in Nat \ {0} /\ i + 1 \in Mine(q, s) /\ p[i] = q[i + 1]
      /\ \A i \in Mine(q, s) :
            i \in Nat \ {0} /\ (i # 1 => i - 1 \in Mine(p, s) /\ p[i - 1] = q[i])
      /\ 1 \in Mine(q, s) /\ q[1][2] = m
  BY MineTail
<1>2. Numbered(p, s, c, t)
  BY <1>1 DEF Numbered
<1>3. Rising(p, s, c)
  <2>1. \A i, j \in Mine(p, s) : i < j => i + 1 < j + 1
    BY <1>1
  <2> QED BY <1>1, <2>1 DEF Rising
<1>4. ASSUME NEW n \in Nat, Gapless(q, s, c, n)
      PROVE  Number(c, m) = n + 1 /\ Fits(c, t, m, n + 1)
  <2>1. Number(c, m) = n + 1
    BY <1>1, <1>4 DEF Gapless
  <2> QED BY <1>1, <2>1 DEF Numbered
<1>5. ASSUME NEW n \in Nat, Gapless(q, s, c, n) PROVE Gapless(p, s, c, n + 1)
  <2> SUFFICES ASSUME NEW i \in Mine(p, s)
               PROVE  /\ Number(c, p[i][2]) > n + 1
                      /\ \/ Number(c, p[i][2]) = (n + 1) + 1
                         \/ \E j \in Mine(p, s) :
                               j < i /\ Number(c, p[j][2]) = Number(c, p[i][2]) - 1
    BY DEF Gapless
  <2>1. i \in Nat \ {0} /\ i + 1 \in Mine(q, s) /\ p[i] = q[i + 1] /\ 1 < i + 1
    BY <1>1
  <2>2. Number(c, p[i][2]) > n + 1 /\ Number(c, p[i][2]) \in Nat
    <3>1. Number(c, q[1][2]) < Number(c, q[i + 1][2])
      BY <1>1, <2>1 DEF Rising
    <3>2. Number(c, q[i + 1][2]) \in Nat
      BY <2>1 DEF Numbered, Fits
    <3> QED BY <1>1, <1>4, <1>5, <2>1, <3>1, <3>2
  <2>3. PICK j \in Mine(q, s) : j < i + 1 /\ Number(c, q[j][2]) = Number(c, p[i][2]) - 1
    BY <1>5, <2>1, <2>2 DEF Gapless
  <2>4. CASE j = 1
    <3>1. Number(c, p[i][2]) = (n + 1) + 1
      <4>1. Number(c, q[j][2]) = n + 1
        BY <1>1, <1>4, <1>5, <2>4
      <4> QED BY <2>2, <2>3, <4>1
    <3> QED BY <2>2, <3>1
  <2>5. CASE j # 1
    <3>1. j - 1 \in Mine(p, s) /\ p[j - 1] = q[j] /\ j - 1 < i
      BY <1>1, <2>1, <2>3, <2>5
    <3> QED BY <2>2, <2>3, <3>1
  <2> QED BY <2>4, <2>5
<1>6. ASSUME NEW n \in Nat, Gapless(q, s, c, n), Whole(q, s, c, n) PROVE Whole(p, s, c, n + 1)
  <2>1. CASE n >= c
    BY <2>1 DEF Whole
  <2>2. ASSUME NEW i \in Mine(q, s), Number(c, q[i][2]) = c PROVE Whole(p, s, c, n + 1)
    <3>1. CASE i = 1
      BY <1>1, <1>4, <1>6, <2>2, <3>1 DEF Whole
    <3>2. CASE i # 1
      BY <1>1, <2>2, <3>2 DEF Whole
    <3> QED BY <3>1, <3>2
  <2> QED BY <1>6, <2>1, <2>2 DEF Whole
<1> QED BY <1>2, <1>3, <1>4, <1>5, <1>6

\* What is left of a transport if its end is lost.
Cut(q, p, l) == q \in Seq(Sendings) /\ l \in 0 .. Len(q) /\ p = SubSeq(q, 1, l)

LEMMA PrefixKeeps ==
    ASSUME NEW q, NEW p, NEW l, Cut(q, p, l), NEW s, NEW c, NEW t
    PROVE  /\ Mine(q, s) = {} => Mine(p, s) = {}
           /\ Numbered(q, s, c, t) => Numbered(p, s, c, t)
           /\ Rising(q, s, c) => Rising(p, s, c)
           /\ \A n : Gapless(q, s, c, n) => Gapless(p, s, c, n)
<1>1. DOMAIN p = 1 .. l /\ DOMAIN q = 1 .. Len(q) /\ \A i \in 1 .. l : p[i] = q[i]
  <2>1. q \in Seq(Sendings) /\ Len(q) \in Nat /\ l \in 0 .. Len(q)
    BY LenProperties DEF Cut
  <2>2. 1 \in 1 .. Len(q) + 1 /\ l \in 1 - 1 .. Len(q)
    BY <2>1
  <2>3. /\ Len(SubSeq(q, 1, l)) = l /\ SubSeq(q, 1, l) \in Seq(Sendings)
        /\ \A i \in 1 .. l : SubSeq(q, 1, l)[i] = q[i]
    <3>1. \A i \in 1 .. l : 1 + i - 1 = i
      BY <2>1
    <3> QED BY <2>1, <2>2, <3>1, SubSeqProperties
  <2> QED BY <2>1, <2>3, LenProperties DEF Cut
<1>2. Len(q) \in Nat /\ l \in Nat /\ l <= Len(q)
  BY LenProperties DEF Cut
<1>3. \A i \in Mine(p, s) : i \in Nat /\ i \in Mine(q, s) /\ p[i] = q[i]
  BY <1>1, <1>2 DEF Mine
<1>4. \A i \in Mine(p, s), j \in Mine(q, s) : j < i => j \in Mine(p, s)
  BY <1>1, <1>2 DEF Mine
<1>5. Mine(q, s) = {} => Mine(p, s) = {}
  BY <1>3
<1>6. Numbered(q, s, c, t) => Numbered(p, s, c, t)
  BY <1>3 DEF Numbered
<1>7. Rising(q, s, c) => Rising(p, s, c)
  BY <1>3 DEF Rising
<1>8. \A n : Gapless(q, s, c, n) => Gapless(p, s, c, n)
  BY <1>3, <1>4 DEF Gapless
<1> QED BY <1>5, <1>6, <1>7, <1>8

\* Before its thread has ended a stream has only outputs.
LEMMA FitsRunning ==
    ASSUME NEW c \in Nat, NEW t, NEW r, NEW i, Fits(c, t, r, i), t # "ended"
    PROVE  i \in 1 .. c /\ r[1] = "OK" /\ r[2] = i
BY DEF Fits, Number

LEMMA PassedRunning ==
    ASSUME TypeOK, NEW s \in Streams, Gone(s), thread[s] # "ended"
    PROVE  Passed(s) \in 0 .. produced[s]
<1>1. PICK c, k, l : c = produced[s] /\ k = Len(received[s]) /\ l = Len(inbox[s])
  OBVIOUS
<1>2. c \in Nat /\ k \in Nat /\ l \in Nat /\ DOMAIN received[s] = 1 .. k /\ DOMAIN inbox[s] = 1 .. l
  BY <1>1, LenProperties DEF TypeOK
<1>3. \A i \in 1 .. k : i \in 1 .. c
  BY <1>1, <1>2, FitsRunning DEF Gone
<1>4. \A i \in 1 .. l : k + i \in 1 .. c
  BY <1>1, <1>2, FitsRunning DEF Gone
<1>5. k = 0 \/ k \in 1 .. c
  BY <1>2, <1>3
<1>6. l = 0 \/ k + l \in 1 .. c
  BY <1>2, <1>4
<1>7. k + l \in 0 .. c
  BY <1>2, <1>5, <1>6
<1> QED BY <1>1, <1>7 DEF Passed

\* What has come out stays what it is.
LEMMA GoneKept ==
    ASSUME TypeOK, NEW s \in Streams, Gone(s), received'[s] = received[s], inbox'[s] = inbox[s],
           thread[s] # "ended", produced'[s] \in {produced[s], produced[s] + 1}
    PROVE  Gone(s)'
<1>1. PICK c, d, t, u : c = produced[s] /\ d = produced'[s] /\ t = thread[s] /\ u = thread'[s]
  OBVIOUS
<1>2. c \in Nat /\ d \in {c, c + 1} /\ t # "ended"
  BY <1>1 DEF TypeOK
<1>3. ASSUME NEW r, NEW i, Fits(c, t, r, i) PROVE Fits(d, u, r, i)
  <2>1. i \in 1 .. c /\ r[1] = "OK" /\ r[2] = i
    BY <1>2, <1>3, FitsRunning
  <2> QED BY <1>2, <2>1 DEF Fits, Number
<1> QED BY <1>1, <1>3 DEF Gone

LEMMA OutgoingPut ==
    ASSUME TypeOK, NEW s \in Streams, OutgoingOf(s), thread[s] \notin {None, "ended"}, alive,
           NEW m \in Responses, transport' = Append(transport, <<s, m>>),
           UNCHANGED <<pc, alive, registered, inbox, received>>,
           \/ produced'[s] = produced[s] + 1 /\ m[1] = "OK" /\ m[2] = produced'[s]
              /\ thread'[s] = thread[s]
           \/ produced'[s] = produced[s] /\ m[1] \in Finals /\ thread'[s] = "ended"
    PROVE  OutgoingOf(s)'
<1>1. PICK q, p, c, d, t, u, n, z :
          /\ q = transport /\ p = transport' /\ c = produced[s] /\ d = produced'[s]
          /\ t = thread[s] /\ u = thread'[s] /\ n = Passed(s) /\ z = Len(transport)
  OBVIOUS
<1>2. Gone(s)'
  BY GoneKept DEF OutgoingOf
<1>3. n \in Nat /\ n <= c /\ c \in Nat /\ d \in Nat
  BY <1>1, PassedRunning DEF OutgoingOf, TypeOK
<1>4. Sent(q, p, s, m, z)
  BY <1>1 DEF Sent, TypeOK, Sendings
<1>5. /\ Numbered(q, s, c, t) /\ Rising(q, s, c) /\ t # "ended"
      /\ s \in registered => Active(s) /\ Gapless(q, s, c, n) /\ Whole(q, s, c, n)
  BY <1>1 DEF OutgoingOf, Underway
<1>6. \/ d = c + 1 /\ m[1] = "OK" /\ m[2] = d
      \/ d = c /\ m[1] \in Finals /\ u = "ended"
  BY <1>1
<1>7. /\ Numbered(p, s, d, u) /\ Rising(p, s, d)
      /\ s \in registered => Gapless(p, s, d, n) /\ Whole(p, s, d, n)
  BY <1>3, <1>4, <1>5, <1>6, PutNext
<1>8. Passed(s)' = n /\ u # None /\ (s \in registered' => s \in registered /\ Active(s)')
  BY <1>1, <1>5 DEF Passed, Active, None
<1>9. Underway(s)'
  BY <1>1, <1>7, <1>8 DEF Underway
<1> QED BY <1>2, <1>9 DEF OutgoingOf

\* Of the other streams nothing is put.
LEMMA PassingPut ==
    ASSUME TypeOK, NEW s \in Streams, NEW m \in Responses,
           transport' = Append(transport, <<s, m>>), NEW v, v # s
    PROVE  Passing(transport, transport', v, 0)
<1>1. PICK q, p, z : q = transport /\ p = transport' /\ z = Len(transport)
  OBVIOUS
<1>2. Sent(q, p, s, m, z)
  BY <1>1 DEF Sent, TypeOK, Sendings
<1> QED BY <1>1, <1>2, MineAppend

LEMMA PassingSame == ASSUME TypeOK, NEW s PROVE Passing(transport, transport, s, 0)
<1>1. \A i \in DOMAIN transport : i \in Nat /\ i + 0 = i /\ i - 0 = i
  <2>1. DOMAIN transport = 1 .. Len(transport) /\ Len(transport) \in Nat
    BY LenProperties DEF TypeOK
  <2> QED BY <2>1
<1> QED BY <1>1 DEF Passing, Mine

\* The consumer takes a message of stream s.
LEMMA OutgoingConsume ==
    ASSUME TypeOK, NEW s \in Streams, OutgoingOf(s), Consume, Head(transport)[1] = s
    PROVE  OutgoingOf(s)'
<1>1. PICK q, p, m, c, t, n :
          /\ q = transport /\ p = transport' /\ m = Head(transport)[2]
          /\ c = produced[s] /\ t = thread[s] /\ n = Passed(s)
  OBVIOUS
<1>2. c \in Nat /\ Taken(q, p, s, m)
  BY <1>1 DEF Consume, Taken, TypeOK, Sendings
<1>3. n \in Nat /\ Len(received[s]) \in Nat /\ Len(inbox[s]) \in Nat
  BY <1>1, LenProperties DEF TypeOK, Passed
<1>4. /\ Numbered(q, s, c, t) /\ Rising(q, s, c)
      /\ s \in registered => Active(s) /\ Gapless(q, s, c, n)
      /\ alive /\ s \in registered => Whole(q, s, c, n)
      /\ t = None => c = 0 /\ Mine(q, s) = {}
  BY <1>1 DEF OutgoingOf, Underway
<1>5. /\ Numbered(p, s, c, t) /\ Rising(p, s, c)
      /\ s \in registered => Fits(c, t, m, n + 1) /\ Gapless(p, s, c, n + 1)
      /\ alive /\ s \in registered => Whole(p, s, c, n + 1)
  BY <1>2, <1>3, <1>4, TakeNext
<1>6. 1 \in Mine(q, s)
  BY <1>2, MineTail
<1>7. UNCHANGED <<pc, alive, thread, produced, registered, received>>
  BY DEF Consume, handlerVars, workerVars, threadVars
<1>8. CASE s \in registered
  <2>1. inbox' = [inbox EXCEPT ![s] = Append(inbox[s], m)]
    BY <1>1, <1>8 DEF Consume
  <2>2. inbox'[s] = Append(inbox[s], m) /\ m \in Responses /\ inbox[s] \in Seq(Responses)
    BY <1>2, <2>1, MineTail DEF TypeOK
  <2>3. PICK b, x, k, l : b = inbox[s] /\ x = inbox'[s] /\ k = Len(received[s]) /\ l = Len(inbox[s])
    OBVIOUS
  <2>4. /\ DOMAIN x = DOMAIN b \cup {l + 1} /\ x[l + 1] = m /\ Len(x) = l + 1
        /\ \A i \in DOMAIN b : x[i] = b[i]
    BY <2>2, <2>3, AppendOf
  <2>5. n = k + l /\ k \in Nat /\ l \in Nat
    BY <1>1, <1>3, <2>3 DEF Passed
  <2>6. Passed(s)' = n + 1
    <3>1. Passed(s)' = k + (l + 1)
      BY <1>7, <2>3, <2>4 DEF Passed
    <3> QED BY <2>5, <3>1
  <2>7. k + (l + 1) = n + 1
    BY <2>5
  <2>8. \A i \in DOMAIN x : Fits(c, t, x[i], k + i)
    <3>1. \A i \in DOMAIN b : Fits(c, t, b[i], k + i)
      BY <1>1, <2>3 DEF OutgoingOf, Gone
    <3> QED BY <1>5, <1>8, <2>4, <2>7, <3>1
  <2>9. Gone(s)'
    BY <1>1, <1>7, <2>3, <2>8 DEF OutgoingOf, Gone
  <2>10. Underway(s)'
    BY <1>1, <1>4, <1>5, <1>6, <1>7, <1>8, <2>6 DEF Underway, Active
  <2> QED BY <2>9, <2>10 DEF OutgoingOf
<1>9. CASE s \notin registered
  <2>1. inbox' = inbox
    BY <1>9 DEF Consume
  <2>2. Gone(s)'
    BY <1>7, <2>1 DEF OutgoingOf, Gone
  <2>3. Underway(s)'
    BY <1>1, <1>4, <1>5, <1>6, <1>7, <1>9 DEF Underway
  <2> QED BY <2>2, <2>3 DEF OutgoingOf
<1> QED BY <1>8, <1>9

LEMMA PassingConsume ==
    ASSUME TypeOK, Consume, NEW v, v # Head(transport)[1]
    PROVE  Passing(transport, transport', v, 1)
<1>1. PICK q, p, s, m : q = transport /\ p = transport' /\ s = Head(transport)[1]
                        /\ m = Head(transport)[2]
  OBVIOUS
<1>2. Taken(q, p, s, m)
  BY <1>1 DEF Consume, Taken, TypeOK, Sendings
<1> QED BY <1>1, <1>2, MineTail

\* A stream that is not in the buffer any more.
LEMMA OutgoingLeft ==
    ASSUME TypeOK, NEW s \in Streams, OutgoingOf(s), s \notin registered', Gone(s)',
           UNCHANGED <<transport, thread, produced>>
    PROVE  OutgoingOf(s)'
BY DEF OutgoingOf, Underway

LEMMA GoneLeft ==
    ASSUME TypeOK, NEW s \in Streams, Gone(s), Leave(s), UNCHANGED <<received, thread, produced>>
    PROVE  Gone(s)'
<1>1. inbox'[s] = <<>> /\ DOMAIN <<>> = {}
  BY DEF Leave, TypeOK
<1> QED BY <1>1 DEF Gone

\* The handler takes the head of the response queue.
LEMMA GoneReceived ==
    ASSUME TypeOK, NEW s \in Streams, Gone(s), inbox[s] # <<>>,
           received' = [received EXCEPT ![s] = Append(@, Head(inbox[s]))],
           inbox'[s] \in {Tail(inbox[s]), <<>>}, UNCHANGED <<thread, produced>>
    PROVE  Gone(s)' /\ (inbox'[s] = Tail(inbox[s]) => Passed(s)' = Passed(s))
<1>1. PICK b, x, g, h, k, l, c, t :
          /\ b = inbox[s] /\ x = inbox'[s] /\ g = received[s] /\ h = received'[s]
          /\ k = Len(received[s]) /\ l = Len(inbox[s]) /\ c = produced[s] /\ t = thread[s]
  OBVIOUS
<1>2. b \in Seq(Responses) /\ g \in Seq(Responses) /\ h = Append(g, Head(b)) /\ b # <<>>
  BY <1>1 DEF TypeOK
<1>3. k \in Nat /\ DOMAIN g = 1 .. k /\ l \in Nat \ {0} /\ DOMAIN b = 1 .. l
  BY <1>1, <1>2, EmptySeq, LenProperties
<1>4. Head(b) = b[1] /\ Head(b) \in Responses
  BY <1>2, HeadTailProperties
<1>5. DOMAIN h = DOMAIN g \cup {k + 1} /\ h[k + 1] = b[1] /\ Len(h) = k + 1
      /\ \A i \in DOMAIN g : h[i] = g[i]
  BY <1>1, <1>2, <1>4, AppendOf
<1>6. x = Tail(b) => DOMAIN x = 1 .. l - 1 /\ Len(x) = l - 1 /\ \A i \in 1 .. l - 1 : x[i] = b[i + 1]
  BY <1>1, <1>2, HeadTailProperties, LenProperties
<1>7. x = Tail(b) \/ x = <<>>
  BY <1>1
<1>8. /\ \A i \in 1 .. k : Fits(c, t, g[i], i)
      /\ \A i \in 1 .. l : Fits(c, t, b[i], k + i)
  BY <1>1, <1>3 DEF Gone
<1>9. \A i \in DOMAIN h : Fits(c, t, h[i], i)
  <2>1. 1 \in 1 .. l
    BY <1>3
  <2> QED BY <1>3, <1>5, <1>8, <2>1
<1>10. \A i \in DOMAIN x : Fits(c, t, x[i], (k + 1) + i)
  <2>1. CASE x = Tail(b)
    <3>1. \A i \in 1 .. l - 1 : i + 1 \in 1 .. l /\ k + (i + 1) = (k + 1) + i
      BY <1>3
    <3> QED BY <1>6, <1>8, <2>1, <3>1
  <2>2. CASE x = <<>>
    BY <2>2
  <2> QED BY <1>7, <2>1, <2>2
<1>11. Gone(s)'
  BY <1>1, <1>5, <1>9, <1>10 DEF Gone
<1>12. ASSUME x = Tail(b) PROVE Passed(s)' = Passed(s)
  <2>1. Passed(s)' = (k + 1) + (l - 1) /\ Passed(s) = k + l
    BY <1>1, <1>5, <1>6, <1>12 DEF Passed
  <2> QED BY <1>3, <2>1
<1> QED BY <1>1, <1>11, <1>12

LEMMA OutgoingReceive ==
    ASSUME TypeOK, NEW s \in Streams, OutgoingOf(s), Receive(s)
    PROVE  OutgoingOf(s)'
<1>1. /\ received' = [received EXCEPT ![s] = Append(@, Head(inbox[s]))] /\ inbox[s] # <<>>
      /\ UNCHANGED <<transport, thread, produced, alive>>
  BY DEF Receive, threadVars, consumerVars, workerVars
<1>2. CASE Leave(s)
  <2>1. inbox'[s] = <<>> /\ s \notin registered'
    BY <1>2 DEF Leave, TypeOK
  <2>2. Gone(s)'
    BY <1>1, <2>1, GoneReceived DEF OutgoingOf
  <2> QED BY <1>1, <2>1, <2>2, OutgoingLeft
<1>3. CASE inbox' = [inbox EXCEPT ![s] = Tail(@)] /\ UNCHANGED <<pc, registered>>
  <2>1. inbox'[s] = Tail(inbox[s])
    BY <1>3 DEF TypeOK
  <2>2. Gone(s)' /\ Passed(s)' = Passed(s)
    BY <1>1, <2>1, GoneReceived DEF OutgoingOf
  <2>3. Underway(s)'
    BY <1>1, <1>3, <2>2 DEF OutgoingOf, Underway, Active
  <2> QED BY <2>2, <2>3 DEF OutgoingOf
<1> QED BY <1>2, <1>3 DEF Receive

\* Nothing has been put or received of a stream that is opened.
LEMMA OutgoingOpen ==
    ASSUME TypeOK, NEW s \in Streams, IntakeOf(s), OutgoingOf(s), Open(s)
    PROVE  OutgoingOf(s)'
<1>1. /\ thread[s] = None /\ produced[s] = 0 /\ Mine(transport, s) = {}
  BY DEF Open, IntakeOf, Begun, OutgoingOf, Underway
<1>2. UNCHANGED <<transport, thread, produced, alive, inbox, received>>
  BY DEF Open, workerVars, threadVars, consumerVars
<1>3. Gone(s)'
  BY <1>2 DEF OutgoingOf, Gone
<1>4. Passed(s)' \in Nat
  BY <1>2, LenProperties DEF TypeOK, Passed
<1>5. s \in registered' => Active(s)'
  BY DEF Open, Active, TypeOK, OutgoingOf, Underway
<1>6. Underway(s)'
  <2>1. PICK n, q, t : n = Passed(s)' /\ q = transport /\ t = thread[s]
    OBVIOUS
  <2>2. Mine(q, s) = {} /\ n \in Nat
    BY <1>1, <1>4, <2>1
  <2>3. Numbered(q, s, 0, t) /\ Rising(q, s, 0) /\ Gapless(q, s, 0, n) /\ Whole(q, s, 0, n)
    BY <2>2 DEF Numbered, Rising, Gapless, Whole
  <2> QED BY <1>1, <1>2, <1>5, <2>1, <2>2, <2>3 DEF Underway
<1> QED BY <1>3, <1>6 DEF OutgoingOf

LEMMA OutgoingDies ==
    ASSUME TypeOK, NEW s \in Streams, OutgoingOf(s), WorkerDies
    PROVE  OutgoingOf(s)'
<1>1. /\ ~alive' /\ thread'[s] = IF thread[s] = None THEN None ELSE "ended"
      /\ UNCHANGED <<pc, produced, registered, inbox, received>>
  BY DEF WorkerDies, handlerVars, bufferVars
<1>2. Gone(s)'
  BY <1>1 DEF OutgoingOf, Gone, Fits, None
<1>3. PICK l \in 0 .. Len(transport) : transport' = SubSeq(transport, 1, l)
  BY DEF WorkerDies
<1>4. PICK q, p, c, t, u, n : /\ q = transport /\ p = transport' /\ c = produced[s]
                              /\ t = thread[s] /\ u = thread'[s] /\ n = Passed(s)
  OBVIOUS
<1>5. Cut(q, p, l)
  BY <1>3, <1>4 DEF TypeOK, Sendings, Cut
<1>6. /\ Mine(q, s) = {} => Mine(p, s) = {}
      /\ Numbered(q, s, c, t) => Numbered(p, s, c, t)
      /\ Rising(q, s, c) => Rising(p, s, c)
      /\ Gapless(q, s, c, n) => Gapless(p, s, c, n)
  BY <1>5, PrefixKeeps
<1>7. /\ Numbered(q, s, c, t) /\ Rising(q, s, c)
      /\ s \in registered => Active(s) /\ Gapless(q, s, c, n)
      /\ t = None => c = 0 /\ Mine(q, s) = {}
  BY <1>4 DEF OutgoingOf, Underway
<1>8. (t = "ended" => u = "ended") /\ (u = None => t = None)
  BY <1>1, <1>4 DEF None
<1>9. Numbered(p, s, c, u)
  BY <1>6, <1>7, <1>8, NumberedEnds
<1>10. Passed(s)' = n /\ produced'[s] = c /\ (s \in registered' => s \in registered /\ Active(s)')
  BY <1>1, <1>4, <1>7 DEF Passed, Active
<1>11. Underway(s)'
  BY <1>1, <1>4, <1>6, <1>7, <1>8, <1>9, <1>10 DEF Underway
<1> QED BY <1>2, <1>11 DEF OutgoingOf

\* The outputs: the invariant.
LEMMA OutgoingInit == Init => Outgoing
<1> SUFFICES ASSUME Init, NEW s \in Streams PROVE OutgoingOf(s)
  BY DEF Outgoing
<1>1. /\ transport = <<>> /\ received[s] = <<>> /\ inbox[s] = <<>> /\ s \notin registered
      /\ produced[s] = 0 /\ DOMAIN <<>> = {}
  BY DEF Init
<1>2. Mine(transport, s) = {}
  BY <1>1 DEF Mine
<1>3. Gone(s)
  BY <1>1 DEF Gone
<1>4. Underway(s)
  BY <1>1, <1>2 DEF Underway, Numbered, Rising
<1> QED BY <1>3, <1>4 DEF OutgoingOf

\* A step of the thread of s puts a response, or it ends silently.
LEMMA OutgoingThread ==
    ASSUME TypeOK, Intake, Outgoing, NEW s \in Streams, Output(s) \/ Return(s) \/ Raise(s),
           NEW v \in Streams
    PROVE  OutgoingOf(v)'
<1>1. IntakeOf(s) /\ OutgoingOf(s) /\ OutgoingOf(v)
  BY DEF Intake, Outgoing
<1>2. thread[s] \in {"running", "drained"} /\ alive
  BY <1>1 DEF Output, Return, Raise, IntakeOf, Held, None
<1>3. /\ UNCHANGED <<pc, alive, registered, inbox, received>>
      /\ \/ produced' = produced /\ thread' = [thread EXCEPT ![s] = "ended"]
         \/ produced' = [produced EXCEPT ![s] = @ + 1] /\ thread' = thread
  BY DEF Output, Return, Raise, handlerVars, workerVars, bufferVars
<1>4. s \in registered \/ v \in registered => Active(v) \/ v \notin registered
  BY <1>1 DEF OutgoingOf, Underway
<1>5. CASE Return(s) /\ transport' = transport
  <2>2. produced' = produced /\ thread' = [thread EXCEPT ![s] = "ended"]
    BY <1>5 DEF Return
  <2>3. v \in registered => Active(v)
    BY <1>1 DEF OutgoingOf, Underway
  <2>4. Steady(v)
    BY <1>2, <1>3, <2>2, <2>3 DEF Steady, TypeOK, Active, None
  <2>5. Passing(transport, transport', v, 0)
    BY <1>5, PassingSame
  <2> QED BY <1>1, <2>4, <2>5, OutgoingKept
<1>6. ASSUME NEW m \in Responses, transport' = Append(transport, <<s, m>>),
             \/ produced'[s] = produced[s] + 1 /\ m[1] = "OK" /\ m[2] = produced'[s]
                /\ thread'[s] = thread[s]
             \/ produced'[s] = produced[s] /\ m[1] \in Finals /\ thread'[s] = "ended"
      PROVE  OutgoingOf(v)'
  <2>1. CASE v = s
    <3>1. thread[s] \notin {None, "ended"}
      BY <1>2 DEF None
    <3> QED BY <1>1, <1>2, <1>3, <1>6, <2>1, <3>1, OutgoingPut
  <2>2. CASE v # s
    <3>1. v \in registered => Active(v)
      BY <1>1 DEF OutgoingOf, Underway
    <3>2. produced'[v] = produced[v] /\ thread'[v] = thread[v]
      BY <1>3, <2>2 DEF TypeOK
    <3>3. Steady(v)
      BY <1>3, <3>1, <3>2 DEF Steady, Active
    <3>4. Passing(transport, transport', v, 0)
      BY <1>6, <2>2, PassingPut
    <3> QED BY <1>1, <3>3, <3>4, OutgoingKept
  <2> QED BY <2>1, <2>2
<1>7. CASE Output(s)
  <2>1. produced'[s] = produced[s] + 1 /\ produced'[s] \in Nat
    <3>1. produced \in [Streams -> Nat] /\ produced' = [produced EXCEPT ![s] = produced[s] + 1]
      BY <1>7 DEF Output, TypeOK
    <3> QED BY <3>1
  <2>2. PICK m : m = <<"OK", produced'[s]>>
    OBVIOUS
  <2>3. m \in Responses /\ m[1] = "OK" /\ m[2] = produced'[s]
    BY <2>1, <2>2 DEF Responses
  <2> QED BY <1>6, <1>7, <2>1, <2>2, <2>3 DEF Output
<1>8. CASE Raise(s) \/ (Return(s) /\ s \notin closed)
  <2>1. PICK m \in {<<"FINISH", 0>>, <<"ERROR", 0>>} : transport' = Append(transport, <<s, m>>)
    BY <1>8 DEF Return, Raise
  <2>2. m \in Responses /\ m[1] \in Finals
    BY DEF Responses, Finals
  <2>3. produced'[s] = produced[s] /\ thread'[s] = "ended"
    BY <1>8 DEF Return, Raise, TypeOK
  <2> QED BY <1>6, <2>1, <2>2, <2>3
<1> QED BY <1>5, <1>7, <1>8 DEF Return

LEMMA OutgoingNext == TypeOK /\ Intake /\ Outgoing /\ [Next]_vars => Outgoing'
<1> SUFFICES ASSUME TypeOK, Intake, Outgoing, [Next]_vars, NEW v \in Streams
             PROVE  OutgoingOf(v)'
  BY DEF Outgoing
<1>0. IntakeOf(v) /\ OutgoingOf(v) /\ (v \in registered => pc[v] \in {"waiting", "draining"})
  BY DEF Intake, Outgoing, OutgoingOf, Underway, Active
<1>1. ASSUME transport' = transport, Steady(v) PROVE OutgoingOf(v)'
  <2>1. Passing(transport, transport', v, 0)
    BY <1>1, PassingSame
  <2> QED BY <1>0, <1>1, <2>1, OutgoingKept
<1>2. ASSUME NEW s \in Streams, Leave(s), v # s,
             UNCHANGED <<received, produced, thread, alive>>
      PROVE  Steady(v)
  BY <1>0, <1>2 DEF Leave, Steady, TypeOK
<1>3. ASSUME NEW s \in Streams, Leave(s),
             UNCHANGED <<received, produced, thread, alive, transport>>
      PROVE  OutgoingOf(v)'
  <2>1. CASE v = s
    <3>1. s \notin registered' /\ Gone(s)'
      BY <1>0, <1>3, <2>1, GoneLeft DEF Leave, OutgoingOf
    <3> QED BY <1>0, <1>3, <2>1, <3>1, OutgoingLeft
  <2> QED BY <1>1, <1>2, <1>3, <2>1
<1>4. ASSUME NEW s \in Streams, Open(s) PROVE OutgoingOf(v)'
  <2>1. CASE v = s
    BY <1>0, <1>4, <2>1, OutgoingOpen
  <2>2. CASE v # s
    <3>1. UNCHANGED <<transport, thread, produced, alive, inbox, received>>
      BY <1>4 DEF Open, workerVars, threadVars, consumerVars
    <3>2. pc'[v] = pc[v] /\ (v \in registered' => v \in registered)
      BY <1>4, <2>2 DEF Open, TypeOK
    <3> QED BY <1>0, <1>1, <3>1, <3>2 DEF Steady
  <2> QED BY <2>1, <2>2
<1>5. ASSUME NEW s \in Streams, Chunk(s) PROVE OutgoingOf(v)'
  <2>1. UNCHANGED <<produced, thread, alive, transport>>
    BY <1>5 DEF Chunk, workerVars, threadVars, consumerVars
  <2>2. CASE Leave(s) /\ UNCHANGED received
    BY <1>3, <2>1, <2>2
  <2>3. CASE UNCHANGED <<pc, bufferVars>>
    BY <1>0, <1>1, <2>1, <2>3 DEF Steady, bufferVars
  <2> QED BY <1>5, <2>2, <2>3 DEF Chunk
<1>6. ASSUME NEW s \in Streams, CloseInput(s) PROVE OutgoingOf(v)'
  BY <1>0, <1>1, <1>6 DEF CloseInput, Steady, workerVars, threadVars, consumerVars, bufferVars
<1>7. ASSUME NEW s \in Streams, GiveUp(s) PROVE OutgoingOf(v)'
  BY <1>3, <1>7 DEF GiveUp, workerVars, threadVars, consumerVars
<1>8. ASSUME NEW s \in Streams, Wake(s) \/ Drained(s) PROVE OutgoingOf(v)'
  <2>1. UNCHANGED <<transport, thread, produced, alive, inbox, received, registered>>
    BY <1>8 DEF Wake, Drained, workerVars, threadVars, consumerVars, bufferVars
  <2>2. v \in registered => pc'[v] \in {"waiting", "draining"}
    BY <1>0, <1>8 DEF Wake, Drained, TypeOK
  <2> QED BY <1>1, <2>1, <2>2 DEF Steady
<1>9. ASSUME NEW s \in Streams, Receive(s) PROVE OutgoingOf(v)'
  <2>1. CASE v = s
    BY <1>0, <1>9, <2>1, OutgoingReceive
  <2>2. CASE v # s
    <3>1. /\ received'[v] = received[v]
          /\ UNCHANGED <<produced, thread, alive, transport>>
      BY <1>9, <2>2 DEF Receive, workerVars, threadVars, consumerVars, TypeOK
    <3>2. inbox'[v] = inbox[v] /\ pc'[v] = pc[v] /\ (v \in registered' => v \in registered)
      BY <1>9, <2>2 DEF Receive, Leave, TypeOK
    <3> QED BY <1>0, <1>1, <3>1, <3>2 DEF Steady
  <2> QED BY <2>1, <2>2
<1>10. CASE Consume
  <2>1. CASE v = Head(transport)[1]
    BY <1>0, <1>10, <2>1, OutgoingConsume
  <2>2. CASE v # Head(transport)[1]
    <3>1. UNCHANGED <<pc, thread, produced, alive, received, registered>>
      BY <1>10 DEF Consume, handlerVars, workerVars, threadVars
    <3>2. inbox'[v] = inbox[v]
      BY <1>10, <2>2 DEF Consume, TypeOK
    <3>3. Steady(v)
      BY <1>0, <3>1, <3>2 DEF Steady
    <3>4. Passing(transport, transport', v, 1)
      BY <1>10, <2>2, PassingConsume
    <3> QED BY <1>0, <3>3, <3>4, OutgoingKept
  <2> QED BY <2>1, <2>2
<1>11. CASE Signal
  BY <1>0, <1>1, <1>11 DEF Signal, Steady, handlerVars, workerVars, threadVars
<1>12. ASSUME NEW s \in Streams, Expire(s) PROVE OutgoingOf(v)'
  BY <1>0, <1>1, <1>12 DEF Expire, Steady, handlerVars, workerVars, threadVars, consumerVars
<1>13. CASE HandleMessage
  <2>1. UNCHANGED <<pc, alive, produced, transport, registered, inbox, received>>
    BY <1>13 DEF HandleMessage, handlerVars, consumerVars, bufferVars
  <2>2. thread'[v] = thread[v] \/ (thread[v] = None /\ thread'[v] = "running")
    <3>1. PICK s \in Streams : OnOpen(s) \/ OnChunk(s) \/ OnClose(s)
      BY <1>13 DEF HandleMessage
    <3>2. CASE thread' = thread
      BY <3>2
    <3>3. CASE OnOpen(s) /\ thread' = [thread EXCEPT ![s] = "running"]
      <4>1. thread[s] = None
        <5>1. 1 \in Mail(queue, s) /\ queue[1][1] = "OPEN"
          <6>1. queue \in Seq(Messages) /\ queue # <<>> /\ Head(queue) = queue[1]
            BY <1>13, HeadTailProperties DEF HandleMessage, TypeOK
          <6>2. 1 \in DOMAIN queue
            BY <6>1, EmptySeq, LenProperties
          <6> QED BY <3>3, <6>1, <6>2 DEF OnOpen, Mail
        <5> QED BY <5>1 DEF Intake, IntakeOf, Posted
      <4> QED BY <3>3, <4>1 DEF TypeOK
    <3> QED BY <3>1, <3>2, <3>3 DEF OnOpen, OnChunk, OnClose
  <2>3. Steady(v)
    BY <1>0, <2>1, <2>2 DEF Steady, None
  <2> QED BY <1>1, <2>1, <2>3
<1>14. CASE WorkerDies
  BY <1>0, <1>14, OutgoingDies
<1>15. ASSUME NEW s \in Streams, Read(s) PROVE OutgoingOf(v)'
  <2>1. UNCHANGED <<pc, alive, produced, transport, registered, inbox, received>>
    BY <1>15 DEF Read, handlerVars, consumerVars, bufferVars
  <2>2. thread'[v] = thread[v] \/ (thread[v] = "running" /\ thread'[v] = "drained")
    BY <1>15 DEF Read, TypeOK
  <2> QED BY <1>0, <1>1, <2>1, <2>2 DEF Steady, None
<1>16. ASSUME NEW s \in Streams, Output(s) \/ Return(s) \/ Raise(s) PROVE OutgoingOf(v)'
  BY <1>16, OutgoingThread
<1>17. CASE UNCHANGED vars
  BY <1>0, <1>1, <1>17
     DEF vars, Steady, handlerVars, workerVars, threadVars, consumerVars, bufferVars
<1> QED BY <1>4, <1>5, <1>6, <1>7, <1>8, <1>9, <1>10, <1>11, <1>12, <1>13, <1>14, <1>15, <1>16, <1>17
        DEF Next, Handler, Thread

-----------------------------------------------------------------------------
\* The first n outputs.
FirstOutputs(n) == [i \in 1 .. n |-> <<"OK", i>>]

LEMMA FirstOutputsAre ==
    ASSUME NEW n \in Nat
    PROVE  /\ FirstOutputs(n) \in Seq(Responses) /\ Len(FirstOutputs(n)) = n
           /\ \A i \in 1 .. n : FirstOutputs(n)[i] = <<"OK", i>>
<1>1. \A i \in 1 .. n : <<"OK", i>> \in Responses
  BY DEF Responses
<1>2. FirstOutputs(n) \in [1 .. n -> Responses]
  BY <1>1 DEF FirstOutputs
<1>3. FirstOutputs(n) \in Seq(Responses)
  BY <1>2
<1>4. Len(FirstOutputs(n)) = n
  BY <1>2, <1>3, LenProperties
<1> QED BY <1>3, <1>4 DEF FirstOutputs

\* Fewer of them are a prefix.
LEMMA FirstOutputsPrefix ==
    ASSUME NEW m \in Nat, NEW n \in Nat, m <= n
    PROVE  IsPrefix(FirstOutputs(m), FirstOutputs(n))
<1>1. PICK f, g : f = FirstOutputs(m) /\ g = FirstOutputs(n)
  OBVIOUS
<1>2. /\ f \in Seq(Responses) /\ Len(f) = m /\ \A i \in 1 .. m : f[i] = <<"OK", i>> /\ f[i] \in Responses
      /\ g \in Seq(Responses) /\ Len(g) = n /\ \A i \in 1 .. n : g[i] = <<"OK", i>> /\ g[i] \in Responses
  <2>1. \A i \in Nat : i >= 1 => <<"OK", i>> \in Responses
    BY DEF Responses
  <2>2. /\ f \in Seq(Responses) /\ Len(f) = m /\ \A i \in 1 .. m : f[i] = <<"OK", i>>
        /\ g \in Seq(Responses) /\ Len(g) = n /\ \A i \in 1 .. n : g[i] = <<"OK", i>>
    BY <1>1, FirstOutputsAre
  <2>3. /\ \A i \in 1 .. m : f[i] \in Responses
        /\ \A i \in 1 .. n : g[i] \in Responses
    BY <2>1, <2>2
  <2> QED BY <2>2, <2>3
<1>3. \A i \in 1 .. m : i \in 1 .. n /\ 1 + i - 1 = i
  OBVIOUS
<1>4. /\ SubSeq(f, 1, m) \in Seq(Responses) /\ Len(SubSeq(f, 1, m)) = m
      /\ \A i \in 1 .. m : SubSeq(f, 1, m)[i] = f[i]
  <2>1. /\ SubSeq(f, 1, m) \in Seq(Responses)
        /\ Len(SubSeq(f, 1, m)) = IF 1 <= m THEN m - 1 + 1 ELSE 0
        /\ \A i \in 1 .. m - 1 + 1 : SubSeq(f, 1, m)[i] = f[1 + i - 1]
    BY <1>2, SubSeqProperties
  <2> QED BY <1>3, <2>1
<1>5. /\ SubSeq(g, 1, m) \in Seq(Responses) /\ Len(SubSeq(g, 1, m)) = m
      /\ \A i \in 1 .. m : SubSeq(g, 1, m)[i] = g[i]
  <2>1. /\ SubSeq(g, 1, m) \in Seq(Responses)
        /\ Len(SubSeq(g, 1, m)) = IF 1 <= m THEN m - 1 + 1 ELSE 0
        /\ \A i \in 1 .. m - 1 + 1 : SubSeq(g, 1, m)[i] = g[1 + i - 1]
    BY <1>2, <1>3, SubSeqProperties
  <2> QED BY <1>3, <2>1
<1>6. SubSeq(f, 1, m) = SubSeq(g, 1, m)
  <2>1. \A i \in 1 .. m : SubSeq(f, 1, m)[i] = SubSeq(g, 1, m)[i]
    BY <1>2, <1>3, <1>4, <1>5
  <2> QED BY <1>4, <1>5, <2>1, SeqEqual
<1> QED BY <1>1, <1>2, <1>6 DEF IsPrefix

\* Responses that are the first of their stream, after a final one nothing.
LEMMA OutputsAre ==
    ASSUME NEW c \in Nat, NEW t, NEW r \in Seq(Responses),
           \A i \in DOMAIN r : Fits(c, t, r[i], i)
    PROVE  Len(r) <= c + 1 /\ Outputs(r) = FirstOutputs(IF Len(r) <= c THEN Len(r) ELSE c)
<1>1. PICK n : n = Len(r) /\ n \in Nat /\ DOMAIN r = 1 .. n
  BY LenProperties
<1>2. \A i \in 1 .. n : i <= c + 1 /\ r[i] \in Responses
  <2>1. \A i \in 1 .. n : i <= c + 1
    BY <1>1 DEF Fits
  <2>2. \A i \in 1 .. n : r[i] \in Responses
    BY <1>1, LenProperties
  <2> QED BY <2>1, <2>2
<1>3. n <= c + 1
  <2>1. n = 0 \/ n \in 1 .. n
    BY <1>1
  <2> QED BY <1>1, <1>2, <2>1
<1>4. ASSUME NEW i \in 1 .. n, i <= c PROVE r[i] = <<"OK", i>> /\ r[i][1] \notin Finals
  <2>1. PICK e : e = r[i]
    OBVIOUS
  <2>2. e[1] = "OK" /\ e[2] = i
    BY <1>1, <1>4, <2>1 DEF Fits, Number
  <2>3. e \in Responses
    BY <1>2, <2>1
  <2>4. e = <<"OK", i>>
    BY <2>2, <2>3 DEF Responses, Finals
  <2> QED BY <2>1, <2>2, <2>4 DEF Finals
<1>5. ASSUME n = c + 1 PROVE r # <<>> /\ Last(r)[1] \in Finals
  <2>1. n \in 1 .. n
    BY <1>1, <1>5
  <2>2. Fits(c, t, r[n], c + 1)
    BY <1>1, <1>5, <2>1
  <2>3. r[n][1] \in Finals
    BY <2>2 DEF Fits
  <2>4. r # <<>>
    BY <1>1, <2>1
  <2> QED BY <1>1, <2>3, <2>4 DEF Last
<1>6. CASE n = c + 1
  <2>1. Outputs(r) = SubSeq(r, 1, c)
    <3>1. n - 1 = c
      BY <1>6
    <3> QED BY <1>1, <1>5, <1>6, <3>1 DEF Outputs, Front
  <2>2. \A i \in 1 .. c : i \in 1 .. n /\ i <= c /\ 1 + i - 1 = i
    BY <1>6
  <2>3. /\ SubSeq(r, 1, c) \in Seq(Responses) /\ Len(SubSeq(r, 1, c)) = c
        /\ \A i \in 1 .. c : SubSeq(r, 1, c)[i] = r[i]
    <3>1. /\ SubSeq(r, 1, c) \in Seq(Responses)
          /\ Len(SubSeq(r, 1, c)) = IF 1 <= c THEN c - 1 + 1 ELSE 0
          /\ \A i \in 1 .. c - 1 + 1 : SubSeq(r, 1, c)[i] = r[1 + i - 1]
      BY <1>2, <2>2, SubSeqProperties
    <3> QED BY <2>2, <3>1
  <2>4. \A i \in 1 .. c : SubSeq(r, 1, c)[i] = FirstOutputs(c)[i]
    BY <1>4, <2>2, <2>3, FirstOutputsAre
  <2>5. SubSeq(r, 1, c) = FirstOutputs(c)
    BY <2>3, <2>4, FirstOutputsAre, SeqEqual
  <2> QED BY <1>1, <1>6, <2>1, <2>5
<1>7. CASE n <= c
  <2>1. Outputs(r) = r
    <3>1. ASSUME r # <<>> PROVE Last(r)[1] \notin Finals
      <4>1. n \in 1 .. n
        BY <1>1, <3>1, EmptySeq
      <4>2. r[n][1] \notin Finals
        BY <1>4, <1>7, <4>1
      <4> QED BY <1>1, <4>2 DEF Last
    <3>2. CASE r # <<>>
      BY <3>1, <3>2 DEF Outputs
    <3>3. CASE r = <<>>
      BY <3>3 DEF Outputs
    <3> QED BY <3>2, <3>3
  <2>2. ASSUME NEW i \in 1 .. n PROVE r[i] = FirstOutputs(n)[i]
    <3>1. i <= c
      BY <1>1, <1>7
    <3>2. FirstOutputs(n)[i] = <<"OK", i>>
      BY <1>1, FirstOutputsAre
    <3> QED BY <1>4, <3>1, <3>2
  <2>3. r = FirstOutputs(n)
    BY <1>1, <2>2, FirstOutputsAre, SeqEqual
  <2> QED BY <1>1, <1>7, <2>1, <2>3
<1> QED BY <1>1, <1>3, <1>6, <1>7

\* A queue without a gap up to the last output has all of them.
Holds(q, s, c, m) == \E i \in Mine(q, s) : Number(c, q[i][2]) = m

LEMMA NoneMissing ==
    ASSUME NEW q, NEW s, NEW c \in Nat, NEW n \in Nat,
           Gapless(q, s, c, n), Whole(q, s, c, n), NEW m \in Nat, n < m, m <= c
    PROVE  Holds(q, s, c, m)
<1> DEFINE T == {d \in Nat : c - d > n => \E i \in Mine(q, s) : Number(c, q[i][2]) = c - d}
<1>1. 0 \in T
  <2>1. c - 0 = c
    OBVIOUS
  <2> QED BY <2>1 DEF Whole
<1>2. ASSUME NEW d \in Nat, d \in T PROVE d + 1 \in T
  <2>1. SUFFICES ASSUME c - (d + 1) > n
                 PROVE  \E i \in Mine(q, s) : Number(c, q[i][2]) = c - (d + 1)
    OBVIOUS
  <2>2. c - d > n /\ c - d # n + 1 /\ (c - d) - 1 = c - (d + 1)
    BY <2>1
  <2>3. PICK i \in Mine(q, s) : Number(c, q[i][2]) = c - d
    BY <1>2, <2>2
  <2> QED BY <2>2, <2>3 DEF Gapless
<1>3. Nat \subseteq T
  <2> HIDE DEF T
  <2> QED BY <1>1, <1>2, NatSetInduction
<1>4. c - m \in Nat /\ c - (c - m) = m /\ m > n
  OBVIOUS
<1>5. c - m \in T
  BY <1>3, <1>4
<1> QED BY <1>4, <1>5 DEF Holds

LEMMA ComingAre ==
    ASSUME TypeOK, NEW s \in Streams, Underway(s), alive, s \in registered, NEW n \in Nat,
           \/ n = Passed(s)
           \/ n = produced[s] /\ Passed(s) = produced[s] + 1
    PROVE  Coming(s) = n + 1 .. produced[s] /\ ComingInOrder(s)
<1>1. PICK q, c, t, k : q = transport /\ c = produced[s] /\ t = thread[s] /\ k = Passed(s)
  OBVIOUS
<1>2. /\ Numbered(q, s, c, t) /\ Rising(q, s, c) /\ Gapless(q, s, c, k) /\ Whole(q, s, c, k)
  BY <1>1 DEF Underway
<1>3. c \in Nat /\ k \in Nat
  BY <1>1, LenProperties DEF TypeOK, Passed
<1>4. ASSUME NEW i \in Mine(q, s)
      PROVE  /\ q[i] \in Sendings /\ q[i][1] = s /\ q[i] = <<s, q[i][2]>>
             /\ Number(c, q[i][2]) \in 1 .. c + 1
             /\ Number(c, q[i][2]) # c + 1 => q[i][2] = <<"OK", Number(c, q[i][2])>>
  <2>1. q \in Seq(Sendings) /\ i \in DOMAIN q /\ q[i][1] = s
    BY <1>1 DEF TypeOK, Sendings, Mine
  <2>2. q[i] \in Sendings
    BY <2>1, LenProperties
  <2>3. PICK r : r = q[i][2]
    OBVIOUS
  <2>4. r \in Responses /\ q[i] = <<s, r>>
    BY <2>1, <2>2, <2>3 DEF Sendings
  <2>5. Number(c, r) \in 1 .. c + 1
    BY <1>2, <2>3 DEF Numbered, Fits
  <2>6. ASSUME Number(c, r) # c + 1 PROVE r = <<"OK", Number(c, r)>>
    <3>1. r[1] = "OK" /\ Number(c, r) = r[2]
      BY <2>6 DEF Number
    <3>2. r = <<"OK", r[2]>>
      BY <2>4, <3>1 DEF Responses, Finals
    <3> QED BY <3>1, <3>2
  <2> QED BY <2>1, <2>2, <2>3, <2>4, <2>5, <2>6
<1>5. ASSUME NEW m \in Coming(s) PROVE m \in n + 1 .. c
  <2>1. m \in 1 .. c /\ \E i \in DOMAIN q : q[i] = <<s, <<"OK", m>>>>
    BY <1>1 DEF Coming
  <2>2. PICK i \in DOMAIN q : q[i] = <<s, <<"OK", m>>>>
    BY <2>1
  <2>3. i \in Mine(q, s) /\ Number(c, q[i][2]) = m
    BY <2>2 DEF Mine, Number
  <2>4. m > k
    BY <1>2, <2>3 DEF Gapless
  <2> QED BY <1>1, <1>3, <2>1, <2>4
<1>6. ASSUME NEW m \in n + 1 .. c PROVE m \in Coming(s)
  <2>1. k < m /\ m <= c /\ m \in Nat
    BY <1>1, <1>3, <1>6
  <2>2. Holds(q, s, c, m)
    BY <1>2, <1>3, <2>1, NoneMissing
  <2>3. m # c + 1 /\ m \in 1 .. c
    BY <1>3
  <2>4. \E i \in DOMAIN q : q[i] = <<s, <<"OK", m>>>>
    <3>1. PICK i \in Mine(q, s) : Number(c, q[i][2]) = m
      BY <2>2 DEF Holds
    <3> QED BY <1>4, <2>3, <3>1 DEF Mine
  <2> QED BY <1>1, <2>3, <2>4 DEF Coming
<1>7. ComingInOrder(s)
  <2> SUFFICES ASSUME NEW i \in DOMAIN q, NEW j \in DOMAIN q, i < j, q[i][1] = s, q[j][1] = s
               PROVE  /\ q[i][2][1] = "OK"
                      /\ q[j][2][1] = "OK" => q[i][2][2] < q[j][2][2]
    BY <1>1 DEF ComingInOrder
  <2>1. i \in Mine(q, s) /\ j \in Mine(q, s)
    BY DEF Mine
  <2>2. Number(c, q[i][2]) < Number(c, q[j][2])
    BY <1>2, <2>1 DEF Rising
  <2>3. Number(c, q[i][2]) # c + 1
    BY <1>3, <1>4, <2>1, <2>2
  <2>4. q[i][2][1] = "OK"
    BY <2>3 DEF Number
  <2> QED BY <2>2, <2>4 DEF Number
<1> QED BY <1>1, <1>5, <1>6, <1>7

\* The two say what is to be shown.
LEMMA CompleteStreams == TypeOK /\ Intake /\ Outgoing => StreamsComplete
<1> SUFFICES ASSUME TypeOK, Intake, Outgoing, NEW s \in Streams
             PROVE  LET passed == Outputs(received[s] \o inbox[s])
                        made == [i \in 1 .. produced[s] |-> <<"OK", i>>]
                    IN
                    /\ IsPrefix(passed, made)
                    /\ received[s] # <<>> /\ Last(received[s])[1] \in Finals => passed = made
                    /\ alive /\ s \in registered =>
                          Coming(s) = Len(passed) + 1 .. produced[s] /\ ComingInOrder(s)
                    /\ thread[s] = "drained" /\ s \notin astray => read[s] = sent[s]
  BY DEF StreamsComplete
<1>1. IntakeOf(s) /\ Gone(s) /\ Underway(s)
  BY DEF Intake, Outgoing, OutgoingOf
<1>2. PICK g, b, r, k, l, c, t :
          /\ g = received[s] /\ b = inbox[s] /\ r = received[s] \o inbox[s]
          /\ k = Len(received[s]) /\ l = Len(inbox[s])
          /\ c = produced[s] /\ t = thread[s]
  OBVIOUS
<1>3. /\ g \in Seq(Responses) /\ b \in Seq(Responses) /\ c \in Nat /\ k \in Nat /\ l \in Nat
      /\ DOMAIN g = 1 .. k /\ DOMAIN b = 1 .. l
  BY <1>2, LenProperties DEF TypeOK
<1>4. /\ r \in Seq(Responses) /\ Len(r) = k + l /\ DOMAIN r = 1 .. k + l
      /\ \A i \in 1 .. k + l : r[i] = IF i <= k THEN g[i] ELSE b[i - k]
  <2>1. PICK x, y : x = received[s] /\ y = inbox[s]
    OBVIOUS
  <2>2. x \in Seq(Responses) /\ y \in Seq(Responses)
    BY <2>1 DEF TypeOK
  <2>3. /\ x \o y \in Seq(Responses) /\ Len(x \o y) = Len(x) + Len(y)
        /\ \A i \in 1 .. Len(x) + Len(y) : (x \o y)[i] = IF i <= Len(x) THEN x[i] ELSE y[i - Len(x)]
    BY <2>2, ConcatProperties
  <2>4. /\ r \in Seq(Responses) /\ Len(r) = k + l
        /\ \A i \in 1 .. k + l : r[i] = IF i <= k THEN g[i] ELSE b[i - k]
    BY <1>2, <2>1, <2>3
  <2> QED BY <2>4, LenProperties
<1>5. \A i \in DOMAIN r : Fits(c, t, r[i], i)
  <2>1. /\ \A i \in 1 .. k : Fits(c, t, g[i], i)
        /\ \A i \in 1 .. l : Fits(c, t, b[i], k + i)
    BY <1>1, <1>2, <1>3 DEF Gone
  <2> SUFFICES ASSUME NEW i \in 1 .. k + l PROVE Fits(c, t, r[i], i)
    BY <1>4
  <2>2. CASE i <= k
    BY <1>3, <1>4, <2>1, <2>2
  <2>3. CASE ~(i <= k)
    <3>1. i - k \in 1 .. l /\ k + (i - k) = i
      BY <1>3, <2>3
    <3> QED BY <1>4, <2>1, <2>3, <3>1
  <2> QED BY <2>2, <2>3
<1>6. PICK n \in Nat : n = IF k + l <= c THEN k + l ELSE c
  BY <1>3
<1>7. k + l <= c + 1 /\ Outputs(r) = FirstOutputs(n)
  <2>1. Len(r) <= c + 1 /\ Outputs(r) = FirstOutputs(IF Len(r) <= c THEN Len(r) ELSE c)
    BY <1>3, <1>4, <1>5, OutputsAre
  <2> QED BY <1>4, <1>6, <2>1
<1>8. n <= c /\ IsPrefix(FirstOutputs(n), FirstOutputs(c))
  <2>1. n <= c
    BY <1>3, <1>6
  <2> QED BY <1>3, <2>1, FirstOutputsPrefix
<1>9. ASSUME g # <<>>, Last(g)[1] \in Finals PROVE FirstOutputs(n) = FirstOutputs(c)
  <2>1. k \in 1 .. k
    BY <1>2, <1>3, <1>9, EmptySeq
  <2>2. Fits(c, t, g[k], k) /\ g[k][1] \in Finals
    BY <1>1, <1>2, <1>3, <1>9, <2>1 DEF Gone, Last
  <2>3. k = c + 1
    BY <2>2 DEF Fits, Number, Finals
  <2>4. n = c
    BY <1>3, <1>6, <2>3
  <2> QED BY <2>4
<1>10. ASSUME alive, s \in registered PROVE Coming(s) = n + 1 .. c /\ ComingInOrder(s)
  <2>1. Passed(s) = k + l
    BY <1>2 DEF Passed
  <2>2. k + l = n \/ (n = c /\ k + l = c + 1)
    BY <1>3, <1>6, <1>7
  <2>3. n = Passed(s) \/ (n = produced[s] /\ Passed(s) = produced[s] + 1)
    BY <1>2, <2>1, <2>2
  <2> QED BY <1>1, <1>2, <1>10, <2>3, ComingAre
<1>11. ASSUME thread[s] = "drained", s \notin astray PROVE read[s] = sent[s]
  BY <1>1, <1>11 DEF IntakeOf, Held, Fed, None
<1>12. Len(FirstOutputs(n)) = n
  BY FirstOutputsAre
<1>13. FirstOutputs(c) = [i \in 1 .. produced[s] |-> <<"OK", i>>]
  BY <1>2 DEF FirstOutputs
<1> QED BY <1>2, <1>7, <1>8, <1>9, <1>10, <1>11, <1>12, <1>13

\* Both directions of every stream are complete and in order, for any number of
\* streams, chunks and outputs and any size of the queue; the input is complete unless
\* a chunk went to another version than the OPEN (submit_stream_open, _chunk
\* and _close, BidirectionalStreamingLoop, StreamSession, _response_consumer).
THEOREM StreamsAreComplete == Spec => []StreamsComplete
<1>1. Init => Intake /\ Outgoing
  BY IntakeInit, OutgoingInit
<1>2. Spec => [](Intake /\ Outgoing)
  <2>1. TypeOK /\ (Intake /\ Outgoing) /\ [Next]_vars => (Intake /\ Outgoing)'
    BY IntakeNext, OutgoingNext
  <2> QED BY <1>1, <2>1, TypeCorrect, PTL DEF Spec
<1> QED BY <1>2, TypeCorrect, CompleteStreams, PTL
=============================================================================
