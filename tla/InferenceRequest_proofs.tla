------------------------ MODULE InferenceRequest_proofs ------------------------
(***************************************************************************)
(* Proofs about InferenceRequest, for any requests, workers, launches and  *)
(* sizes of the queues and of the buffer: what the client is promised      *)
(* (RequestPromise) is kept step by step; a request is never in two places;*)
(* the response buffer holds the requests that wait, and no others.        *)
(***************************************************************************)
EXTENDS InferenceRequest, DataLemmas, FiniteSetTheorems

Spec == Init /\ [][Next]_vars

Before == {"new", "ready", "queues", "fallback", "put"}
After == {"register", "wait", "ended"}

-----------------------------------------------------------------------------
(* The inductive invariant                                                 *)

PartsTyped ==
    /\ queue \in [Slots -> Seq(Requests)]
    /\ working \in [Slots -> Requests \cup {Idle}]
    /\ transport \in Seq(Requests \X {"ok", "error"})
    /\ response \in [Requests -> {"ok", "error", None}]
    /\ pc \in [Requests -> Before \cup After]
    /\ outcome \in [Requests -> {"ok", "error", None} \cup Refusals \cup Failures]
    /\ executed \subseteq Requests

\* Request r has been accepted, and has not been answered or refused.
Open(r) == pc[r] \in After /\ (pc[r] = "ended" => outcome[r] \in Failures)

\* What waits in a queue is open, has not been executed and waits in this one
\* place; what is behind the queues has been executed, and what has been executed was
\* accepted.
Executions ==
    /\ \A s \in Slots : \A i \in DOMAIN queue[s] :
          /\ queue[s][i] \notin executed /\ Open(queue[s][i])
          /\ \A t \in Slots : \A j \in DOMAIN queue[t] :
                queue[s][i] = queue[t][j] => s = t /\ i = j
    /\ \A r \in executed : pc[r] \in After
    /\ \A s \in Slots : working[s] # Idle => working[s] \in executed
    /\ \A i \in DOMAIN transport : transport[i][1] \in executed
    /\ \A r \in Requests : response[r] # None => r \in executed

IInv == PartsTyped /\ Executions

LEMMA InitIInv == Init => IInv
<1> SUFFICES ASSUME Init PROVE IInv
  OBVIOUS
<1>1. <<>> \in Seq(Requests) /\ <<>> \in Seq(Requests \X {"ok", "error"})
  OBVIOUS
<1>2. PartsTyped
  BY <1>1 DEF Init, PartsTyped, Before
<1>3. \A s \in Slots : DOMAIN queue[s] = {}
  BY DEF Init
<1>4. DOMAIN transport = {}
  BY DEF Init
<1>5. Executions
  BY <1>3, <1>4 DEF Init, Executions
<1> QED BY <1>2, <1>5 DEF IInv

\* A handler moves on before its request is put, or refuses it: there is no trace
\* of the request yet.
LEMMA BeforeStep ==
    ASSUME IInv, NEW r \in Requests, pc[r] \in Before,
           NEW p \in Before \cup {"ended"}, pc' = [pc EXCEPT ![r] = p],
           NEW o \in {"ok", "error", None} \cup Refusals \cup Failures,
           outcome' = [outcome EXCEPT ![r] = o] \/ outcome' = outcome,
           UNCHANGED <<queue, working, transport, response, executed>>
    PROVE  IInv'
<1>1. PartsTyped'
  BY DEF IInv, PartsTyped, After
<1>2. r \notin executed /\ ~ Open(r)
  BY DEF IInv, Executions, Open, Before, After
<1>3. \A q \in Requests : q # r => pc'[q] = pc[q] /\ outcome'[q] = outcome[q]
  BY DEF IInv, PartsTyped
<1>4. \A s \in Slots : \A i \in DOMAIN queue[s] : queue[s][i] \in Requests
  BY DEF IInv, PartsTyped
<1>5. \A s \in Slots : \A i \in DOMAIN queue[s] : Open(queue[s][i]) =>
          pc'[queue[s][i]] = pc[queue[s][i]] /\ outcome'[queue[s][i]] = outcome[queue[s][i]]
  BY <1>2, <1>3, <1>4
<1>6. \A q \in executed : pc'[q] \in After
  BY <1>2, <1>3 DEF IInv, PartsTyped, Executions
<1>7. Executions'
  BY <1>5, <1>6 DEF IInv, Executions, Open
<1> QED BY <1>1, <1>7 DEF IInv

\* A handler moves on after its request has been put: it fails, or there is a
\* response to it.
LEMMA AfterStep ==
    ASSUME IInv, NEW r \in Requests, pc[r] \in {"register", "wait"},
           \/ pc' = [pc EXCEPT ![r] = "wait"] /\ outcome' = outcome
           \/ \E o \in {"ok", "error"} \cup Failures :
                 /\ pc' = [pc EXCEPT ![r] = "ended"] /\ outcome' = [outcome EXCEPT ![r] = o]
                 /\ o \in Failures \/ response[r] # None,
           UNCHANGED <<queue, working, transport, response, executed>>
    PROVE  IInv'
<1>1. PartsTyped'
  BY DEF IInv, PartsTyped, After
<1>2. pc'[r] \in After /\ (response[r] = None => Open(r)')
  BY DEF IInv, PartsTyped, Open, After, Failures
<1>3. \A q \in Requests : q # r => pc'[q] = pc[q] /\ outcome'[q] = outcome[q]
  BY DEF IInv, PartsTyped
<1>4. \A q \in executed : pc'[q] \in After
  BY <1>2, <1>3 DEF IInv, PartsTyped, Executions
<1>5. ASSUME NEW s \in Slots, NEW i \in DOMAIN queue[s]
      PROVE  pc'[queue[s][i]] \in After /\ (pc'[queue[s][i]] = "ended" => outcome'[queue[s][i]] \in Failures)
  <2>1. PICK q \in Requests : q = queue[s][i]
    BY DEF IInv, PartsTyped
  <2>2. q \notin executed /\ Open(q)
    BY <2>1 DEF IInv, Executions
  <2>3. CASE q = r
    BY <1>2, <2>1, <2>2, <2>3 DEF IInv, Executions, Open
  <2>4. CASE q # r
    BY <1>3, <2>1, <2>2, <2>4 DEF Open
  <2> QED BY <2>3, <2>4
<1>6. Executions'
  BY <1>4, <1>5 DEF IInv, Executions, Open
<1> QED BY <1>1, <1>6 DEF IInv

\* A request is put: it was in no queue, and is now in one.
LEMMA PutIInv == ASSUME IInv, NEW r \in Requests, Put(r) PROVE IInv'
<1>1. pc[r] = "put" /\ UNCHANGED <<working, transport, response, executed>>
  BY DEF Put, mainVars, history
<1>2. PICK w \in Workers :
          LET s == <<found[r], w>> IN
          \/ /\ Len(queue[s]) < QueueSize
             /\ queue' = [queue EXCEPT ![s] = Append(@, r)]
             /\ Goto(r, "register") /\ UNCHANGED outcome
          \/ /\ Len(queue[s]) = QueueSize
             /\ Finish(r, "queue full") /\ UNCHANGED queue
  BY DEF Put
<1> DEFINE u == <<found[r], w>>
<1>3. CASE Finish(r, "queue full") /\ UNCHANGED queue
  <2>1. /\ pc' = [pc EXCEPT ![r] = "ended"] /\ outcome' = [outcome EXCEPT ![r] = "queue full"]
        /\ "queue full" \in Refusals /\ pc[r] \in Before
    BY <1>1, <1>3 DEF Finish, Goto, Refusals, Before
  <2> QED BY <1>1, <1>3, <2>1, BeforeStep
<1>4. CASE /\ queue' = [queue EXCEPT ![u] = Append(@, r)]
           /\ Goto(r, "register") /\ UNCHANGED outcome
  <2>1. pc' = [pc EXCEPT ![r] = "register"] /\ outcome' = outcome
    BY <1>4 DEF Goto
  <2>2. /\ queue \in [Slots -> Seq(Requests)] /\ pc \in [Requests -> Before \cup After]
        /\ DOMAIN queue' = Slots
        /\ \A s \in Slots : queue'[s] = IF s = u THEN Append(queue[s], r) ELSE queue[s]
    BY <1>4 DEF IInv, PartsTyped
  <2>3. \A s \in Slots : queue'[s] \in Seq(Requests) /\ \A i \in DOMAIN queue'[s] :
            \/ i \in DOMAIN queue[s] /\ queue'[s][i] = queue[s][i]
            \/ s = u /\ i = Len(queue[u]) + 1 /\ queue'[s][i] = r
    <3> SUFFICES ASSUME NEW s \in Slots
                 PROVE  queue'[s] \in Seq(Requests) /\ \A i \in DOMAIN queue'[s] :
                            \/ i \in DOMAIN queue[s] /\ queue'[s][i] = queue[s][i]
                            \/ s = u /\ i = Len(queue[u]) + 1 /\ queue'[s][i] = r
      OBVIOUS
    <3>1. queue[s] \in Seq(Requests)
      BY <2>2
    <3>2. CASE s = u
      <4>1. queue'[s] = Append(queue[s], r)
        BY <2>2, <3>2
      <4>2. /\ Append(queue[s], r) \in Seq(Requests)
            /\ \A i \in DOMAIN Append(queue[s], r) :
                  \/ i \in DOMAIN queue[s] /\ Append(queue[s], r)[i] = queue[s][i]
                  \/ i = Len(queue[s]) + 1 /\ Append(queue[s], r)[i] = r
        BY <3>1, AppendOf
      <4> QED BY <3>2, <4>1, <4>2
    <3>3. CASE s # u
      BY <2>2, <3>1, <3>3
    <3> QED BY <3>2, <3>3
  <2>4. PartsTyped'
    <3>1. queue' \in [Slots -> Seq(Requests)]
      <4>1. queue' = [s \in Slots |-> queue'[s]]
        BY <1>4, <2>2
      <4> QED BY <2>3, <4>1
    <3>2. pc' \in [Requests -> Before \cup After]
      BY <2>1, <2>2 DEF After
    <3> QED BY <1>1, <2>1, <3>1, <3>2 DEF IInv, PartsTyped
  <2>5. \A s \in Slots : \A i \in DOMAIN queue[s] :
            queue[s][i] \in Requests /\ queue[s][i] # r /\ queue[s][i] \notin executed
            /\ Open(queue[s][i])
    BY <1>1 DEF IInv, PartsTyped, Executions, Open, After
  <2>6. r \notin executed
    BY <1>1 DEF IInv, Executions, After
  <2>7. \A q \in Requests : pc'[q] = IF q = r THEN "register" ELSE pc[q]
    BY <2>1, <2>2
  <2>8. ASSUME NEW s \in Slots, NEW i \in DOMAIN queue'[s]
        PROVE  /\ queue'[s][i] \notin executed /\ pc'[queue'[s][i]] \in After
               /\ pc'[queue'[s][i]] = "ended" => outcome[queue'[s][i]] \in Failures
               /\ \A t \in Slots : \A j \in DOMAIN queue'[t] :
                     queue'[s][i] = queue'[t][j] => s = t /\ i = j
    <3>1. \A t \in Slots : \A j \in DOMAIN queue'[t] :
              queue'[s][i] = queue'[t][j] => s = t /\ i = j
      <4>1. \A t \in Slots : \A j \in DOMAIN queue[t] :
                /\ queue[t][j] # r
                /\ i \in DOMAIN queue[s] /\ queue[s][i] = queue[t][j] => s = t /\ i = j
        BY <2>5 DEF IInv, Executions
      <4>2. CASE i \in DOMAIN queue[s] /\ queue'[s][i] = queue[s][i]
        BY <2>3, <4>1, <4>2
      <4>3. CASE s = u /\ i = Len(queue[u]) + 1 /\ queue'[s][i] = r
        BY <2>3, <4>1, <4>3
      <4> QED BY <2>3, <4>2, <4>3
    <3>2. CASE i \in DOMAIN queue[s] /\ queue'[s][i] = queue[s][i]
      BY <2>5, <2>7, <3>1, <3>2 DEF Open
    <3>3. CASE queue'[s][i] = r
      BY <2>6, <2>7, <3>1, <3>3 DEF After
    <3> QED BY <2>3, <3>2, <3>3
  <2>9. \A q \in executed : pc'[q] \in After
    BY <2>6, <2>7 DEF IInv, PartsTyped, Executions
  <2> QED BY <1>1, <2>1, <2>4, <2>8, <2>9 DEF IInv, Executions, Open
<1> QED BY <1>2, <1>3, <1>4

LEMMA ConsumeIInv == IInv /\ Consume => IInv'
<1> SUFFICES ASSUME IInv, Consume PROVE IInv'
  OBVIOUS
<1> DEFINE m == Head(transport)
<1>1. /\ transport \in Seq(Requests \X {"ok", "error"}) /\ transport # <<>>
      /\ transport' = Tail(transport)
      /\ response' = response \/ response' = [response EXCEPT ![m[1]] = m[2]]
      /\ UNCHANGED <<queue, working, pc, outcome, executed>>
  BY DEF Consume, IInv, PartsTyped, workVars, handlerVars
<1>2. /\ m \in Requests \X {"ok", "error"} /\ m = transport[1] /\ 1 \in DOMAIN transport
      /\ transport' \in Seq(Requests \X {"ok", "error"})
      /\ \A i \in DOMAIN transport' :
            transport'[i] = transport[i + 1] /\ i + 1 \in DOMAIN transport
  BY <1>1, TailOf
<1>3. m[1] \in Requests /\ m[2] \in {"ok", "error"} /\ m[1] \in executed
  BY <1>2 DEF IInv, Executions
<1>4. PartsTyped'
  <2>1. response' \in [Requests -> {"ok", "error", None}]
    BY <1>1, <1>3 DEF IInv, PartsTyped
  <2> QED BY <1>1, <1>2, <2>1 DEF IInv, PartsTyped
<1>5. \A r \in Requests : response'[r] # None => r \in executed
  BY <1>1, <1>3 DEF IInv, PartsTyped, Executions
<1>6. Executions'
  BY <1>1, <1>2, <1>5 DEF IInv, Executions, Open
<1> QED BY <1>4, <1>6 DEF IInv

\* The worker takes the only occurrence of the request in the queues.
LEMMA TakeIInv == ASSUME IInv, NEW u \in Slots, Take(u) PROVE IInv'
<1> DEFINE r == Head(queue[u])
<1>1. /\ queue \in [Slots -> Seq(Requests)] /\ queue[u] # <<>>
      /\ queue' = [queue EXCEPT ![u] = Tail(queue[u])]
      /\ working' = [working EXCEPT ![u] = r]
      /\ executed' = executed \cup {r}
      /\ UNCHANGED <<transport, pc, outcome, response>>
  BY DEF Take, IInv, PartsTyped, handlerVars
<1>2. /\ r = queue[u][1] /\ 1 \in DOMAIN queue[u] /\ r \in Requests
      /\ Tail(queue[u]) \in Seq(Requests)
      /\ \A i \in DOMAIN Tail(queue[u]) :
            /\ Tail(queue[u])[i] = queue[u][i + 1]
            /\ i + 1 \in DOMAIN queue[u] /\ i + 1 # 1 /\ i \in Nat
  BY <1>1, TailOf
<1>3. PartsTyped'
  BY <1>1, <1>2 DEF IInv, PartsTyped
<1>4. \A s \in Slots : queue'[s] = IF s = u THEN Tail(queue[u]) ELSE queue[s]
  BY <1>1
<1>5. Open(r)
  BY <1>2 DEF IInv, Executions
\* What is still in a queue was there before, and is another request.
<1>6. ASSUME NEW s \in Slots, NEW i \in DOMAIN queue'[s]
      PROVE  /\ queue'[s][i] # r
             /\ \E k \in DOMAIN queue[s] : queue'[s][i] = queue[s][k]
             /\ \A t \in Slots : \A j \in DOMAIN queue'[t] :
                   queue'[s][i] = queue'[t][j] => s = t /\ i = j
  <2> DEFINE Was(t, j) == IF t = u THEN j + 1 ELSE j
  <2>1. \A t \in Slots : \A j \in DOMAIN queue'[t] :
            /\ Was(t, j) \in DOMAIN queue[t] /\ queue'[t][j] = queue[t][Was(t, j)]
            /\ t = u => Was(t, j) # 1
    BY <1>2, <1>4
  <2>2. \A t \in Slots : \A j \in DOMAIN queue[t] : \A k \in DOMAIN queue[s] :
            queue[s][k] = queue[t][j] => s = t /\ k = j
    BY DEF IInv, Executions
  <2>3. queue'[s][i] # r
    BY <1>2, <2>1, <2>2
  <2>4. ASSUME NEW t \in Slots, NEW j \in DOMAIN queue'[t], queue'[s][i] = queue'[t][j]
        PROVE  s = t /\ i = j
    <3>1. s = t /\ Was(s, i) = Was(t, j)
      BY <2>1, <2>2, <2>4
    <3>2. CASE s = u
      <4>1. i + 1 = j + 1 /\ t = u
        BY <3>1, <3>2
      <4>2. i \in DOMAIN Tail(queue[u]) /\ j \in DOMAIN Tail(queue[u])
        BY <1>4, <1>6, <2>4, <3>2, <4>1
      <4> QED BY <1>2, <3>1, <4>1, <4>2
    <3>3. CASE s # u
      BY <3>1, <3>3
    <3> QED BY <3>2, <3>3
  <2> QED BY <2>1, <2>3, <2>4
<1>7. ASSUME NEW s \in Slots, NEW i \in DOMAIN queue'[s]
      PROVE  queue'[s][i] \notin executed' /\ Open(queue'[s][i])
  BY <1>1, <1>6 DEF IInv, Executions
<1>8. \A q \in executed' : pc[q] \in After
  BY <1>1, <1>5 DEF IInv, Executions, Open
<1>9. \A s \in Slots : working'[s] # Idle => working'[s] \in executed'
  BY <1>1 DEF IInv, PartsTyped, Executions
<1>10. Executions'
  BY <1>1, <1>6, <1>7, <1>8, <1>9 DEF IInv, Executions, Open
<1> QED BY <1>3, <1>10 DEF IInv

LEMMA RespondIInv == ASSUME IInv, NEW u \in Slots, Respond(u) PROVE IInv'
<1>1. PICK status \in {"ok", "error"} : transport' = Append(transport, <<working[u], status>>)
  BY DEF Respond
<1>2. /\ working[u] # Idle /\ working' = [working EXCEPT ![u] = Idle]
      /\ UNCHANGED <<queue, pc, outcome, response, executed>>
  BY DEF Respond, handlerVars, history
<1>3. working[u] \in Requests /\ working[u] \in executed
  BY <1>2 DEF IInv, PartsTyped, Executions
<1>4. /\ transport' \in Seq(Requests \X {"ok", "error"})
      /\ \A i \in DOMAIN transport' :
            \/ i \in DOMAIN transport /\ transport'[i] = transport[i]
            \/ transport'[i] = <<working[u], status>>
  <2>1. <<working[u], status>> \in Requests \X {"ok", "error"}
    BY <1>3
  <2>2. transport \in Seq(Requests \X {"ok", "error"})
    BY DEF IInv, PartsTyped
  <2> QED BY <1>1, <2>1, <2>2, AppendOf
<1>5. PartsTyped'
  BY <1>2, <1>4 DEF IInv, PartsTyped
<1>6. \A i \in DOMAIN transport' : transport'[i][1] \in executed
  BY <1>3, <1>4 DEF IInv, Executions
<1>7. \A s \in Slots : working'[s] # Idle => working'[s] \in executed
  BY <1>2 DEF IInv, PartsTyped, Executions
<1>8. Executions'
  BY <1>2, <1>6, <1>7 DEF IInv, Executions, Open
<1> QED BY <1>5, <1>8 DEF IInv

LEMMA StopIInv ==
    ASSUME IInv, NEW l, Stop(l), UNCHANGED <<queue, transport, response, pc, outcome, executed>>
    PROVE  IInv'
<1>1. working' = [s \in Slots |-> IF s[1] = l THEN Idle ELSE working[s]]
  BY DEF Stop
<1>2. PartsTyped'
  BY <1>1 DEF IInv, PartsTyped
<1>3. Executions'
  BY <1>1 DEF IInv, Executions, Open
<1> QED BY <1>2, <1>3 DEF IInv

LEMMA HandlerIInv ==
    ASSUME IInv, NEW r \in Requests,
           Receive(r) \/ CheckReady(r) \/ ReadQueues(r) \/ Register(r) \/ Wake(r) \/ Timeout(r)
           \/ Cancel(r)
    PROVE  IInv'
<1>1. CASE Receive(r) \/ CheckReady(r) \/ ReadQueues(r)
  <2>1. /\ pc[r] \in Before /\ UNCHANGED <<queue, working, transport, response, executed>>
        /\ \/ /\ \E p \in Before : pc' = [pc EXCEPT ![r] = p]
              /\ outcome' = outcome
           \/ /\ pc' = [pc EXCEPT ![r] = "ended"]
              /\ \E o \in Refusals : outcome' = [outcome EXCEPT ![r] = o]
    BY <1>1 DEF Receive, CheckReady, ReadQueues, Finish, Goto, Before, Refusals, workVars, history
  <2> QED BY <2>1, BeforeStep
<1>2. CASE Register(r)
  BY <1>2, AfterStep DEF Register, Goto, workVars
<1>3. CASE Wake(r)
  <2>1. /\ pc[r] = "wait" /\ response[r] \in {"ok", "error"}
        /\ pc' = [pc EXCEPT ![r] = "ended"]
        /\ \E o \in {response[r], "crashed"} : outcome' = [outcome EXCEPT ![r] = o]
        /\ UNCHANGED <<queue, working, transport, response, executed>>
    BY <1>3 DEF Wake, Finish, Goto, IInv, PartsTyped, workVars, history
  <2>2. response[r] # None /\ "crashed" \in Failures
    BY <1>3 DEF Wake, Failures
  <2> QED BY <2>1, <2>2, AfterStep
<1>4. CASE Timeout(r) \/ Cancel(r)
  <2>1. /\ pc[r] = "wait" /\ pc' = [pc EXCEPT ![r] = "ended"]
        /\ \E o \in Failures : outcome' = [outcome EXCEPT ![r] = o]
        /\ UNCHANGED <<queue, working, transport, response, executed>>
    BY <1>4 DEF Timeout, Cancel, Finish, Goto, Failures, workVars, history
  <2> QED BY <2>1, AfterStep
<1> QED BY <1>1, <1>2, <1>3, <1>4

LEMMA NextIInv == IInv /\ [Next]_vars => IInv'
<1> SUFFICES ASSUME IInv, [Next]_vars PROVE IInv'
  OBVIOUS
<1>1. CASE UNCHANGED <<queue, working, transport, response, pc, outcome, executed>>
  BY <1>1 DEF IInv, PartsTyped, Executions, Open
<1>2. ASSUME Terminate \/ \E l \in Launches : Crash(l) PROVE IInv'
  BY <1>2, StopIInv DEF Terminate, Crash, handlerVars, history
<1>3. ASSUME Main, ~ Terminate PROVE IInv'
  BY <1>1, <1>3 DEF Main, RemoveEntry, RemoveQueues, LoadAgain, SetQueues, SetReady,
                    workVars, handlerVars, history
<1>4. CASE UNCHANGED vars
  BY <1>1, <1>4 DEF vars, workVars, handlerVars, history
<1> QED BY <1>2, <1>3, <1>4, HandlerIInv, PutIInv, ConsumeIInv, TakeIInv, RespondIInv
        DEF Next, Handle

-----------------------------------------------------------------------------
(* The promise                                                             *)

LEMMA Views ==
    ASSUME NEW r \in Requests
    PROVE  /\ pc[r] \in Before => ClientState[r] = "new"
           /\ pc[r] \in {"register", "wait"} => ClientState[r] = "accepted"
           /\ pc[r] = "ended" /\ outcome[r] \in Refusals => ClientState[r] = "refused"
           /\ pc[r] = "ended" /\ outcome[r] \in {"ok", "error"} => ClientState[r] = "answered"
           /\ pc[r] = "ended" /\ outcome[r] \in Failures => ClientState[r] = "failed"
BY DEF ClientState, Before, Refusals, Failures

\* A step that concerns one request changes the state of no other.
LEMMA ViewChange ==
    ASSUME NEW r \in Requests, NEW p, NEW o,
           pc \in [Requests -> Before \cup After], DOMAIN outcome = Requests,
           pc' = [pc EXCEPT ![r] = p],
           outcome' = [outcome EXCEPT ![r] = o] \/ outcome' = outcome
    PROVE  ClientState' = [ClientState EXCEPT ![r] = ClientState'[r]]
<1>1. ASSUME NEW q \in Requests, q # r PROVE ClientState'[q] = ClientState[q]
  <2>1. pc'[q] = pc[q] /\ outcome'[q] = outcome[q]
    BY <1>1
  <2> QED BY <1>1, <2>1 DEF ClientState
<1>2. /\ ClientState = [q \in Requests |-> ClientState[q]]
      /\ ClientState' = [q \in Requests |-> ClientState'[q]]
  BY DEF ClientState
<1> QED BY <1>1, <1>2

LEMMA ViewSame == pc' = pc /\ outcome' = outcome => ClientState' = ClientState
BY DEF ClientState

\* What a handler does to its request.
LEMMA HandlerPromise ==
    ASSUME PartsTyped, NEW r \in Requests, NEW p, NEW o,
           pc' = [pc EXCEPT ![r] = p],
           outcome' = [outcome EXCEPT ![r] = o] \/ (outcome' = outcome /\ p # "ended"),
           executed' = executed,
           \/ pc[r] \in Before /\ p \in Before \cup {"register"}
           \/ pc[r] \in Before /\ p = "ended" /\ o \in Refusals
           \/ pc[r] = "register" /\ p = "wait"
           \/ pc[r] = "wait" /\ p = "ended" /\ o \in Failures
           \/ pc[r] = "wait" /\ p = "ended" /\ o \in {"ok", "error"} /\ r \in executed
    PROVE  [Promise!Next]_(Promise!vars)
<1>1. pc'[r] = p /\ (p = "ended" => outcome'[r] = o)
  BY DEF PartsTyped
<1>2. ClientState' = [ClientState EXCEPT ![r] = ClientState'[r]]
  BY ViewChange DEF PartsTyped
<1>3. /\ p \in Before => ClientState'[r] = "new"
      /\ p \in {"register", "wait"} => ClientState'[r] = "accepted"
      /\ p = "ended" /\ o \in Refusals => ClientState'[r] = "refused"
      /\ p = "ended" /\ o \in {"ok", "error"} => ClientState'[r] = "answered"
      /\ p = "ended" /\ o \in Failures => ClientState'[r] = "failed"
  BY <1>1 DEF ClientState, Before, Refusals, Failures
<1>4. /\ pc[r] \in Before => ClientState[r] = "new"
      /\ pc[r] \in {"register", "wait"} => ClientState[r] = "accepted"
  BY Views
<1>5. CASE ClientState'[r] = ClientState[r]
  <2>1. ClientState' = ClientState
    <3>1. ClientState' = [ClientState EXCEPT ![r] = ClientState[r]]
      BY <1>2, <1>5
    <3>2. ClientState = [q \in Requests |-> ClientState[q]]
      BY DEF ClientState
    <3> QED BY <3>1, <3>2
  <2> QED BY <2>1 DEF Promise!vars
<1>6. CASE pc[r] \in Before /\ p = "register"
  BY <1>2, <1>3, <1>4, <1>6 DEF Promise!Next, Promise!Accept, Promise!End
<1>7. CASE pc[r] \in Before /\ p = "ended" /\ o \in Refusals
  BY <1>2, <1>3, <1>4, <1>7 DEF Promise!Next, Promise!Refuse, Promise!End
<1>8. CASE pc[r] = "wait" /\ p = "ended" /\ o \in Failures
  BY <1>2, <1>3, <1>4, <1>8 DEF Promise!Next, Promise!Fail, Promise!End
<1>9. CASE pc[r] = "wait" /\ p = "ended" /\ o \in {"ok", "error"} /\ r \in executed
  BY <1>2, <1>3, <1>4, <1>9 DEF Promise!Next, Promise!Answer, Promise!End
<1> QED BY <1>3, <1>4, <1>5, <1>6, <1>7, <1>8, <1>9

\* Taking a request from a queue is its execution: it is open, and for the first
\* time.
LEMMA TakePromise ==
    ASSUME IInv, NEW u \in Slots, Take(u)
    PROVE  Promise!Next
<1> DEFINE r == Head(queue[u])
<1>1. /\ queue[u] \in Seq(Requests) /\ queue[u] # <<>>
      /\ executed' = executed \cup {r} /\ pc' = pc /\ outcome' = outcome
  BY DEF Take, IInv, PartsTyped, handlerVars
<1>2. r = queue[u][1] /\ 1 \in DOMAIN queue[u] /\ r \in Requests
  BY <1>1, TailOf
<1>3. r \notin executed /\ Open(r)
  BY <1>2 DEF IInv, Executions
<1>4. ClientState[r] \in {"accepted", "failed"}
  BY <1>2, <1>3, Views DEF Open, After
<1> QED BY <1>1, <1>2, <1>3, <1>4, ViewSame DEF Promise!Next, Promise!Execute

LEMMA NextPromise == IInv /\ [Next]_vars => [Promise!Next]_(Promise!vars)
<1> SUFFICES ASSUME IInv, [Next]_vars PROVE [Promise!Next]_(Promise!vars)
  OBVIOUS
<1>1. CASE UNCHANGED <<pc, outcome, executed>>
  BY <1>1, ViewSame DEF Promise!vars
<1>2. ASSUME NEW r \in Requests, Receive(r) \/ CheckReady(r) \/ ReadQueues(r)
      PROVE  [Promise!Next]_(Promise!vars)
  <2>1. /\ pc[r] \in Before /\ executed' = executed
        /\ \/ /\ \E p \in Before : pc' = [pc EXCEPT ![r] = p]
              /\ outcome' = outcome
           \/ /\ pc' = [pc EXCEPT ![r] = "ended"]
              /\ \E o \in Refusals : outcome' = [outcome EXCEPT ![r] = o]
    BY <1>2 DEF Receive, CheckReady, ReadQueues, Finish, Goto, Before, Refusals, history
  <2>2. "ended" \notin Before
    BY DEF Before
  <2> QED BY <2>1, <2>2, HandlerPromise DEF IInv
<1>3. ASSUME NEW r \in Requests, Put(r) PROVE [Promise!Next]_(Promise!vars)
  <2>1. /\ pc[r] \in Before /\ executed' = executed
        /\ \/ pc' = [pc EXCEPT ![r] = "register"] /\ outcome' = outcome
           \/ /\ pc' = [pc EXCEPT ![r] = "ended"]
              /\ \E o \in Refusals : outcome' = [outcome EXCEPT ![r] = o]
    BY <1>3 DEF Put, Finish, Goto, Before, Refusals, history
  <2> QED BY <2>1, HandlerPromise DEF IInv
<1>4. ASSUME NEW r \in Requests, Register(r) PROVE [Promise!Next]_(Promise!vars)
  <2>1. /\ pc[r] = "register" /\ executed' = executed
        /\ pc' = [pc EXCEPT ![r] = "wait"] /\ outcome' = outcome
    BY <1>4 DEF Register, Goto
  <2> QED BY <2>1, HandlerPromise DEF IInv
<1>5. ASSUME NEW r \in Requests, Wake(r) PROVE [Promise!Next]_(Promise!vars)
  <2>1. /\ pc[r] = "wait" /\ executed' = executed
        /\ response[r] \in {"ok", "error"} /\ r \in executed
        /\ pc' = [pc EXCEPT ![r] = "ended"]
        /\ \E o \in {response[r], "crashed"} : outcome' = [outcome EXCEPT ![r] = o]
    BY <1>5 DEF Wake, Finish, Goto, IInv, PartsTyped, Executions, history
  <2>2. "crashed" \in Failures
    BY DEF Failures
  <2> QED BY <2>1, <2>2, HandlerPromise DEF IInv
<1>6. ASSUME NEW r \in Requests, Timeout(r) \/ Cancel(r) PROVE [Promise!Next]_(Promise!vars)
  <2>1. /\ pc[r] = "wait" /\ executed' = executed
        /\ pc' = [pc EXCEPT ![r] = "ended"]
        /\ \E o \in Failures : outcome' = [outcome EXCEPT ![r] = o]
    BY <1>6 DEF Timeout, Cancel, Finish, Goto, Failures, history
  <2> QED BY <2>1, HandlerPromise DEF IInv
<1>7. ASSUME Consume \/ Main \/ (\E l \in Launches : Crash(l)) \/ \E s \in Slots : Respond(s)
      PROVE  [Promise!Next]_(Promise!vars)
  BY <1>1, <1>7 DEF Consume, Respond, Crash, Main, RemoveEntry, RemoveQueues, Terminate,
                    LoadAgain, SetQueues, SetReady, handlerVars, history
<1>8. CASE UNCHANGED vars
  BY <1>1, <1>8 DEF vars, handlerVars, history
<1> QED BY <1>2, <1>3, <1>4, <1>5, <1>6, <1>7, <1>8, TakePromise DEF Next, Handle

\* Handlers, queues, workers, the buffer and the unloads and loads of the version keep,
\* step by step, what RequestPromise says: a request that is refused is never
\* executed, none is executed twice, and an answer comes from an execution
\* (submit_infer, _do_litapi_infer, Predict, _response_consumer).  That every accepted
\* request ends is left to TLC (KeepsPromise).
THEOREM RequestsRefinePromise == Spec => Promise!Init /\ [][Promise!Next]_(Promise!vars)
<1>1. Init => Promise!Init
  <2> SUFFICES ASSUME Init PROVE Promise!Init
    OBVIOUS
  <2>1. \A r \in Requests : ClientState[r] = "new"
    BY Views DEF Init, Before
  <2> QED BY <2>1 DEF Init, Promise!Init, ClientState
<1> QED BY <1>1, InitIInv, NextIInv, NextPromise, PTL DEF Spec

-----------------------------------------------------------------------------
(* One place, one buffer item, and the remaining types                     *)

\* The response to r has been stored or dropped.
Delivered(r) == response[r] # None \/ r \in unclaimed

\* What a worker computes and what is in the transport is there once, and has not been
\* delivered.
Singly ==
    /\ \A s \in Slots : working[s] # Idle =>
          /\ ~ Delivered(working[s])
          /\ \A t \in Slots : working[t] = working[s] => t = s
          /\ \A i \in DOMAIN transport : transport[i][1] # working[s]
    /\ \A i \in DOMAIN transport :
          /\ ~ Delivered(transport[i][1])
          /\ \A j \in DOMAIN transport : transport[i][1] = transport[j][1] => i = j
    /\ unclaimed \subseteq executed

\* The buffer holds the requests that wait, unless they have been evicted; the response
\* to an HTTP request is dropped only if it no longer waits or has been evicted.
Buffering ==
    /\ Distinct(buffer)
    /\ \A r \in ToSet(buffer) : pc[r] = "wait"
    /\ \A r \in Requests : pc[r] = "wait" => r \in ToSet(buffer) \/ r \in evicted
    /\ \A r \in unclaimed \cap http : pc[r] = "ended" \/ r \in evicted

\* The parts of TypeOK that PartsTyped leaves out.
RestTyped ==
    /\ http \subseteq Requests
    /\ entry \in {"absent", "LOADING", "READY"}
    /\ queues \in 0 .. MaxLaunches /\ launched \in Launches
    /\ main \in {"loaded", "removing", "terminating", "unloaded", "loading", "waiting"}
    /\ main = "loading" => launched < MaxLaunches
    /\ alive \in [Launches -> BOOLEAN]
    /\ \A s \in Slots : Len(queue[s]) <= QueueSize
    /\ found \in [Requests -> 0 .. MaxLaunches]
    /\ buffer \in Seq(Requests) /\ Len(buffer) <= BufferSize
    /\ evicted \subseteq Requests /\ unclaimed \subseteq Requests

Inv == IInv /\ RestTyped /\ Buffering /\ Singly

LEMMA InitInv == Init => Inv
<1> SUFFICES ASSUME Init PROVE Inv
  OBVIOUS
<1>1. Len(<<>>) = 0 /\ ToSet(<<>>) = {} /\ <<>> \in Seq(Requests) /\ DOMAIN transport = {}
  BY DEF Init, ToSet
<1>2. RestTyped
  BY <1>1, BoundAssumption DEF Init, RestTyped, Launches, NoLaunch
<1>3. Buffering
  <2>1. Distinct(<<>>)
    BY DEF Distinct
  <2> QED BY <1>1, <2>1 DEF Init, Buffering
<1>4. Singly
  BY <1>1 DEF Init, Singly
<1> QED BY <1>2, <1>3, <1>4, InitIInv DEF Inv

LEMMA StepRest == Inv /\ [Next]_vars => RestTyped'
<1> SUFFICES ASSUME Inv, [Next]_vars PROVE RestTyped'
  OBVIOUS
<1> USE DEF RestTyped, Inv
<1>1. CASE UNCHANGED <<http, entry, queues, launched, main, alive, queue, found, buffer, evicted, unclaimed>>
  BY <1>1
<1>2. ASSUME NEW r \in Requests, Receive(r) \/ CheckReady(r) PROVE RestTyped'
  BY <1>1, <1>2 DEF Receive, CheckReady, mainVars, registryVars, workVars, history
<1>3. ASSUME NEW r \in Requests, ReadQueues(r) PROVE RestTyped'
  BY <1>3 DEF ReadQueues, mainVars, registryVars, workVars, history
<1>4. ASSUME NEW r \in Requests, Put(r) PROVE RestTyped'
  <2>1. /\ UNCHANGED <<http, entry, queues, launched, main, alive, found, buffer, evicted, unclaimed>>
        /\ queue \in [Slots -> Seq(Requests)]
    BY <1>4 DEF Put, mainVars, registryVars, history, IInv, PartsTyped
  <2>2. PICK w \in Workers :
            LET s == <<found[r], w>> IN
            \/ Len(queue[s]) < QueueSize /\ queue' = [queue EXCEPT ![s] = Append(@, r)]
            \/ queue' = queue
    BY <1>4 DEF Put
  <2> DEFINE u == <<found[r], w>>
  <2>3. ASSUME NEW s \in Slots PROVE Len(queue'[s]) <= QueueSize
    <3>1. CASE queue' = queue
      BY <3>1
    <3>3. CASE queue' # queue /\ u # s
      <4>1. queue'[s] = queue[s]
        BY <2>1, <2>2, <3>3
      <4> QED BY <4>1
    <3>2. CASE queue' # queue /\ u = s
      <4>1. queue'[s] = Append(queue[s], r) /\ Len(queue[s]) < QueueSize /\ queue[s] \in Seq(Requests)
        BY <2>1, <2>2, <3>2
      <4>2. Len(queue'[s]) = Len(queue[s]) + 1 /\ Len(queue[s]) \in Nat
        BY <4>1, AppendSet
      <4> QED BY <4>1, <4>2, BoundAssumption
    <3> QED BY <3>1, <3>2, <3>3
  <2> QED BY <2>1, <2>3
<1>5. ASSUME NEW r \in Requests, Register(r) PROVE RestTyped'
  <2>1. UNCHANGED <<http, entry, queues, launched, main, alive, queue, found, unclaimed>>
    BY <1>5 DEF Register, mainVars, registryVars, workVars, history
  <2>2. PICK grown : grown = Append(buffer, r)
    OBVIOUS
  <2>3. /\ grown \in Seq(Requests) /\ grown # <<>> /\ Len(grown) = Len(buffer) + 1
        /\ Len(buffer) \in Nat
    BY <2>2, AppendSet
  <2>4. Tail(grown) \in Seq(Requests) /\ Len(Tail(grown)) = Len(grown) - 1 /\ Head(grown) \in Requests
    BY <2>3, TailSet
  <2>5. \/ buffer' = Tail(grown) /\ evicted' = evicted \cup {Head(grown)}
        \/ buffer' = grown /\ evicted' = evicted /\ ~(Len(grown) > BufferSize)
    BY <1>5, <2>2 DEF Register
  <2>6. buffer' \in Seq(Requests) /\ Len(buffer') <= BufferSize
    <3>1. CASE buffer' = Tail(grown)
      <4>1. Len(Tail(grown)) = Len(buffer)
        BY <2>3, <2>4
      <4> QED BY <2>4, <3>1, <4>1
    <3>2. CASE buffer' = grown /\ ~(Len(grown) > BufferSize)
      <4>1. Len(grown) <= BufferSize
        BY <2>3, <3>2, BoundAssumption
      <4> QED BY <2>3, <3>2, <4>1
    <3> QED BY <2>5, <3>1, <3>2
  <2>7. evicted' \subseteq Requests
    BY <2>4, <2>5
  <2> QED BY <2>1, <2>6, <2>7
<1>6. ASSUME NEW r \in Requests, Wake(r) \/ Timeout(r) \/ Cancel(r) PROVE RestTyped'
  <2>1. /\ UNCHANGED <<http, entry, queues, launched, main, alive, queue, found, unclaimed, evicted>>
        /\ buffer' = RemoveFirst(buffer, r)
    BY <1>6 DEF Wake, Timeout, Cancel, Pop, mainVars, registryVars, workVars, history
  <2>2. PICK b : b = RemoveFirst(buffer, r)
    OBVIOUS
  <2>3. b \in Seq(Requests) /\ Len(b) <= Len(buffer)
    BY <2>2, RemoveFirstLeaves DEF Buffering
  <2>4. Len(b) \in Nat /\ Len(buffer) \in Nat /\ BufferSize \in Nat
    BY <2>3, BoundAssumption
  <2> QED BY <2>1, <2>2, <2>3, <2>4
<1>7. ASSUME Consume PROVE RestTyped'
  <2>1. UNCHANGED <<http, entry, queues, launched, main, alive, queue, found, buffer, evicted>>
    BY <1>7 DEF Consume, mainVars, registryVars, workVars, handlerVars
  <2>2. transport \in Seq(Requests \X {"ok", "error"}) /\ transport # <<>>
    BY <1>7 DEF Consume, IInv, PartsTyped
  <2>3. Head(transport) \in Requests \X {"ok", "error"}
    BY <2>2, TailOf
  <2>4. unclaimed' = unclaimed \/ unclaimed' = unclaimed \cup {Head(transport)[1]}
    BY <1>7 DEF Consume
  <2> QED BY <2>1, <2>3, <2>4
<1>8. ASSUME NEW u \in Slots, Take(u) PROVE RestTyped'
  <2>1. /\ UNCHANGED <<http, entry, queues, launched, main, alive, found, buffer, evicted, unclaimed>>
        /\ queue' = [queue EXCEPT ![u] = Tail(queue[u])]
        /\ queue \in [Slots -> Seq(Requests)] /\ queue[u] # <<>>
    BY <1>8 DEF Take, mainVars, registryVars, handlerVars, IInv, PartsTyped
  <2>2. Len(Tail(queue[u])) = Len(queue[u]) - 1 /\ Len(queue[u]) \in Nat
    BY <2>1, TailSet
  <2>3. Len(Tail(queue[u])) <= QueueSize
    BY <2>2, BoundAssumption
  <2> QED BY <2>1, <2>3
<1>9. ASSUME NEW u \in Slots, Respond(u) PROVE RestTyped'
  BY <1>9 DEF Respond, mainVars, registryVars, handlerVars, history
<1>10. ASSUME NEW l, Stop(l) PROVE alive' \in [Launches -> BOOLEAN]
  BY <1>10 DEF Stop
<1>11. ASSUME Terminate \/ \E l \in Launches : Crash(l) PROVE RestTyped'
  <2>1. UNCHANGED <<http, entry, queues, launched, queue, found, buffer, evicted, unclaimed>>
    BY <1>11 DEF Terminate, Crash, registryVars, handlerVars, history
  <2>2. main' \in {main, "unloaded"}
    BY <1>11 DEF Terminate, Crash
  <2>3. alive' \in [Launches -> BOOLEAN]
    BY <1>10, <1>11 DEF Terminate, Crash
  <2> QED BY <2>1, <2>2, <2>3
<1>12. ASSUME Main, ~ Terminate PROVE RestTyped'
  <2>1. UNCHANGED <<http, queue, found, buffer, evicted, unclaimed>>
    BY <1>12 DEF Main, RemoveEntry, RemoveQueues, LoadAgain, SetQueues, SetReady, workVars, handlerVars, history
  <2>2. CASE RemoveEntry \/ RemoveQueues \/ SetReady
    <3>1. /\ UNCHANGED <<launched, alive>> /\ queues' \in {queues, 0}
          /\ entry' \in {"absent", "READY", entry}
          /\ main' \in {"removing", "terminating", "loaded"}
      BY <2>2 DEF RemoveEntry, RemoveQueues, SetReady, NoLaunch
    <3>2. queues' \in 0 .. MaxLaunches
      BY <3>1, BoundAssumption
    <3> QED BY <2>1, <3>1, <3>2
  <2>3. CASE LoadAgain
    BY <2>1, <2>3 DEF LoadAgain
  <2>4. CASE SetQueues
    <3>1. /\ launched' = launched + 1 /\ queues' = launched' /\ entry' = entry /\ main' = "waiting"
          /\ alive' = [alive EXCEPT ![launched'] = TRUE]
          /\ main = "loading"
      BY <2>4 DEF SetQueues
    <3>2. launched' \in Launches /\ launched' \in 0 .. MaxLaunches
      BY <3>1, BoundAssumption DEF Launches
    <3> QED BY <2>1, <3>1, <3>2
  <2> QED BY <1>12, <2>2, <2>3, <2>4 DEF Main
<1>13. CASE UNCHANGED vars
  BY <1>1, <1>13 DEF vars, mainVars, registryVars, workVars, handlerVars, history
<1> QED BY <1>2, <1>3, <1>4, <1>5, <1>6, <1>7, <1>8, <1>9, <1>11, <1>12, <1>13 DEF Next, Handle

LEMMA StepBuffering == Inv /\ [Next]_vars => Buffering'
<1> SUFFICES ASSUME Inv, [Next]_vars PROVE Buffering'
  OBVIOUS
<1>1. pc \in [Requests -> Before \cup After] /\ buffer \in Seq(Requests)
  BY DEF Inv, IInv, PartsTyped, RestTyped
<1>2. Buffering
  BY DEF Inv
<1>3. CASE UNCHANGED <<pc, buffer, evicted, unclaimed, http>>
  BY <1>2, <1>3 DEF Buffering
<1>4. ASSUME NEW r \in Requests, pc[r] # "wait", NEW p, p # "wait", pc' = [pc EXCEPT ![r] = p],
             pc[r] \in Before \/ p = "ended",
             UNCHANGED <<buffer, evicted, unclaimed, http>>
      PROVE  Buffering'
  <2>1. \A q \in Requests : pc'[q] = "wait" <=> pc[q] = "wait"
    BY <1>1, <1>4
  <2>2. \A q \in Requests : pc[q] = "ended" => pc'[q] = "ended"
    BY <1>1, <1>4 DEF Before
  <2>3. ToSet(buffer) \subseteq Requests
    BY <1>1 DEF ToSet
  <2>4. unclaimed \subseteq Requests
    BY DEF Inv, RestTyped
  <2> QED BY <1>2, <1>4, <2>1, <2>2, <2>3, <2>4 DEF Buffering
<1>5. ASSUME NEW r \in Requests, Receive(r) \/ CheckReady(r) \/ ReadQueues(r) \/ Put(r)
      PROVE  Buffering'
  <2>1. /\ pc[r] \in Before /\ UNCHANGED <<buffer, evicted, unclaimed, http>>
        /\ \E p \in Before \cup {"register", "ended"} : pc' = [pc EXCEPT ![r] = p]
    BY <1>5 DEF Receive, CheckReady, ReadQueues, Put, Finish, Goto, Before, mainVars, history
  <2> QED BY <1>4, <2>1 DEF Before
<1>6. ASSUME NEW r \in Requests, Register(r) PROVE Buffering'
  <2>1. /\ pc[r] = "register" /\ pc' = [pc EXCEPT ![r] = "wait"]
        /\ UNCHANGED <<unclaimed, http>>
    BY <1>6 DEF Register, Goto, mainVars
  <2>2. PICK grown : grown = Append(buffer, r)
    OBVIOUS
  <2>3. /\ grown \in Seq(Requests) /\ grown # <<>> /\ Distinct(grown)
        /\ ToSet(grown) = ToSet(buffer) \cup {r}
    <3>1. r \notin ToSet(buffer)
      BY <1>2, <2>1 DEF Buffering
    <3> QED BY <1>1, <1>2, <2>2, <3>1, AppendSet DEF Buffering
  <2>4. /\ ToSet(grown) = {Head(grown)} \cup ToSet(Tail(grown)) /\ Distinct(Tail(grown))
        /\ Tail(grown) \in Seq(Requests)
    BY <2>3, TailSet
  <2>5. \/ buffer' = Tail(grown) /\ evicted' = evicted \cup {Head(grown)}
        \/ buffer' = grown /\ evicted' = evicted
    BY <1>6, <2>2 DEF Register
  <2>6. /\ Distinct(buffer') /\ ToSet(buffer') \subseteq ToSet(buffer) \cup {r}
        /\ ToSet(buffer) \cup {r} \subseteq ToSet(buffer') \cup evicted'
        /\ evicted \subseteq evicted'
    BY <2>3, <2>4, <2>5
  <2>7. /\ \A q \in Requests : pc'[q] = "wait" <=> pc[q] = "wait" \/ q = r
        /\ \A q \in Requests : pc[q] = "ended" => pc'[q] = "ended"
        /\ ToSet(buffer) \subseteq Requests /\ unclaimed \subseteq Requests
    BY <1>1, <2>1 DEF ToSet, Inv, RestTyped
  <2>8. \A q \in ToSet(buffer') : pc'[q] = "wait"
    BY <1>2, <2>6, <2>7 DEF Buffering
  <2>9. \A q \in Requests : pc'[q] = "wait" => q \in ToSet(buffer') \/ q \in evicted'
    BY <1>2, <2>6, <2>7 DEF Buffering
  <2>10. \A q \in unclaimed' \cap http' : pc'[q] = "ended" \/ q \in evicted'
    BY <1>2, <2>1, <2>6, <2>7 DEF Buffering
  <2> QED BY <2>6, <2>8, <2>9, <2>10 DEF Buffering
<1>7. ASSUME NEW r \in Requests, Wake(r) \/ Timeout(r) \/ Cancel(r) PROVE Buffering'
  <2>1. /\ pc[r] = "wait" /\ pc' = [pc EXCEPT ![r] = "ended"]
        /\ UNCHANGED <<unclaimed, evicted, http>> /\ buffer' = RemoveFirst(buffer, r)
    BY <1>7 DEF Wake, Timeout, Cancel, Finish, Goto, Pop, mainVars, history
  <2>2. PICK b : b = RemoveFirst(buffer, r)
    OBVIOUS
  <2>3. Distinct(b) /\ ToSet(b) = ToSet(buffer) \ {r}
    BY <1>1, <1>2, <2>2, RemoveFirstLeaves DEF Buffering
  <2>4. buffer' = b
    BY <2>1, <2>2
  <2>5. /\ \A q \in Requests : pc'[q] = "wait" <=> pc[q] = "wait" /\ q # r
        /\ \A q \in Requests : pc[q] = "ended" => pc'[q] = "ended"
        /\ ToSet(buffer) \subseteq Requests /\ unclaimed \subseteq Requests
    BY <1>1, <2>1 DEF ToSet, Inv, RestTyped
  <2>6. /\ \A q \in ToSet(b) : pc'[q] = "wait"
        /\ \A q \in Requests : pc'[q] = "wait" => q \in ToSet(b) \/ q \in evicted
        /\ \A q \in unclaimed \cap http : pc'[q] = "ended" \/ q \in evicted
    BY <1>2, <2>3, <2>5 DEF Buffering
  <2> QED BY <2>1, <2>3, <2>4, <2>6 DEF Buffering
\* No coroutine of the loop is between its put and its registration when the consumer
\* runs.
<1>8. ASSUME Consume PROVE Buffering'
  <2>1. UNCHANGED <<pc, buffer, evicted, http>> /\ LoopFree
    BY <1>8 DEF Consume, handlerVars, mainVars
  <2>2. transport \in Seq(Requests \X {"ok", "error"}) /\ transport # <<>>
    BY <1>8 DEF Consume, Inv, IInv, PartsTyped
  <2> DEFINE r == Head(transport)[1]
  <2>3. Head(transport) \in Requests \X {"ok", "error"} /\ Head(transport) = transport[1] /\ 1 \in DOMAIN transport
    BY <2>2, TailOf
  <2>4. r \in Requests /\ pc[r] \in After
    BY <2>3 DEF Inv, IInv, Executions
  <2>5. unclaimed' = unclaimed \/ (unclaimed' = unclaimed \cup {r} /\ r \notin ToSet(buffer))
    BY <1>8 DEF Consume
  <2>6. r \in http /\ r \notin ToSet(buffer) => pc[r] = "ended" \/ r \in evicted
    BY <1>2, <2>1, <2>4 DEF LoopFree, After, Buffering
  <2> QED BY <1>2, <2>1, <2>5, <2>6 DEF Buffering
<1>9. ASSUME \/ \E s \in Slots : Take(s) \/ Respond(s)
             \/ Main \/ \E l \in Launches : Crash(l)
      PROVE  Buffering'
  BY <1>3, <1>9 DEF Take, Respond, Crash, Main, RemoveEntry, RemoveQueues, Terminate,
                    LoadAgain, SetQueues, SetReady, handlerVars, mainVars, history
<1>10. CASE UNCHANGED vars
  BY <1>3, <1>10 DEF vars, handlerVars, mainVars, history
<1> QED BY <1>5, <1>6, <1>7, <1>8, <1>9, <1>10 DEF Next, Handle

LEMMA StepSingly == Inv /\ [Next]_vars => Singly'
<1> SUFFICES ASSUME Inv, [Next]_vars PROVE Singly'
  OBVIOUS
<1>1. PartsTyped /\ Executions /\ Singly
  BY DEF Inv, IInv
<1>2. CASE UNCHANGED <<working, transport, response, unclaimed, executed>>
  BY <1>1, <1>2 DEF Singly, Delivered
<1>3. ASSUME NEW u \in Slots, Take(u) PROVE Singly'
  <2> DEFINE r == Head(queue[u])
  <2>1. /\ working' = [working EXCEPT ![u] = r] /\ executed' = executed \cup {r}
        /\ UNCHANGED <<transport, response, unclaimed>>
        /\ queue[u] \in Seq(Requests) /\ queue[u] # <<>> /\ working \in [Slots -> Requests \cup {Idle}]
    BY <1>1, <1>3 DEF Take, PartsTyped
  <2>2. r = queue[u][1] /\ 1 \in DOMAIN queue[u] /\ r \in Requests
    BY <2>1, TailOf
  <2>3. r \notin executed
    BY <1>1, <2>2 DEF Executions
  <2>4. ~ Delivered(r)
    BY <1>1, <2>2, <2>3 DEF Executions, Singly, Delivered
  <2>5. /\ \A s \in Slots : working[s] # r \/ r = Idle
        /\ \A i \in DOMAIN transport : transport[i][1] # r
    BY <1>1, <2>3 DEF Executions
  <2>6. r # Idle
    BY <2>2, IdleAssumption
  <2>7. \A s \in Slots : working'[s] = IF s = u THEN r ELSE working[s]
    BY <2>1
  <2>8. ASSUME NEW s \in Slots, working'[s] # Idle
        PROVE  /\ ~ Delivered(working'[s])
               /\ \A t \in Slots : working'[t] = working'[s] => t = s
               /\ \A i \in DOMAIN transport : transport[i][1] # working'[s]
    <3>1. CASE s = u
      BY <2>4, <2>5, <2>6, <2>7, <3>1
    <3>2. CASE s # u
      BY <1>1, <2>5, <2>6, <2>7, <2>8, <3>2 DEF Singly
    <3> QED BY <3>1, <3>2
  <2> QED BY <1>1, <2>1, <2>8 DEF Singly, Delivered
<1>4. ASSUME NEW u \in Slots, Respond(u) PROVE Singly'
  <2>1. PICK status \in {"ok", "error"} : transport' = Append(transport, <<working[u], status>>)
    BY <1>4 DEF Respond
  <2>2. /\ working[u] # Idle /\ working' = [working EXCEPT ![u] = Idle]
        /\ UNCHANGED <<response, unclaimed, executed>>
        /\ working \in [Slots -> Requests \cup {Idle}]
        /\ transport \in Seq(Requests \X {"ok", "error"})
    BY <1>1, <1>4 DEF Respond, history, PartsTyped
  <2>3. PICK m : m = <<working[u], status>>
    OBVIOUS
  <2>4. m \in Requests \X {"ok", "error"} /\ m[1] = working[u]
    BY <2>2, <2>3
  <2>5. /\ DOMAIN transport' = DOMAIN transport \cup {Len(transport) + 1}
        /\ \A i \in DOMAIN transport' :
              \/ i \in DOMAIN transport /\ transport'[i] = transport[i]
              \/ i = Len(transport) + 1 /\ transport'[i] = m
    BY <2>1, <2>2, <2>3, <2>4, AppendOf
  <2>6. /\ ~ Delivered(m[1])
        /\ \A t \in Slots : working[t] = m[1] => t = u
        /\ \A i \in DOMAIN transport : transport[i][1] # m[1]
    BY <1>1, <2>2, <2>4 DEF Singly
  <2>7. \A s \in Slots : working'[s] # Idle => s # u /\ working'[s] = working[s]
    BY <2>2
  <2>8. ASSUME NEW s \in Slots, working'[s] # Idle
        PROVE  /\ ~ Delivered(working'[s])
               /\ \A t \in Slots : working'[t] = working'[s] => t = s
               /\ \A i \in DOMAIN transport' : transport'[i][1] # working'[s]
    <3>1. s # u /\ working'[s] = working[s] /\ working[s] # Idle /\ working[s] # m[1]
      BY <2>6, <2>7, <2>8
    <3>2. \A t \in Slots : working'[t] = working'[s] => working[t] = working[s]
      BY <2>7, <2>8, <3>1
    <3> QED BY <1>1, <2>5, <3>1, <3>2 DEF Singly
  <2>9. ASSUME NEW i \in DOMAIN transport'
        PROVE  /\ ~ Delivered(transport'[i][1])
               /\ \A j \in DOMAIN transport' : transport'[i][1] = transport'[j][1] => i = j
    BY <1>1, <2>5, <2>6 DEF Singly
  <2> QED BY <1>1, <2>2, <2>8, <2>9 DEF Singly, Delivered
<1>5. ASSUME Consume PROVE Singly'
  <2>1. /\ UNCHANGED <<working, executed>> /\ transport' = Tail(transport)
        /\ transport \in Seq(Requests \X {"ok", "error"}) /\ transport # <<>>
        /\ response \in [Requests -> {"ok", "error", None}]
    BY <1>1, <1>5 DEF Consume, workVars, PartsTyped
  <2>2. PICK m : m = Head(transport)
    OBVIOUS
  <2>3. /\ m \in Requests \X {"ok", "error"} /\ m = transport[1] /\ 1 \in DOMAIN transport
        /\ \A i \in DOMAIN transport' :
              /\ transport'[i] = transport[i + 1]
              /\ i + 1 \in DOMAIN transport /\ i + 1 # 1 /\ i \in Nat
    BY <2>1, <2>2, TailOf
  <2>4. \/ response' = [response EXCEPT ![m[1]] = m[2]] /\ unclaimed' = unclaimed
        \/ response' = response /\ unclaimed' = unclaimed \cup {m[1]}
    BY <1>5, <2>2 DEF Consume
  <2>5. ASSUME NEW q \in Requests, q # m[1] PROVE Delivered(q)' <=> Delivered(q)
    BY <2>1, <2>4, <2>5 DEF Delivered
  <2>6. /\ m[1] \in executed
        /\ \A s \in Slots : working[s] # Idle => working[s] # m[1]
        /\ \A i \in DOMAIN transport : transport[i][1] = m[1] => i = 1
    BY <1>1, <2>3 DEF Executions, Singly
  <2>7. ASSUME NEW s \in Slots, working[s] # Idle
        PROVE  /\ ~ Delivered(working[s])'
               /\ \A t \in Slots : working[t] = working[s] => t = s
               /\ \A i \in DOMAIN transport' : transport'[i][1] # working[s]
    <3>1. PICK q \in Requests : q = working[s]
      BY <1>1, <2>7 DEF PartsTyped
    <3>2. ~ Delivered(q)'
      BY <1>1, <2>5, <2>6, <2>7, <3>1 DEF Singly
    <3> QED BY <1>1, <2>1, <2>3, <2>7, <3>1, <3>2 DEF Singly, Delivered
  <2>8. ASSUME NEW i \in DOMAIN transport'
        PROVE  /\ response'[transport'[i][1]] = None /\ transport'[i][1] \notin unclaimed'
               /\ \A j \in DOMAIN transport' : transport'[i][1] = transport'[j][1] => i = j
    <3>1. PICK q \in Requests : q = transport[i + 1][1]
      BY <2>1, <2>3
    <3>2. q # m[1] /\ ~ Delivered(q)
      BY <1>1, <2>3, <2>6, <3>1 DEF Singly
    <3>3. response'[q] = None /\ q \notin unclaimed' /\ q = transport'[i][1]
      BY <2>3, <2>5, <3>1, <3>2 DEF Delivered
    <3>4. ASSUME NEW j \in DOMAIN transport', transport'[i][1] = transport'[j][1] PROVE i = j
      <4>1. i + 1 = j + 1 /\ i \in Nat /\ j \in Nat
        BY <1>1, <2>3, <3>4 DEF Singly
      <4> QED BY <4>1
    <3> QED BY <3>3, <3>4
  <2>9. unclaimed' \subseteq executed'
    BY <1>1, <2>1, <2>4, <2>6 DEF Singly
  <2>10. ASSUME NEW s \in Slots, working'[s] # Idle
         PROVE  /\ response'[working'[s]] = None /\ working'[s] \notin unclaimed'
                /\ \A t \in Slots : working'[t] = working'[s] => t = s
                /\ \A i \in DOMAIN transport' : transport'[i][1] # working'[s]
    BY <2>1, <2>7, <2>10 DEF Delivered
  <2> QED BY <2>8, <2>9, <2>10 DEF Singly, Delivered
<1>6. ASSUME NEW l, Stop(l), UNCHANGED <<transport, response, unclaimed, executed>>
      PROVE  Singly'
  <2>1. \A s \in Slots : working'[s] # Idle => working'[s] = working[s]
    BY <1>6 DEF Stop
  <2> QED BY <1>1, <1>6, <2>1 DEF Singly, Delivered
<1>7. ASSUME Terminate \/ \E l \in Launches : Crash(l) PROVE Singly'
  BY <1>6, <1>7 DEF Terminate, Crash, history
<1>8. ASSUME Main, ~ Terminate PROVE Singly'
  BY <1>2, <1>8 DEF Main, RemoveEntry, RemoveQueues, LoadAgain, SetQueues, SetReady,
                    workVars, history
<1>9. ASSUME NEW r \in Requests, Receive(r) \/ CheckReady(r) \/ Handle(r) \/ Cancel(r)
      PROVE  Singly'
  BY <1>2, <1>9 DEF Receive, CheckReady, Handle, ReadQueues, Put, Register, Wake, Timeout,
                    Cancel, workVars, history
<1>10. CASE UNCHANGED vars
  BY <1>2, <1>10 DEF vars, workVars, history
<1> QED BY <1>3, <1>4, <1>5, <1>7, <1>8, <1>9, <1>10 DEF Next

LEMMA NextInv == Inv /\ [Next]_vars => Inv'
BY NextIInv, StepRest, StepBuffering, StepSingly DEF Inv

LEMMA Invariance == Spec => []Inv
BY InitInv, NextInv, PTL DEF Spec

\* No queue and no buffer outgrows its limit, and every part of the state keeps its
\* type (submit_infer, ResponseBuffer, _response_consumer).
THEOREM RequestsTypeCorrect == Spec => []TypeOK
<1>1. Inv => TypeOK
  <2> SUFFICES ASSUME Inv PROVE TypeOK
    OBVIOUS
  <2>1. Before \cup After = Submitting \cup {"new", "wait", "ended"}
    BY DEF Before, After, Submitting
  <2> QED BY <2>1 DEF Inv, IInv, PartsTyped, RestTyped, TypeOK
<1> QED BY <1>1, Invariance, PTL

\* However a request ends, its item has gone from the response buffer; and the response
\* to an HTTP request that still waits is dropped only if its item was evicted: it never
\* comes before the item is registered (_do_litapi_infer, _response_consumer).
THEOREM ResponsesFindTheirWaiter == Spec => []ResponseFindsWaiter
<1>1. Inv => ResponseFindsWaiter
  BY DEF Inv, Buffering, ResponseFindsWaiter
<1> QED BY <1>1, Invariance, PTL

\* A request is in at most one place, so that it is executed and answered at most once,
\* whatever happens to its handler, its worker and its version (submit_infer, the
\* inference workers, _response_consumer).
THEOREM RequestsAreNeverDuplicated == Spec => []NeverTwice
<1>1. ASSUME Inv, NEW r \in Requests PROVE Cardinality(Places(r)) <= 1
  <2>1. PartsTyped /\ Executions /\ Singly
    BY <1>1 DEF Inv, IInv
  <2>2. ASSUME NEW s \in Slots, r \in ToSet(queue[s])
        PROVE  r \notin executed /\ \A t \in Slots : r \in ToSet(queue[t]) => t = s
    <3>1. PICK i \in DOMAIN queue[s] : r = queue[s][i]
      BY <2>2 DEF ToSet
    <3>2. r \notin executed
      BY <2>1, <3>1 DEF Executions
    <3>3. ASSUME NEW t \in Slots, r \in ToSet(queue[t]) PROVE t = s
      <4>1. PICK j \in DOMAIN queue[t] : r = queue[t][j]
        BY <3>3 DEF ToSet
      <4> QED BY <2>1, <3>1, <4>1 DEF Executions
    <3> QED BY <3>2, <3>3
  <2>3. r # Idle
    BY IdleAssumption
  <2>4. ASSUME NEW s \in Slots, working[s] = r
        PROVE  /\ r \in executed /\ ~ Delivered(r)
               /\ \A t \in Slots : working[t] = r => t = s
               /\ \A i \in DOMAIN transport : transport[i][1] # r
    BY <2>1, <2>3, <2>4 DEF Executions, Singly
  <2>5. ASSUME NEW i \in DOMAIN transport, transport[i][1] = r
        PROVE  /\ r \in executed /\ ~ Delivered(r)
               /\ \A j \in DOMAIN transport : transport[j][1] = r => i = j
    BY <2>1, <2>5 DEF Executions, Singly
  <2>6. Delivered(r) => r \in executed
    BY <2>1 DEF Executions, Singly, Delivered
  <2>7. ASSUME NEW x \in Places(r)
        PROVE  \/ x \in Slots /\ r \in ToSet(queue[x])
               \/ \E s \in Slots : working[s] = r /\ x = <<s, "working">>
               \/ \E i \in DOMAIN transport : transport[i][1] = r /\ x = <<i, "transport">>
               \/ Delivered(r) /\ x = "delivered"
    BY <2>7 DEF Places, Delivered
  <2>8. ASSUME NEW x \in Places(r), NEW y \in Places(r) PROVE x = y
    BY <2>2, <2>4, <2>5, <2>6, <2>7
  <2>9. Places(r) = {} \/ \E x : Places(r) = {x}
    BY <2>8
  <2>10. CASE Places(r) = {}
    BY <2>10, FS_EmptySet
  <2>11. CASE \E x : Places(r) = {x}
    <3>1. PICK x : Places(r) = {x}
      BY <2>11
    <3>2. Cardinality({x}) = 1
      BY FS_Singleton
    <3> QED BY <3>1, <3>2
  <2> QED BY <2>9, <2>10, <2>11
<1>2. Inv => NeverTwice
  BY <1>1 DEF NeverTwice
<1> QED BY <1>2, Invariance, PTL
================================================================================
