-------------------------- MODULE InferenceRequest --------------------------
(***************************************************************************)
(* Unary inference requests: submit_infer (core/model_manager.py), the     *)
(* HTTP handler _do_litapi_infer and the response consumer                 *)
(* (http/handlers.py), Predict (grpc/servicer.py) and the response buffer  *)
(* (core/response_buffer.py), while the version is unloaded and loaded     *)
(* again.                                                                  *)
(*                                                                         *)
(* A request is put on the queue of one worker of the version; the worker  *)
(* puts its response into the transport; the consumer, a coroutine of the  *)
(* HTTP process, looks the request up in the response buffer and wakes     *)
(* whoever waits for it.  HTTP handlers and the consumer share one event   *)
(* loop, gRPC requests have threads of their own in the same process.      *)
(***************************************************************************)
EXTENDS Naturals, FiniteSets, Sequences, SequencesExt

CONSTANTS
    Requests,       \* unary inference requests
    Workers,        \* worker ids of a launch
    MaxLaunches,    \* bound: launches of the version in a behaviour
    QueueSize,      \* max_queue_size of a worker's request queue
    BufferSize      \* max_size of the response buffer

ASSUME BoundAssumption ==
    /\ MaxLaunches \in Nat \ {0}
    /\ QueueSize \in Nat \ {0}
    /\ BufferSize \in Nat \ {0}

NoLaunch == 0
Launches == 1 .. MaxLaunches

VARIABLES
    http,       \* requests that come by HTTP; the others come by gRPC
    entry,      \* registry: status of the version
    queues,     \* registry: the launch whose queues are registered
    main,       \* the main process: what it is doing to the version
    launched,   \* number of launches so far
    alive,      \* per launch: its workers are running
    queue,      \* per launch and worker: its request queue
    working,    \* per launch and worker: the request it computes
    transport,  \* responses on their way: <<request, status>>
    pc,         \* per request: position of its handler
    found,      \* per request: the launch whose queues it has read
    buffer,     \* response buffer: its requests, oldest first
    response,   \* per request: the response stored in its buffer item
    outcome,    \* per request: what its client gets
    executed,   \* history: requests taken up by a worker
    evicted,    \* history: requests whose item was evicted from the buffer
    unclaimed   \* history: requests whose response found no item

registryVars == <<entry, queues>>
mainVars == <<http, registryVars, main, launched, alive>>
workVars == <<queue, working>>
handlerVars == <<pc, found, outcome>>
history == <<executed, evicted, unclaimed>>
vars == <<mainVars, workVars, transport, handlerVars, buffer, response, history>>

-----------------------------------------------------------------------------
\* Positions of a handler inside submit_infer and up to the registration.
Submitting == {"ready", "queues", "fallback", "put", "register"}

Idle == "idle"   \* a worker that computes nothing
None == "none"   \* no response, no outcome

ASSUME IdleAssumption == Idle \notin Requests

Refusals == {"not ready", "not found", "queue full"}
Failures == {"timeout", "cancelled", "crashed"}

Slots == Launches \X Workers

\* HTTP handlers run to their next await without giving the loop away.
LoopFree == \A r \in http : pc[r] \notin {"queues", "fallback", "put", "register"}

MayRun(r) == r \in http /\ pc[r] = "ready" => LoopFree

-----------------------------------------------------------------------------
Init ==
    /\ http \in SUBSET Requests
    /\ entry = "READY" /\ queues = 1
    /\ main = "loaded" /\ launched = 1
    /\ alive = [l \in Launches |-> l = 1]
    /\ queue = [s \in Slots |-> <<>>]
    /\ working = [s \in Slots |-> Idle]
    /\ transport = <<>>
    /\ pc = [r \in Requests |-> "new"]
    /\ found = [r \in Requests |-> NoLaunch]
    /\ buffer = <<>>
    /\ response = [r \in Requests |-> None]
    /\ outcome = [r \in Requests |-> None]
    /\ executed = {} /\ evicted = {} /\ unclaimed = {}

Goto(r, step) == pc' = [pc EXCEPT ![r] = step]

\* The handler returns to its client.
Finish(r, result) ==
    /\ Goto(r, "ended")
    /\ outcome' = [outcome EXCEPT ![r] = result]

\* pop(uid, None): a dictionary holds a uid at most once.
Pop(r) == buffer' = RemoveFirst(buffer, r)

-----------------------------------------------------------------------------
(* Submission                                                              *)

\* The handler's own test of the version; HTTP then awaits the body.
Receive(r) ==
    /\ pc[r] = "new" /\ (r \in http => LoopFree)
    /\ \/ entry = "READY" /\ Goto(r, "ready") /\ UNCHANGED outcome
       \/ entry # "READY" /\ Finish(r, "not ready")
    /\ UNCHANGED <<mainVars, workVars, transport, found, buffer, response, history>>

\* submit_infer tests it again.
CheckReady(r) ==
    /\ pc[r] = "ready" /\ MayRun(r)
    /\ \/ entry = "READY" /\ Goto(r, "queues") /\ UNCHANGED outcome
       \/ entry # "READY" /\ Finish(r, "not ready")
    /\ UNCHANGED <<mainVars, workVars, transport, found, buffer, response, history>>

\* get_worker_queues, then get_queue if there are none: other calls of the
\* Manager, which may see the registry of another moment.  (get_queue returns the
\* queue of worker 0; here, that of any worker.)
ReadQueues(r) ==
    /\ pc[r] \in {"queues", "fallback"}
    /\ found' = [found EXCEPT ![r] = queues]
    /\ \/ queues # NoLaunch /\ Goto(r, "put") /\ UNCHANGED outcome
       \/ /\ queues = NoLaunch /\ pc[r] = "queues"
          /\ Goto(r, "fallback") /\ UNCHANGED outcome
       \/ queues = NoLaunch /\ pc[r] = "fallback" /\ Finish(r, "not found")
    /\ UNCHANGED <<mainVars, workVars, transport, buffer, response, history>>

\* Variant with a bug: the item is queued although the queue is full, and the
\* client is told that it is not.
Put_EvenIfFull(r) ==
    /\ pc[r] = "put"
    /\ \E w \in Workers :
         LET s == <<found[r], w>> IN
         /\ queue' = [queue EXCEPT ![s] = Append(@, r)]
         /\ \/ Len(queue[s]) < QueueSize /\ Goto(r, "register") /\ UNCHANGED outcome
            \/ Len(queue[s]) = QueueSize /\ Finish(r, "queue full")
    /\ UNCHANGED <<mainVars, working, transport, found, buffer, response, history>>

\* Variant with a bug: every worker of the launch gets the request.
Put_Broadcast(r) ==
    /\ pc[r] = "put"
    /\ queue' = [s \in Slots |-> IF s[1] = found[r] THEN Append(queue[s], r) ELSE queue[s]]
    /\ Goto(r, "register")
    /\ UNCHANGED <<mainVars, working, transport, found, buffer, response, outcome, history>>

\* put_nowait on the queue of a random worker; nobody looks whether the launch
\* it belongs to is still the one that serves the version.
Put(r) ==
    /\ pc[r] = "put"
    /\ \E w \in Workers :
         LET s == <<found[r], w>> IN
         \/ /\ Len(queue[s]) < QueueSize
            /\ queue' = [queue EXCEPT ![s] = Append(@, r)]
            /\ Goto(r, "register") /\ UNCHANGED outcome
         \/ /\ Len(queue[s]) = QueueSize
            /\ Finish(r, "queue full") /\ UNCHANGED queue
    /\ UNCHANGED <<mainVars, working, transport, found, buffer, response, history>>

\* Variant with a bug: nothing is evicted.
Register_NoLimit(r) ==
    /\ pc[r] = "register"
    /\ Goto(r, "wait") /\ buffer' = Append(buffer, r)
    /\ UNCHANGED <<mainVars, workVars, transport, found, response, outcome, history>>

\* response_buffer[uid] = item; beyond max_size the oldest item goes.
Register(r) ==
    LET grown == Append(buffer, r) IN
    /\ pc[r] = "register"
    /\ Goto(r, "wait")
    /\ IF Len(grown) > BufferSize
       THEN buffer' = Tail(grown) /\ evicted' = evicted \cup {Head(grown)}
       ELSE buffer' = grown /\ UNCHANGED evicted
    /\ UNCHANGED <<mainVars, workVars, transport, found, response, outcome, executed, unclaimed>>

-----------------------------------------------------------------------------
(* Waiting                                                                 *)

\* The event is set: the item is popped, or it is no longer there (KeyError).
Wake(r) ==
    /\ pc[r] = "wait" /\ response[r] # None /\ (r \in http => LoopFree)
    /\ Finish(r, IF r \in ToSet(buffer) THEN response[r] ELSE "crashed")
    /\ Pop(r)
    /\ UNCHANGED <<mainVars, workVars, transport, found, response, history>>

\* Variants with a bug: the item stays in the buffer; there is no time-out.
Timeout_Leaks(r) ==
    /\ pc[r] = "wait" /\ (r \in http => LoopFree)
    /\ Finish(r, "timeout")
    /\ UNCHANGED <<mainVars, workVars, transport, found, buffer, response, history>>

Timeout_Never(r) == FALSE /\ UNCHANGED vars

\* server.timeout has passed.  The time-out of a coroutine may win against a
\* response that is already there; event.wait() of a thread looks at the event.
Timeout(r) ==
    /\ pc[r] = "wait" /\ (r \in http => LoopFree)
    /\ r \notin http => response[r] = None
    /\ Finish(r, "timeout")
    /\ Pop(r)
    /\ UNCHANGED <<mainVars, workVars, transport, found, response, history>>

\* The task of an HTTP handler is cancelled.
Cancel(r) ==
    /\ r \in http /\ pc[r] = "wait" /\ LoopFree
    /\ Finish(r, "cancelled")
    /\ Pop(r)
    /\ UNCHANGED <<mainVars, workVars, transport, found, response, history>>

\* Variant with a bug: the consumer is a thread, not a coroutine of the loop.
Consume_AnyTime ==
    /\ transport # <<>>
    /\ transport' = Tail(transport)
    /\ LET r == Head(transport)[1] IN
       IF r \in ToSet(buffer)
       THEN /\ response' = [response EXCEPT ![r] = Head(transport)[2]]
            /\ UNCHANGED unclaimed
       ELSE unclaimed' = unclaimed \cup {r} /\ UNCHANGED response
    /\ UNCHANGED <<mainVars, workVars, handlerVars, buffer, executed, evicted>>

\* _response_consumer: a response whose uid is not in the buffer is dropped.
Consume ==
    /\ transport # <<>> /\ LoopFree
    /\ transport' = Tail(transport)
    /\ LET r == Head(transport)[1] IN
       IF r \in ToSet(buffer)
       THEN /\ response' = [response EXCEPT ![r] = Head(transport)[2]]
            /\ UNCHANGED unclaimed
       ELSE unclaimed' = unclaimed \cup {r} /\ UNCHANGED response
    /\ UNCHANGED <<mainVars, workVars, handlerVars, buffer, executed, evicted>>

-----------------------------------------------------------------------------
(* Inference workers                                                       *)

Take(s) ==
    /\ alive[s[1]] /\ working[s] = Idle /\ queue[s] # <<>>
    /\ working' = [working EXCEPT ![s] = Head(queue[s])]
    /\ queue' = [queue EXCEPT ![s] = Tail(@)]
    /\ executed' = executed \cup {Head(queue[s])}
    /\ UNCHANGED <<mainVars, transport, handlerVars, buffer, response, evicted, unclaimed>>

\* predict has returned or raised; the response goes out with its uid.
Respond(s) ==
    /\ alive[s[1]] /\ working[s] # Idle
    /\ \E status \in {"ok", "error"} : transport' = Append(transport, <<working[s], status>>)
    /\ working' = [working EXCEPT ![s] = Idle]
    /\ UNCHANGED <<mainVars, queue, handlerVars, buffer, response, history>>

\* A launch stops working: its processes crash, or an unload terminates them
\* after it has removed the registry entry.  Nobody restarts them, and what
\* they were computing is lost.
Stop(l) ==
    /\ alive' = [alive EXCEPT ![l] = FALSE]
    /\ working' = [s \in Slots |-> IF s[1] = l THEN Idle ELSE working[s]]

Crash(l) ==
    /\ alive[l] /\ Stop(l)
    /\ UNCHANGED <<http, registryVars, main, launched, queue, transport, handlerVars, buffer, response, history>>

-----------------------------------------------------------------------------
(* The main process unloads the version and loads it again                 *)

\* The version becomes UNLOADING, which to a request is like its absence; then
\* registry.remove pops the entry, and after it the queues.
RemoveEntry ==
    /\ main = "loaded"
    /\ entry' = "absent" /\ main' = "removing"
    /\ UNCHANGED <<http, queues, launched, alive, workVars, transport, handlerVars, buffer, response, history>>

RemoveQueues ==
    /\ main = "removing"
    /\ queues' = NoLaunch /\ main' = "terminating"
    /\ UNCHANGED <<http, entry, launched, alive, workVars, transport, handlerVars, buffer, response, history>>

Terminate ==
    /\ main = "terminating"
    /\ Stop(launched) /\ main' = "unloaded"
    /\ UNCHANGED <<http, registryVars, launched, queue, transport, handlerVars, buffer, response, history>>

\* _load_litapi: registered, queues set, workers launched and waited for.  If
\* they die meanwhile the load fails, and the version is as little READY as
\* while it was loading.
LoadAgain ==
    /\ main = "unloaded" /\ launched < MaxLaunches
    /\ entry' = "LOADING" /\ main' = "loading"
    /\ UNCHANGED <<http, queues, launched, alive, workVars, transport, handlerVars, buffer, response, history>>

SetQueues ==
    /\ main = "loading"
    /\ launched' = launched + 1
    /\ queues' = launched' /\ alive' = [alive EXCEPT ![launched'] = TRUE]
    /\ main' = "waiting"
    /\ UNCHANGED <<http, entry, workVars, transport, handlerVars, buffer, response, history>>

SetReady ==
    /\ main = "waiting" /\ alive[launched]
    /\ entry' = "READY" /\ main' = "loaded"
    /\ UNCHANGED <<http, queues, launched, alive, workVars, transport, handlerVars, buffer, response, history>>

-----------------------------------------------------------------------------
Handle(r) == ReadQueues(r) \/ Put(r) \/ Register(r) \/ Wake(r) \/ Timeout(r)

Main == RemoveEntry \/ RemoveQueues \/ Terminate \/ LoadAgain \/ SetQueues \/ SetReady

Next ==
    \/ \E r \in Requests : Receive(r) \/ CheckReady(r) \/ Handle(r) \/ Cancel(r)
    \/ Consume
    \/ \E s \in Slots : Take(s) \/ Respond(s)
    \/ \E l \in Launches : Crash(l)
    \/ Main

\* A handler that has the body of its request runs whenever the loop or its
\* thread lets it, and timers fire.  Clients, workers, the consumer and the main
\* process need not do anything.
FairSpec == Init /\ [][Next]_vars /\ \A r \in Requests : WF_vars(Handle(r))

-----------------------------------------------------------------------------
(* Properties                                                              *)

TypeOK ==
    /\ http \subseteq Requests
    /\ entry \in {"absent", "LOADING", "READY"}
    /\ queues \in 0 .. MaxLaunches /\ launched \in Launches
    /\ main \in {"loaded", "removing", "terminating", "unloaded", "loading", "waiting"}
    /\ alive \in [Launches -> BOOLEAN]
    /\ queue \in [Slots -> Seq(Requests)] /\ \A s \in Slots : Len(queue[s]) <= QueueSize
    /\ working \in [Slots -> Requests \cup {Idle}]
    /\ transport \in Seq(Requests \X {"ok", "error"})
    /\ pc \in [Requests -> Submitting \cup {"new", "wait", "ended"}]
    /\ found \in [Requests -> 0 .. MaxLaunches]
    /\ buffer \in Seq(Requests) /\ Len(buffer) <= BufferSize
    /\ response \in [Requests -> {"ok", "error", None}]
    /\ outcome \in [Requests -> {"ok", "error", None} \cup Refusals \cup Failures]
    /\ executed \cup evicted \cup unclaimed \subseteq Requests

\* A request is in one place: in one queue, at one worker, in the transport, or
\* its response has been stored or dropped.  It is never executed twice.
Places(r) ==
    {s \in Slots : r \in ToSet(queue[s])} \cup
    {<<s, "working">> : s \in {t \in Slots : working[t] = r}} \cup
    {<<i, "transport">> : i \in {j \in DOMAIN transport : transport[j][1] = r}} \cup
    (IF response[r] # None \/ r \in unclaimed THEN {"delivered"} ELSE {})

NeverTwice == \A r \in Requests : Cardinality(Places(r)) <= 1

\* A request's item is in the response buffer as long as its response is of
\* use, and no longer: however a request ends, its item has gone; and a response
\* to an HTTP request that still waits is dropped only if the item was evicted,
\* so that it never comes too early.
ResponseFindsWaiter ==
    /\ \A r \in Requests : pc[r] = "ended" => r \notin ToSet(buffer)
    /\ \A r \in unclaimed \cap http : pc[r] = "ended" \/ r \in evicted

\* The client's view of a request.
ClientState == [r \in Requests |->
    CASE pc[r] \in {"new", "ready", "queues", "fallback", "put"} -> "new"
      [] pc[r] \in {"register", "wait"} -> "accepted"
      [] pc[r] = "ended" /\ outcome[r] \in Refusals -> "refused"
      [] pc[r] = "ended" /\ outcome[r] \in {"ok", "error"} -> "answered"
      [] OTHER -> "failed"]

Promise == INSTANCE RequestPromise WITH state <- ClientState

\* Requests, queues, workers and the buffer together keep RequestPromise.
KeepsPromise == Promise!Spec
=============================================================================
