------------------------------- MODULE FrontEnd -------------------------------
(***************************************************************************)
(* What an HTTP or gRPC front end keeps about its requests apart from the  *)
(* response buffer: the gauges and start times of SystemMetrics            *)
(* (observability/collector.py) and the cache of LitAPI hooks              *)
(* (http/state.py), as http/handlers.py and grpc/servicer.py use them while *)
(* versions are loaded, unloaded and activated.                            *)
(***************************************************************************)
EXTENDS Integers, FiniteSets, FiniteSetsExt

CONSTANTS
    Calls,        \* requests and streams
    Releases,     \* versions of the model
    Composites,   \* those that are ensembles
    Anon,         \* no version: in a request, or active
    MaxLoads      \* bound: loads of versions

ASSUME FrontEndAssumption ==
    /\ IsFiniteSet(Calls) /\ IsFiniteSet(Releases) /\ Composites \subseteq Releases
    /\ Anon \notin Releases /\ MaxLoads \in Nat

\* infer: POST .../infer.  socket: a WebSocket.  The others are over gRPC.
Kinds == {"infer", "socket", "predict", "stream", "bidirectional"}

Labels == Releases \cup {Anon}

VARIABLES
    kind, asked,   \* per call: its kind, and the version in its URL
    loads,         \* versions loaded so far
    current,       \* registry: the load that a version's entry is from, 0 if none
    selected,      \* registry: the active version
    hooks,         \* _hook_cache: Missing, 0 (None), or the load it is from
    stage,         \* per call: "new", "begun", "waiting", "open" or "ended"
    label,         \* per call: resolved_version
    depth,         \* lightserver_queue_depth, per version
    steps,         \* the same of the sub-models of ensembles
    streams,       \* lightserver_streaming_connections, summed
    starts, first, \* _request_start_times, _stream_first_token_times
    onRequest,     \* per call: the load whose hook has seen the request
    onResponse,    \* per call: the load whose hook has seen the response
    queuedFor,     \* per call: the version whose queue it was put on
    unstable,      \* history: calls during which the registry has changed
    unopened       \* history: streams that could not be opened

Missing == -1

registryVars == <<loads, current, selected>>
gaugeVars == <<depth, steps, streams, starts, first>>
callVars == <<stage, label, onRequest, onResponse, queuedFor>>
frontEndVars == <<kind, asked, registryVars, hooks, gaugeVars, callVars, unstable, unopened>>

FrontEndInit ==
    /\ kind \in [Calls -> Kinds]
    /\ asked \in [Calls -> Labels]
    /\ loads = 0 /\ current = [v \in Releases |-> 0] /\ selected = Anon
    /\ hooks = [v \in Releases |-> Missing]
    /\ stage = [c \in Calls |-> "new"]
    /\ label = [c \in Calls |-> Anon]
    /\ depth = [v \in Labels |-> 0] /\ steps = 0 /\ streams = 0
    /\ starts = {} /\ first = {}
    /\ onRequest = [c \in Calls |-> 0] /\ onResponse = [c \in Calls |-> 0]
    /\ queuedFor = [c \in Calls |-> Anon]
    /\ unstable = {} /\ unopened = {}

InProgress == {c \in Calls : stage[c] \notin {"new", "ended"}}

-----------------------------------------------------------------------------
(* The registry, changed by the main process                               *)

Change(active, entries) ==
    /\ selected' = active
    /\ current' = entries
    /\ unstable' = unstable \cup InProgress
    /\ UNCHANGED <<kind, asked, hooks, gaugeVars, callVars, unopened>>

LoadRelease(v) ==
    /\ current[v] = 0 /\ loads < MaxLoads
    /\ loads' = loads + 1
    /\ Change(IF selected = Anon THEN v ELSE selected, [current EXCEPT ![v] = loads + 1])

UnloadRelease(v) ==
    /\ current[v] # 0
    /\ \E w \in {u \in Releases \ {v} : current[u] # 0} \cup {Anon} :
          Change(IF selected = v THEN w ELSE selected, [current EXCEPT ![v] = 0])
    /\ UNCHANGED loads

ActivateRelease(v) ==
    /\ current[v] # 0 /\ selected # v
    /\ Change(v, current)
    /\ UNCHANGED loads

\* The version that a request means now.
Meant(c) == IF asked[c] = Anon THEN selected ELSE asked[c]

IsReady(v) == v # Anon /\ current[v] # 0

-----------------------------------------------------------------------------
(* get_litapi_hooks                                                        *)

\* The cache afterwards and the load whose hooks are returned (0: None).  A
\* version that is not registered has none; the first look-up of another makes
\* an instance, which may fail or define no hook.
Lookup(v) ==
    IF v = Anon THEN {<<hooks, 0>>}
    ELSE IF hooks[v] # Missing /\ current[v] = 0 THEN {<<[hooks EXCEPT ![v] = Missing], 0>>}
    ELSE IF hooks[v] # Missing THEN {<<hooks, hooks[v]>>}
    ELSE {<<[hooks EXCEPT ![v] = h], h>> : h \in {0, current[v]}}

-----------------------------------------------------------------------------
(* POST .../infer                                                          *)

\* record_request_end, and the answer goes to the client.
RequestEnds(c) ==
    /\ starts' = starts \ {c}
    /\ stage' = [stage EXCEPT ![c] = "ended"]

\* _do_infer up to the body of the request.
BeginInfer(c) ==
    /\ stage[c] = "new" /\ kind[c] = "infer"
    /\ label' = [label EXCEPT ![c] = Meant(c)]
    /\ \/ /\ IsReady(Meant(c))
          /\ starts' = starts \cup {c}
          /\ stage' = [stage EXCEPT ![c] = "begun"]
       \/ ~IsReady(Meant(c)) /\ RequestEnds(c)
    /\ UNCHANGED <<kind, asked, registryVars, hooks, depth, steps, streams, first,
                   onRequest, onResponse, queuedFor, unstable, unopened>>

\* on_request, and submit_infer: the request is queued and counted.  A hook may
\* raise, the queue be full.  An ensemble submits a request for every step.
SubmitInfer(c) ==
    /\ stage[c] = "begun"
    /\ \E looked \in Lookup(label[c]) :
          /\ hooks' = looked[1]
          /\ onRequest' = [onRequest EXCEPT ![c] = looked[2]]
    /\ \/ /\ IsReady(Meant(c)) /\ Meant(c) \notin Composites
          /\ depth' = [depth EXCEPT ![Meant(c)] = @ + 1]
          /\ queuedFor' = [queuedFor EXCEPT ![c] = Meant(c)]
          /\ stage' = [stage EXCEPT ![c] = "waiting"]
          /\ UNCHANGED <<steps, starts>>
       \/ /\ IsReady(Meant(c)) /\ Meant(c) \in Composites
          /\ steps' = steps + 1
          /\ RequestEnds(c)
          /\ UNCHANGED <<depth, queuedFor>>
       \/ RequestEnds(c) /\ UNCHANGED <<depth, steps, queuedFor>>
    /\ UNCHANGED <<kind, asked, registryVars, streams, first, label, onResponse,
                   unstable, unopened>>

\* The response has come, and passes on_response; or a time-out, or the client
\* has gone.  The gauge of what is then the active version is lowered.
EndInfer(c) ==
    /\ stage[c] = "waiting" /\ kind[c] = "infer"
    /\ \/ \E looked \in Lookup(Meant(c)) :
             hooks' = looked[1] /\ onResponse' = [onResponse EXCEPT ![c] = looked[2]]
       \/ UNCHANGED <<hooks, onResponse>>
    /\ depth' = [depth EXCEPT ![Meant(c)] = @ - 1]
    /\ RequestEnds(c)
    /\ UNCHANGED <<kind, asked, registryVars, steps, streams, first, label, onRequest,
                   queuedFor, unstable, unopened>>

\* Predict over gRPC: submit_infer counts it, nothing counts its end.
Predict(c) ==
    /\ stage[c] = "new" /\ kind[c] = "predict"
    /\ stage' = [stage EXCEPT ![c] = "ended"]
    /\ \/ /\ IsReady(Meant(c))
          /\ depth' = [depth EXCEPT ![Meant(c)] = @ + 1]
          /\ queuedFor' = [queuedFor EXCEPT ![c] = Meant(c)]
       \/ UNCHANGED <<depth, queuedFor>>
    /\ UNCHANGED <<kind, asked, registryVars, hooks, steps, streams, starts, first, label,
                   onRequest, onResponse, unstable, unopened>>

-----------------------------------------------------------------------------
(* Streams                                                                 *)

\* _do_ws_stream: a request is recorded, a stream is opened.
OpenSocket(c) ==
    /\ stage[c] = "new" /\ kind[c] = "socket"
    /\ label' = [label EXCEPT ![c] = Meant(c)]
    /\ \/ /\ IsReady(Meant(c))
          /\ starts' = starts \cup {c}
          /\ streams' = streams + 1 /\ first' = first \cup {c}
          /\ stage' = [stage EXCEPT ![c] = "open"]
          /\ UNCHANGED unopened
       \/ ~IsReady(Meant(c)) /\ RequestEnds(c) /\ UNCHANGED <<streams, first, unopened>>
       \/ /\ IsReady(Meant(c))      \* submit_stream_open raises
          /\ streams' = streams - 1 /\ unopened' = unopened \cup {c}
          /\ RequestEnds(c)
          /\ UNCHANGED first
    /\ UNCHANGED <<kind, asked, registryVars, hooks, depth, steps, onRequest, onResponse,
                   queuedFor, unstable>>

\* A stream over gRPC is opened, without recording a request; or an attempt
\* ends by record_stream_close all the same.
OpenStream(c) ==
    /\ streams' = streams + 1 /\ first' = first \cup {c}
    /\ stage' = [stage EXCEPT ![c] = "open"]
    /\ UNCHANGED unopened

OpeningFails(c) ==
    /\ streams' = streams - 1 /\ unopened' = unopened \cup {c}
    /\ stage' = [stage EXCEPT ![c] = "ended"]
    /\ UNCHANGED first

NotOpened(c) ==
    /\ stage' = [stage EXCEPT ![c] = "ended"]
    /\ UNCHANGED <<streams, first, unopened>>

\* StreamPredict: a payload that is no JSON, or a full queue.
StreamPredict(c) ==
    /\ stage[c] = "new" /\ kind[c] = "stream"
    /\ IF IsReady(Meant(c)) THEN OpenStream(c) \/ OpeningFails(c) ELSE NotOpened(c)
    /\ UNCHANGED <<kind, asked, registryVars, hooks, depth, steps, starts, label, onRequest,
                   onResponse, queuedFor, unstable>>

\* BidirectionalStream: the same and a model that is not ready, but not a first
\* chunk that names no model.
BidirectionalStream(c) ==
    /\ stage[c] = "new" /\ kind[c] = "bidirectional"
    /\ \/ IsReady(Meant(c)) /\ OpenStream(c)
       \/ OpeningFails(c)
       \/ NotOpened(c)
    /\ UNCHANGED <<kind, asked, registryVars, hooks, depth, steps, starts, label, onRequest,
                   onResponse, queuedFor, unstable>>

\* record_stream_chunk: the first chunk ends the time to the first token.
StreamChunk(c) ==
    /\ stage[c] = "open"
    /\ starts' = starts \ {c}
    /\ UNCHANGED <<kind, asked, registryVars, hooks, depth, steps, streams, first, callVars,
                   unstable, unopened>>

\* Variant with a bug: a stream that has sent nothing is not taken off.
CloseStream_OnlyStarted(c) ==
    /\ stage[c] = "open"
    /\ streams' = IF c \in starts THEN streams ELSE streams - 1
    /\ first' = first \ {c}
    /\ RequestEnds(c)
    /\ UNCHANGED <<kind, asked, registryVars, hooks, depth, steps, label, onRequest,
                   onResponse, queuedFor, unstable, unopened>>

\* record_stream_close and, for a WebSocket, record_request_end.
CloseStream(c) ==
    /\ stage[c] = "open"
    /\ streams' = streams - 1
    /\ first' = first \ {c}
    /\ RequestEnds(c)
    /\ UNCHANGED <<kind, asked, registryVars, hooks, depth, steps, label, onRequest,
                   onResponse, queuedFor, unstable, unopened>>

-----------------------------------------------------------------------------
FrontEndNext ==
    \/ \E v \in Releases : LoadRelease(v) \/ UnloadRelease(v) \/ ActivateRelease(v)
    \/ \E c \in Calls : \/ BeginInfer(c) \/ SubmitInfer(c) \/ EndInfer(c) \/ Predict(c)
                        \/ OpenSocket(c) \/ StreamPredict(c) \/ BidirectionalStream(c)
                        \/ StreamChunk(c) \/ CloseStream(c)

FrontEndSpec == FrontEndInit /\ [][FrontEndNext]_frontEndVars

-----------------------------------------------------------------------------
(* Properties                                                              *)

FrontEndTypeOK ==
    /\ kind \in [Calls -> Kinds] /\ asked \in [Calls -> Labels]
    /\ loads \in 0 .. MaxLoads /\ current \in [Releases -> 0 .. MaxLoads]
    /\ selected \in Labels
    /\ hooks \in [Releases -> Missing .. MaxLoads]
    /\ stage \in [Calls -> {"new", "begun", "waiting", "open", "ended"}]
    /\ label \in [Calls -> Labels] /\ queuedFor \in [Calls -> Labels]
    /\ depth \in [Labels -> Int] /\ steps \in Nat /\ streams \in Int
    /\ starts \cup first \cup unstable \cup unopened \subseteq Calls
    /\ onRequest \in [Calls -> 0 .. MaxLoads] /\ onResponse \in [Calls -> 0 .. MaxLoads]

Total(f) == MapThenSumSet(LAMBDA v : f[v], DOMAIN f)

\* Unary calls on a queue of version v (V: all labels), for ever if over gRPC.
Queued(V) ==
    {c \in Calls : queuedFor[c] \in V \cap Releases /\ (kind[c] = "predict" \/ stage[c] = "waiting")}

\* What a front end counts up it counts down again, however a call ends: start
\* times and first-token times are kept of calls in progress only; the depths
\* of all versions together are the requests that wait (those over gRPC and the
\* steps of ensembles are never counted down), and each depth is right unless
\* the registry has changed during a request; the gauge of streams is the
\* number of open ones, less those that could not be opened.  And a request
\* during which the registry has not changed is passed to hooks of one load
\* (record_*, _do_infer, _do_litapi_infer, get_litapi_hooks).
GaugesBalance ==
    /\ starts \subseteq InProgress /\ first = {c \in Calls : stage[c] = "open"}
    /\ Total(depth) = Cardinality(Queued(Labels))
    /\ {c \in Calls : kind[c] = "infer"} \cap unstable = {} =>
          \A v \in Releases : depth[v] = Cardinality(Queued({v}))
    /\ streams = Cardinality(first) - Cardinality(unopened)
    /\ \A c \in Calls \ unstable :
          onResponse[c] # 0 => onRequest[c] = onResponse[c]
=============================================================================
