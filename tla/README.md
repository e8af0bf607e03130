# TLA+ models of light-server

light-server serves machine-learning models: a main process manages a
repository of model versions, starts inference worker processes for them and
answers HTTP, WebSocket and gRPC requests. This directory models the parts of
it whose correctness depends on the order in which threads, processes and
messages meet. Every definition is translated from `src/light_server`; the
`map` of `PROJECT.json` names the lines each one stands for.

## 1. The system

### Parts and their state

| Part | Source | State | Operations |
|---|---|---|---|
| Model registry | `core/registry.py` | Manager dicts: entries (status, config, type), per-worker queues, legacy queue, active version of each model | register, set_status, remove, is_ready, activate_version, deactivate, ... - each one or two calls of the Manager, no lock across them |
| Model manager | `core/model_manager.py` | `_workers` (processes per version key), `_workers_setup_status`, LitAPI instances, `_model_lock` (an RLock); stream routing and worker loads | load, unload, reload, delete_version, activate, orchestration files; submit_infer, submit_stream_* |
| Main server | `core/server.py` | admin queue and response queues, shutdown flag, HTTP worker processes | start-up loading, admin loop, repository poller, shutdown |
| HTTP front end | `http/state.py`, `http/handlers.py`, `http/admin.py`, `http/app.py`, `http/worker.py` | per process: response buffer, hook cache, stream routing, shared-memory buffer, event loop | infer, WebSocket streams, admin calls, response consumer |
| gRPC front end | `grpc/servicer.py` | the main process's response buffer | Predict, StreamPredict, BidirectionalStream, LoadModel, UnloadModel |
| Response buffer | `core/response_buffer.py` | uid -> item, insertion time | set, get, pop, expiry, eviction |
| Worker loops | `core/loops.py` | request queue, open stream sessions | adaptive batching, one-shot streaming, stream sessions |
| Shared memory | `core/shm_buffer.py` | segments and their ages | offload, retrieve, garbage collection |
| Ensembles | `core/ensemble.py` | parsed DAG; per request: context, items | validation, layering, execution |
| Artifacts | `artifact/*` | archives, cache directory, paths of artifact models | pack, sign, validate, extract, purge |
| Import of model code | `core/loader.py` | `sys.path`, `sys.modules`, the patched `REGISTRY.register` | import a `model.py` |
| Benchmark engine | `analyzer/benchmark.py` | workers, latencies, counters | fixed and ramp runs, for requests and streams |
| Front-end gauges, hooks | `observability/collector.py`, `http/state.py` | start times, queue depths, active streams; hook cache per process | record_*, get_litapi_hooks |
| Logging | `logging/*`, `core/server.py` | log queue, handlers | log, consume, drain at shutdown |
| Orchestration file | `core/model_manager.py`, `http/state.py` | `orchestration.yaml` | read, update one model's strategy |
| Web UI, reports | `webui/*`, `analyzer/*` | benchmark flag, store | benchmark jobs, Pareto front |
| Export of metrics, CLI, generator | `metrics/*`, `webui/metrics_agg.py`, `cli.py`, `init/*` | files | no control depends on them |

### How they interact

- HTTP worker processes and the main process share the registry through a
  `multiprocessing.Manager`. Only the main process has a `ModelManager`; the
  others ask for loads and unloads through the admin queue and wait for an
  answer in a response queue of their own. Activation is an exception: a worker
  calls `registry.activate_version` itself, without the manager's lock.
- `ModelManager` is called by the admin loop, the poller thread, the gRPC
  thread pool, the start-up code and, with a single HTTP process, the event loop.
- A request is put on the queue of one inference worker; the worker puts its
  answer into a transport queue chosen by `response_queue_id`; a consumer
  coroutine looks the uid up in the response buffer and wakes the handler.

### What is hard, and what makes each part correct

| Part | Hard behaviour | Properties |
|---|---|---|
| Lifecycle | a load runs mostly without the lock; unload, reload, delete and activate come in between; every stage may fail; workers hang or die | no worker forgotten or owned twice, loads exclude each other, the active version is READY, READY is served, the version limit, nothing half done at rest, operations return |
| Admin IPC | untagged results, time-outs that leave a `get()` behind, commands that raise | each result taken once, by the right process; a call alone gets its own; every command executed, every call ends |
| Inference requests | answer racing with time-out, disconnect, unload, eviction, worker crash | the caller's entry never leaks, answers are lost only for stated reasons, every request ends |
| Streams | close and disconnect racing with the generator; a full queue; messages of a stream without a version go to the version active when they are sent; items that expire | chunks and outputs complete and in order, no wake-up lost, a session ends with its stream unless its CLOSE did not come |
| Batching, shared memory | failed retrieval in the middle of a batch, segments collected while queued | every request that was taken is answered or dies with the worker, segments neither leak nor vanish early |
| Start-up, poller, shutdown | strategies written twice; stale scans; loads and signals in the middle of shutdown | the poller confirms start-up and comes to rest; a server that shuts down exits |
| Ensembles | invalid graphs; steps of a layer that fail, time out or are cancelled together | exactly the graphs that cannot run are refused; a step has its inputs; nothing is left behind |
| Artifacts | extraction by several threads, crashes, purge with the last version, deletions and configurations in the cache | a directory of the cache is one archive, whole but for what an operator has changed in it; loaded versions keep their files |
| Benchmark engine | workers stopped or cancelled inside a call | every call is counted once |
| Gauges, hooks | raised here, lowered there, under other conditions; reload between two hooks | gauges come back; one load's hooks per request |
| Import of model code | overlapping imports | the process is left as it was |
| Logging | two readers at shutdown, killed writers | each record once per file, none lost without a reason |
| Orchestration file | partial writes, a poller that reads them | an update changes one model's strategy |

`PROJECT.json` lists the hazards line by line, with the properties that cover
them or the reason why none does.

## 2. Modules

| Module | What it is |
|---|---|
| `ModelLifecycle` | `ModelManager` and `ModelRegistry` for one model: load, unload, reload, delete, activate by any number of threads |
| `MCModelLifecycle` | its instances for TLC |
| `ModelLifecycle_proofs` | its inductive invariant and theorems |
| `AdminIPC` | `_admin_call` in HTTP workers and the admin loop in the main process |
| `MCAdminIPC` | its instance for TLC |
| `AdminIPC_proofs` | its types, no result given twice, undisturbed calls get their own |
| `RequestPromise` | abstract: what the client of a unary request is promised |
| `InferenceRequest` | submission, queues, workers, response buffer and handlers, HTTP and gRPC; implements `RequestPromise` |
| `MCInferenceRequest` | its instance for TLC |
| `InferenceRequest_proofs` | the refinement of `RequestPromise`, step by step; its types, nothing twice, the response buffer |
| `StreamSession` | bidirectional streams from the client's handler to the generator in the worker and back |
| `MCStreamSession` | its instance for TLC |
| `StreamSession_proofs` | types, no session left, no wake-up lost, streams complete and in order |
| `Batching` | `AdaptiveBatchedLoop` and `ShmPayloadBuffer`: from `submit_infer` to the batch |
| `MCBatching` | its instance for TLC |
| `Batching_proofs` | types, segments accounted for |
| `LightServer` | the main process from `run()` to its exit: start-up, poller, commands, signals, shutdown, with the model manager in small |
| `MCLightServer` | its instances for TLC |
| `LightServer_proofs` | types, the poller confirms start-up |
| `Ensemble` | parser and executor of ensembles |
| `Artifacts` | packing, the artifact cache, scans, loads, purges, deletions and configurations |
| `Benchmark` | the benchmark engines |
| `FrontEnd` | gauges, start times and the hook cache of a front end |
| `Loader` | `import_module_from_file` in several threads |
| `Logging` | log queue, consumer and shutdown |
| `Orchestration` | updates of `orchestration.yaml` and the poller |
| `MCComponents` | `Ensemble` to `Orchestration` in one run for TLC |
| `Components_proofs` | their invariants and theorems, and those of the seven together |
| `DataLemmas` | lemmas about sequences, finite sets and sums that the proofs share |

### ModelLifecycle

State. `registry`, `queues` and `active` are the Manager dicts; `held` and
`pool` are the keys and the process lists of `_workers` (the placeholder `[]`
is a held key with an empty pool); `setup` and `report` are
`_workers_setup_status` and the start-up dict of a launch; `proc` is what the
processes of a launch are doing. A *launch* is one call of `_launch_workers`.
Per thread, `pc`, `call`, `ver` and the local variables `mine` (`workers`),
`watch` (`status_dict`), `stop` (`workers_to_stop`), `wasActive`, `todo`.

Atomicity. A critical section of `_model_lock` is one action, and every access
to shared state outside it is an action of its own: the registration, the
queues, the launch, the look-up of the status dict, the wait, the termination
of processes after an unload, the two Manager calls of `activate_version`. The
one critical section that shows an intermediate state to readers without the
lock, the end of a load with `_enforce_max_versions`, is two actions, and
`LockFree` keeps other critical sections out between them.

| Code | Actions |
|---|---|
| `load` | `Load`, `EnterLoad`, `InspectDir`, then `LoadEnsemble` or `Register`, `BuildApi`, `LaunchWorkers`, `PublishWorkers`, `CaptureStatus`, `WorkersReady`/`WaitRaises`, `FinishLoad`, `EnforceMaxVersions`; `FailLoad`, `DropPlaceholder` |
| `unload`, `reload`, `delete_version` | `Unload`, `UnloadAll`, `UnloadNext`, `UnloadAllDone`, `Reload`, `Delete`, `UnloadOne`, `TerminateWorkers`, `RemoveDir` |
| `activate`, `activate_version` | `Activate`; `ActivateUnlocked`, `CheckReady`, `SetActive` |
| worker processes, operator | `WorkerReady`, `WorkerDies`, `AddDir` |

`raced` is a history variable: an unload has hit a version while another thread
was loading it, or was between the READY check and the assignment of
`activate_version`. What the code guarantees in spite of that is stated without
it; what that race breaks is stated as `~raced => ...`, and the run
`lifecycle_quiescent` shows what happens with it.

### AdminIPC

`commands` is the admin queue, `responses` the response queue of each HTTP
worker, `pending` and `getter` the executor threads that run the blocking
`get()`, `state` the coroutine. `Timeout` is `wait_for`: it cancels a `get()`
that has not started, and cannot cancel one that has. `PoolSize` bounds the
executor, so that abandoned `get()`s can use it up. What a command does to the
models is `ModelLifecycle`.

### InferenceRequest

`entry` and `queues` are the registry as requests see it, `main` what the main
process is doing to the version (`ModelLifecycle` in small: unload, load again),
`queue` the per-worker queues of each launch, `transport` the responses on
their way, `buffer` and `response` the items of `TTLResponseBuffer`, `pc` the
handler. The front end of a request is a choice of the initial state (`http`):
HTTP handlers and the consumer are coroutines of one event loop and run from
one `await` to the next (`LoopFree`), gRPC handlers are threads.

| Code | Actions |
|---|---|
| `_do_infer`, `Predict` up to `submit_infer` | `Receive` |
| `submit_infer` | `CheckReady`, `ReadQueues`, `Put`: a Manager call each |
| registration and waiting | `Register`, `Wake`, `Timeout`, `Cancel` |
| `_response_consumer` | `Consume` |
| inference workers (litserve) | `Take`, `Respond`, `Crash` |
| unload and load by the main process | `RemoveEntry`, `RemoveQueues`, `Terminate`, `LoadAgain`, `SetQueues`, `SetReady` |

`RequestPromise` is the specification that a client needs: what is refused is
never executed, an answer comes from an execution, what is accepted ends.
`KeepsPromise` states that `InferenceRequest` implements it, with the refinement
mapping `ClientState`: a request counts as accepted once it is on a queue.

### StreamSession

One handler per stream stands for `_do_ws_stream` with its two tasks,
`StreamPredict` and `BidirectionalStream`: they differ only in when they send
chunks, close the input and give up, and the model allows all of it. `queue` is
the request queue of the worker, `sessions`, `closed` and `input` belong to
`BidirectionalStreamingLoop` and its `StreamSession`s, `thread`, `read` and
`produced` to the threads that run the generators, `inbox` and `event` to the
items in the response buffer. The consumer appends (`Consume`) and then sets the
event (`Signal`); the handler clears it (`Wake`), empties the queue (`Receive`)
and sleeps (`Drained`). Registering an item and sending OPEN is one action: the
item comes first and nothing can answer before OPEN. `Expire` is
`TTLResponseBuffer` removing the item of a stream that has lasted too long (or
that is the oldest of too many); its handler still holds the item and waits on
it. A worker that dies takes with it what its feeder thread has not written.

The model is about the worker of one version, and the streams whose OPEN goes to
it. The client of an `Unversioned` stream has named no version: `submit_stream_*`
then take the version that is active at that moment, for every message anew. Any
version, or one without queues, may have been activated in between, so that at
every message such a stream has a choice: it comes to this worker, or it does
not. What goes elsewhere is not followed (another worker passes over messages of a
stream it does not know), and messages of other versions' streams that come to
this worker in the same way, and are passed over, are not modelled. `lost` and
`astray` are history variables: the streams whose CLOSE, and those of which a
chunk, has not come to the worker, because the queue was full or because it went
elsewhere. A stream with a version is in `lost` for a full queue alone.

### Batching

`queue` is the worker's request queue, `segments` the shared memory of the
machine (a segment is named by its request), `created` and `lastGC` the
bookkeeping of each process's `ShmPayloadBuffer`, `batch`, `late` and `restored`
the local variables of `get_batch_requests`. `Submit` is `submit_infer` with
`offload` and the collection that it may start; `TakeFirst`, `Drain`,
`FoundEmpty`, `Full`, `Decide`, `Await` and `Enough` are the steps of collecting
a batch, `Restore` one `retrieve`. A clock (`now`, bounded by `MaxTime`) gives
segments and requests their ages.

### LightServer

The main thread is `phase`, `todo` and its position in a load or unload; the
poller is `poll`, `seen` and `missing`; the admin loop and gRPC are threads that
enter loads and unloads (`Command`). The model manager is taken in small: every
critical section of a load or unload is one action (`LoadRegister`,
`LoadPublish`, `LoadFinish`, `UnloadSection`, ...), processes of a version are
one. A signal (`Signal`) is handled in the main thread, on top of what it is
doing, unless uvicorn has its own handlers; the handler's `shutdown()` finds
`_shutdown_lock` free or not. `ChangeDisk` adds or removes a version directory.
The exit of the interpreter waits for processes that are not daemons (`Finalize`,
`Exit`).

### The seven components of MCComponents

They share no state with each other, and each has its own `...Init`, `...Next`
and `...Vars`. The run composes them by choice: `part` says which of them a
behaviour is about, and the others keep an initial state. Nothing is claimed
about their interaction; one run instead of seven only spares six
configurations.

- `Ensemble`: `sources` is the graph of references, any graph over three steps
  with an unknown name as well; `Kahn` are the rounds of `_validate_dag`,
  `NextLayer` a layer of `topological_layers`; `at`, `items` and `replies` follow
  each step through loading, submission, waiting, response or time-out.
  `DropItem` is the buffer at its limit, `CancelRequest` a cancelled task.
- `Artifacts`: `tree` are the files of the model as a developer edits them,
  `draft` the archive that is written, `hashed` what manifests have promised,
  `cache` and `exists` the directories on disk, `scan` where a scanning thread
  is, `loaded` what a version was loaded from, `deleting` the versions that
  `delete_version` has unloaded and not removed yet. `delete_version` and
  `set_version_config` change the directory in the cache, never the archive
  (`RemoveVersion`, `SetVersionConfig`); `altered` is the history of that, which an
  extraction or a purge ends. `disturbed` is a history variable: an extraction, a
  load or a deletion was overtaken by another, a purge, a new archive or a crash,
  which the code does not guard against. It is cleared by a purge that overtakes
  nothing, as everything begins anew.
- `Benchmark`: `worker` are the coroutines, `doomed` those that a ramp has
  cancelled, `engine` the engine. A coroutine runs from `await` to `await`.
- `FrontEnd`: `kind` says which handler a call goes through; `label` is the
  version that its metrics name and `queuedFor` the one whose depth was raised.
  `unstable` is a history variable: the registry changed during the call.
- `Loader`: `searched` is `sys.path`, `register` the function in
  `REGISTRY.register`, `saved` what each import will put back, `sibling` the
  module in `sys.modules` that all models import by one name.
- `Logging`: `buffered` and `pipe` are the two halves of a
  `multiprocessing.Queue`, `writer` the holder of its lock, `consumer` and
  `closer` the two readers.
- `Orchestration`: `entries` is the file, `cut` says that it has been truncated
  and not written yet, `view` is what the poller has read last.

## 3. Model checking

`tlc -workers 2 -config <run>.cfg <module>`.

| Run | Instance | Question | States |
|---|---|---|---|
| `lifecycle_races` | 2 symmetric threads, 1 version, 2 launches, all operations | Do the tables stay consistent in every interleaving? | 833 k |
| `lifecycle_versions` | 2 threads with roles, 2 versions, 2 launches, limit 1 or 2, default version or none | Eviction, hand-over of the active version | 2.65 M |
| `lifecycle_liveness` | 2 threads, 1 ordinary version and 1 ensemble, load and unload | Does a model with a READY version have a route; do operations return, and are stray processes reaped? | 53 k |
| `lifecycle_quiescent` | 2 threads, 1 version | violation: state left by a load/unload race | |
| `admin_ipc` | 3 calls in one HTTP worker, 1 in another, 2 executor threads | Who gets which result; do calls and commands end? | 323 k |
| `admin_ipc_match` | the same | violation: a call returns another command's result | |
| `inference` | 2 requests over HTTP or gRPC, 2 workers, 2 launches, queues and buffer of 1 | Does every request end, once, with its own answer or an error? | 293 k |
| `streams` | a stream with a chunk and two outputs, without a version, whose item may expire; one without data, with a version; a queue of 2 | Are streams complete and in order, and do sessions end? | 1.12 M |
| `server` | 2 versions ("9", "10"), 4 configurations, 1 HTTP worker, 1 command or change, 1 signal | Does the poller agree with start-up and settle; does a shutdown end? | 317 k |
| `server_signals` | several HTTP workers, 2 signals | violation: two signals leave the server hanging | |
| `batching` | 3 large requests of 2 processes, batches of 2, a clock of 3 | Are segments and taken requests accounted for? | 375 k |
| `components` | the seven components, see below | one property each | 1.49 M |

Bounds. Two threads are enough for every pairwise race, and a third thread
holds no state that two do not. `MaxLaunches = 2` allows an old and a new
generation of workers for a version; the guard `LaunchBound` refuses a load
whose launch would not fit, so that no thread gets stuck on the bound. Two
versions are the least for eviction and hand-over; their names are "9" and
"10", in that order of strings. Three calls in a worker with two executor
threads let one `get()` wait for a thread behind two abandoned ones.
Two requests suffice to fill a queue of one place, to evict one from a buffer of
one place and for every pair of front ends; a second launch is what a request
meets that has read the queues of the first. In `streams` the second stream
fills the queue, competes for the worker's loop and for the consumer; with a
chunk and two outputs the first has every order of data, close and end.
Only the first may outlive its item (`Ageing`): for the second, without outputs,
that is no more than a lost FINISH. Only the first is `Unversioned`, so that beside it
there is a stream whose session may stay for a full queue alone.

`server`: each configuration is there for a branch (every load policy, both HTTP
modes, gRPC on and off, a malformed `config.yaml`, a limit of one version); with
one change and one signal every pair of actors meets. `batching`: a clock of 3
with a collection interval of 1 and a request time-out of 2 lets a request be
collected, timed out, both or neither. `components`: all graphs of three steps
(cycles of every length, several layers); one artifact with two versions, one
edit and two events (a second pack, a crash, a deletion or a configuration beside
the first pack), two scanning threads: longer sequences, as two deletions after each
other, are left to the theorem; five plans of
at most two ticks (a ramp may have no time at all); two calls of every pair of kinds, two loads; three imports by two
threads; three records of two processes, two handlers and a pipe of two; three
updates of two models.

Fairness. `lifecycle_liveness` assumes weak fairness of each thread's `Step`:
Python schedules every runnable thread, critical sections are finite, the wait
for workers has a 60 s time-out and joins have time-outs. Calls, deaths and
start-up of workers are not fair. `admin_ipc` assumes weak fairness of the admin
loop (a thread whose commands end, as the previous run shows) and of each
coroutine's timer or resumption; not of the executor's threads. `inference`
assumes it of each handler that has the body of its request (the event loop and
the thread pool run what is ready, and the time-out is a timer), not of clients,
workers, the consumer or the main process: a request ends even if they all stop.
`streams` assumes it of the worker's loop and of the session threads, with
models whose generators read the input that is there and return after its end;
not of handlers, clients or the consumer. `server` assumes it of the main
thread, of the poller and of every load and unload under way (all their waits
have time-outs), and that worker processes end when the Manager has gone, whose
dicts they use; not of commands, signals, the start of workers or uvicorn.
`batching` assumes it of the worker, whose loop waits without end only for a
first request. The run `components`
checks safety only.

`CHECK_DEADLOCK FALSE` is set for all modules but `ModelLifecycle`: their calls,
requests and streams are finite in number, and a behaviour in which all have
ended stops.

The passing runs have at least one mutant for each of their properties: a variant of one definition, kept
next to it and named after it (`EnterLoad_NoTest`), that changes it as a
plausible bug would and makes TLC find the property violated.

### Disagreements between the code and its documents

- A load and an unload of the same version may leave workers without a registry
  entry, or a version LOADING for ever (`lifecycle_quiescent`); the tests call
  for a consistent state after such cycles.
- After a load that failed while waiting, `load` returns `True` for the version
  in ERROR.
- An unloaded ensemble keeps its placeholder: the next load or reload returns
  `True` and registers nothing.
- Results of admin commands are not tagged (`admin_ipc_match`).
- Over IPC `set_model_config` overwrites the whole orchestration file.
- A client that closes the input of a stream never gets the final message:
  `StreamPredict` waits for its time-out every time.
- A stream that lasts longer than `server.timeout` + 30 s loses its item in the
  response buffer, and with it all later outputs; a WebSocket waits for ever.
- `submit_stream_close` and `submit_stream_chunk` of a stream without a version go to
  the version that is active by then: after another one has been activated, chunks
  vanish and the session stays in a living worker.
- Every stream of a version goes to worker 0; the "least loaded" worker is chosen
  among those that have had a stream.
- Unloading cleans up no stream routes: the filter matches no stream id.
- Continuous batching and bidirectional models with `max_batch_size > 1` get
  `(mode, data)` pairs instead of payloads.
- gRPC `Predict` registers its item after it has submitted; with several HTTP
  workers its responses go to another process altogether.
- The queue-depth gauge drifts, `http_workers: null` means 1, and HTTP worker
  processes buffer responses in a plain dict.
- "Oldest" in `max_loaded_versions` is the smallest version string.
- `load_policy: explicit` without `versions_to_load` loads everything at
  start-up, `latest` takes the largest version string, `control_mode: none`
  loads nothing.
- Two signals can leave the server waiting for its own lock (`server_signals`);
  a malformed `config.yaml` ends the poller; a limit below the number of wanted
  versions keeps the poller loading and evicting for ever.
- The collection of segments unlinks those of requests that still wait, which
  ends the worker that comes to read them.
- A reload of the only version of an artifact model purges its cache and then
  finds nothing to load; extraction is not atomic; the cache key ignores contents.
- `delete_version` of an artifact model removes the version from the cache only: it is
  gone for every scan until the cache is purged, and back after that; of the last
  loaded version nothing is deleted. `set_version_config` writes into the cache too,
  and what it wrote goes with the purge.
- A ramp may start above `max_concurrency`; `AnalysisRunner` and the web UI's
  benchmark jobs fail in their first call, the latter leaving the flag set.
- Gauges drift: streams that were never opened are closed, queue depths are
  lowered under another version or never; hooks survive a reload.
- Overlapping imports leave metric registration suppressed for ever.
- The flush before the end of logging does nothing; records may be lost, and a
  process killed while it logs can hang the shutdown.
- The poller may read a truncated `orchestration.yaml`.

## 4. Proofs

Every invariant that the passing runs check is also a theorem, for every value
of the constants; so is the safety part of the refinement. `Spec` is
`Init /\ [][Next]_vars`: fairness plays no part in them.

### Model lifecycle

`ModelLifecycle_proofs` proves, for any threads, versions, ensembles,
orchestration files and number of launches:

| Theorem | Property |
|---|---|
| `TypeCorrect` | `TypeOK` |
| `WorkersAreNeverForgotten` | `NoOrphanWorkers` |
| `WorkersHaveOneOwner` | `OneOwner` |
| `OneLoadPerVersion` | `LoadsExclude` |
| `RoutedVersionIsReady` | `ActiveIsReady` |
| `ReadyVersionIsServed` | `ReadyIsServed` |
| `OperationsSettle` | `SettledConsistent` |
| `ReadyModelHasARoute` | `ReadyModelIsRouted` |
| `LoadedVersionsAreLimited` | `MaxLoadedRespected` |

None of these is inductive. The invariant `IInv` adds, in named parts:

- `ControlOK`, `StopOK`: where a thread stands fits its operation, and only a
  thread about to terminate processes holds a list of them.
- `OwnLaunch`: the launch of a thread that has not published it is in no table
  and no other thread's hands; launches are numbered below `launched`.
- `LoadOK`: as long as nothing has raced, a version being loaded and a READY one
  are in the table, and a version is not READY before its load ends.
- `Serving`: as long as nothing has raced, what the registry, the queues and the
  table say of a version follows from the step at which the thread that loads it
  stands (`StageOK`), and of a version that nobody loads, from its entry
  (`VersionOK`). `ReadyIsServed` and `SettledConsistent` are what is left of it
  at the end of a load and when every thread is idle.
- `Routed`: `ReadyModelIsRouted`, without its `~raced`: every critical section that
  makes a version READY, or takes the active version away, ends with an active
  version if one may be activated.

`MaxLoadedRespected` is inductive beside them, because `EnforceMaxVersions`
unloads until the limit is met before it releases the lock; that each round
lowers the number of READY versions needs them to be a finite set.

The invariant is proved in layers, each assuming the ones before it: types and
control, ownership, routing, serving. Each layer has one step per action; frame
lemmas dispose of the actions that leave its variables alone, and
`UnloadSection`, which eviction enters as well, has lemmas of its own.

### Requests, commands, streams, server and components

| Module | Theorem | Property |
|---|---|---|
| `InferenceRequest_proofs` | `RequestsRefinePromise` | `Promise!Init` and `[][Promise!Next]` |
| | `RequestsTypeCorrect` | `TypeOK` |
| | `RequestsAreNeverDuplicated` | `NeverTwice` |
| | `ResponsesFindTheirWaiter` | `ResponseFindsWaiter` |
| `AdminIPC_proofs` | `AdminTypeCorrect` | `TypeOK` |
| | `NoResultTwice` | `ResultTakenOnce` |
| | `UndisturbedCallsMatch` | `SerialCallsMatch` |
| `StreamSession_proofs` | `TypeCorrect` | `TypeOK` |
| | `SessionsAreClosed` | `NoSessionLeft` |
| | `NoWakeupLost` | `NoLostWakeup` |
| | `StreamsAreComplete` | `StreamsComplete` |
| `Batching_proofs` | `BatchingTypeCorrect` | `TypeOK` |
| | `SegmentsNeverLeak` | `SegmentsAccounted` |
| `LightServer_proofs` | `ServerTypeCorrect` | `TypeOK` |
| | `PollerConfirmsStartUp` | `PollAgreesWithStartup` |
| `Components_proofs` | `EnsemblesAreRun` | `EnsembleSettles` |
| | `UndisturbedCacheServesWhole` | `CacheServesWhole` |
| | `ResultsAreCounted` | `ResultsCounted` |
| | `GaugesAreRight` | `GaugesBalance` |
| | `ImportsLeaveNothing` | `ImportsSettle` |
| | `RecordsAreWritten` | `RecordsWritten` |
| | `UpdatesKeepStrategies` | `StrategiesKept` |
| | `EnsembleTypeCorrect`, ... `OrchestrationTypeCorrect` | the types of each |
| | `ComponentsCompose` | the `Spec` of the run implies that of each component |
| | `ComponentsTypeCorrect` | `TypeOK` |

- `RequestsRefinePromise`: the invariant `Executions` says of a request in a queue
  that it is in no other, has not been executed and has been neither answered nor
  refused; of one at a worker, in the transport or with a response, that it has
  been executed; of an executed one, that it was accepted. So taking it from the
  queue is `Execute`, waking with a response is `Answer`. `KeepsPromise` adds
  that accepted requests end, which TLC checks.
- `RequestsAreNeverDuplicated`: `Executions` excludes the queues; `Singly` says that
  what a worker computes or the transport carries is there once and has not been
  delivered. `NeverTwice`, a cardinality, follows from both.
- `ResponsesFindTheirWaiter`: `Buffering` says that the buffer holds requests that
  wait, each once, and all of them but the evicted ones. That an HTTP handler
  registers before the consumer can see the response is because both are
  coroutines and there is no `await` between submission and registration.
- `NoResultTwice`: two calls cannot get one result because a command is in one
  place at a time (`OnePlace`): the admin queue, the admin loop, the response
  queue of its own worker or one call, and in a queue once.
- `UndisturbedCallsMatch`: `Solitary` says that while the `get()` of an undisturbed
  call has not ended, no other command of its worker is outstanding, so that
  only its own result can come; `Executors` ties the `get()`s to the calls, so that
  none is left behind by an earlier one.
- `SessionsAreClosed`: a session is made by an OPEN that is still in the queue when
  its stream may be closed already. `EveryOpenCloses` says that behind every OPEN
  in the queue there is a CLOSE, unless the stream keeps its route or its CLOSE has
  not come to the worker; the worker takes messages in order, so the CLOSE finds the
  session. The theorem does not say that sessions are never left: it says for which
  two reasons alone, a full queue and a stream without a version.
- `NoWakeupLost`: an item exists only for an active stream (`ItemsActive`), and the
  consumer, one at a time, sets the event of the stream whose queue it has filled.
- `StreamsAreComplete`: `Intake` follows a chunk in, `Outgoing` an output out. Into
  the worker: the messages of a stream are OPEN, chunks by number, CLOSE in every
  queue (`Ordered`), and input queue and worker's queue together go on without a
  gap from the last chunk that was read up to the last that was sent (`Fed`), unless
  a chunk went astray.
  Out of it: transport, item and handler together go on without a gap from the
  first output to the last, a final message behind them (`Underway`, `Gone`), as
  long as the item is registered; what remains of a transport whose end a dying
  worker has lost is still a prefix.
- `SegmentsNeverLeak`: a request that was not submitted has no segment, so a
  submission never overwrites one that is known; a batch begins empty, so what
  was restored is a prefix of it (`Fresh`). What a collection unlinks has expired,
  because a buffer knows the true age of its segments (`TypeOK`).
- `PollerConfirmsStartUp`: while nobody has changed anything (`Calm`), only the
  main thread loads, and only what start-up has listed (`Starting`); every such
  version has an entry, is being loaded or is still to be (`Progressing`), so that
  when the poller starts it finds an entry for all it wants, and nothing that is
  gone (`Confirming`). That the two strategies, written apart, choose the same
  versions is a lemma.
- `EnsemblesAreRun`: that Kahn's rounds find exactly the graphs without a cycle is
  proved for every finite graph (`KahnIsCorrect`): after n rounds the visited
  steps are those of `Visiting`, no set of which waits for itself. `Layered` says
  of the executor that the context is what is not left and the layer that runs
  the next of it.
- `UndisturbedCacheServesWhole`: `CacheServesWhole` is about moments when nothing is
  being extracted; `Unpacking` says of the others that a scan which extracts is
  the only one, and has written all but what it has yet to write, into a directory
  in which nobody has altered anything; `Agrees` is what a complete directory keeps
  through deletions and configurations (`AlterSound`): what is genuine is what one
  manifest says. `InUse` and `Listed` carry that on to loads and scans. What the
  theorem does not promise are the states after a crash in an extraction, and
  purges and deletions that overtake a scan or a load: there the code does fail
  (findings).
- `ImportsLeaveNothing`: a directory is on the path once for each import that has
  inserted it and not removed it (`Counted`); an import that no other overlaps
  finds the original `register` and puts it back (`ByOne`).
- `GaugesAreRight`: between begin and end, a request whose registry has not changed
  means the same READY version, whose hooks stay in the cache (`Steady`); every
  depth is a number of calls (`Depths`), and their sum is proved with `SumOf`.
- `RecordsAreWritten`: a record is in one place - a process's buffer, the pipe, one
  of the two readers, the files (`InPlace`) - and the places are in the order of
  logging until the main thread reads too (`InOnePlace`, `InSequence`); a record
  is lost, on its way or written by every handler that admits it (`Emitted`).
- `ResultsAreCounted`: calls begun are those that succeeded, failed, are under way
  or were cut off (`Tallied`); only a ramp that starts above its maximum cancels
  workers (`Ramped`), and its size never exceeds the larger of the two limits, since
  2^n grows. That quantiles rise is proved for every list of latencies: sorting
  is monotone, and so is the interpolation between neighbours (`AtRises`).
- `UpdatesKeepStrategies`: while the file is cut there is an update, and what it
  writes is what was acknowledged with its own change (`Drafting`).
- `ComponentsCompose`: what is proved of each component's own specification holds of
  the run that takes the seven together.

### What the proofs assume

Only the `ASSUME`s of the modules, which TLC evaluates in every run. Besides
typing the constants they say that versions, calls, steps, directories and
releases are finite sets, that an ensemble has a step (the parser refuses one
without), that an archive lists each of its versions once, that ranks (the order
of version strings) are distinct, and that the values that mark absence
(`NoVersion`, `Idle`, `None`, ...) are none of the things they mark the absence of.

Three definitions are written for the provers as well as for TLC: a time-out takes
a call out of a queue with `RemoveFirst`, the parts of `ImportsSettle` and
`RecordsWritten` that count do so with cardinalities, and the benchmark sorts by
the order statistic (`Sorted`: at k, the value of which fewer than k are smaller
and at least k are no larger) instead of with `SortSeq`. `DataLemmas` has what is
needed of them. Statements about data of every size (`RemoveFirst`, Kahn's
rounds, sums, sorting) are proved by induction in the form that needs no
operator as a parameter: the set of the numbers for which the statement fails
has, by the library's `WFMin`, a least element, unless it is empty. The proofs
use the library's theorems on sequences, functions and finite sets; of these,
that a set of n elements has 2^n subsets (`FS_SUBSET`, cited for the growth of
2^n) is the one whose own proof in the library leaves an arithmetical step,
2^(n+1) = 2^n + 2^n, to the reader.

Only model-checked: the liveness properties (`OperationsReturn`,
`StrayWorkersReaped`, `CommandsExecuted`, `CallsEnd`, `KeepsPromise` as far as it
says that requests end, `SessionsEnd`, `TakenAnswered`, `PollSettles`,
`ShutdownCompletes`), since liveness under fairness and `ENABLED` are beyond the
prover; and the violations, which are behaviours that TLC shows.

## 5. What is left out

- One model name: keys `<name>_<version>` of models whose names share a prefix
  can collide, which is listed as a finding.
- `orchestration.yaml` does not change during a behaviour; all its relevant
  contents are initial states.
- All processes of a launch count as one: they die, start and are terminated
  together. A launch that fails half-way is in `lost`.
- In `ModelLifecycle`: the purging of the artifact cache and `set_version_config`
  (which `Artifacts` has), teardown hooks, metrics, closing of queues.
- `ERROR` after a worker's death at run time does not exist in the code: nothing
  watches workers once a load has ended, and the model has it so.
- Requests: expiry of buffer items (they outlive every wait by 30 s), hooks,
  payloads in shared memory; the HTTP buffer of worker processes, which never
  evicts, is the model with a large `BufferSize`.
- Streams: `STREAM_CANCEL`, which nothing sends; the front-end tables when a
  version is unloaded (no route is ever cleaned up, so there is no promise to
  check); what streams of other versions send to this worker; one-shot requests to
  a stream model, whose response is whichever message came last; which worker is
  chosen (always worker 0).
- Server: the metrics server, several models at once, hot reload of the HTTP
  application.
- Artifacts: signatures, the format of archives and paths; the cache is taken by
  versions, not by files; several artifacts, and a plain model directory of the same
  name, in one repository.
- Logging: rotation and formats. `config.yaml` of a version is written like
  `orchestration.yaml` but read once per load.
- Not modelled at all: the web UI's benchmark jobs (unreachable behind a call
  that raises), the Pareto front and reports, the export of metrics, HTTP
  routing, configuration, command line and project generator: sequential code
  that shares no state with anything that runs beside it.

## 6. Plan

All modules above are modelled and checked, and all their invariants are proved.
What is left:

1. Action properties that the invariants imply, stated and proved: which
   steps may take the active version or a version's processes away
   (`ModelLifecycle`), which steps may remove an item from the response buffer
   (`InferenceRequest`).
2. A second refinement: the streams of `StreamSession` as two lossless channels
   that may be cut, with `Intake` and `Outgoing` as the invariants.
3. A refinement between the model manager in small, as `LightServer` and
   `InferenceRequest` have it, and `ModelLifecycle`.
