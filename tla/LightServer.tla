----------------------------- MODULE LightServer -----------------------------
(***************************************************************************)
(* LightServer (core/server.py): the main process from run() to its exit.  *)
(* The main thread loads models at start-up, serves or supervises the HTTP *)
(* worker processes, and shuts down; meanwhile the poller thread, the      *)
(* admin loop and the gRPC pool load and unload versions of a model.       *)
(*                                                                         *)
(* ModelManager is taken in small here: ModelLifecycle has its detail.  A  *)
(* Python signal handler runs in the main thread, on top of whatever that  *)
(* thread is doing.                                                        *)
(***************************************************************************)
EXTENDS Naturals, FiniteSets

CONSTANTS
    Versions,     \* version directories of the model
    Rank,         \* position of a version in the order of version STRINGS
    NoVersion,    \* Python's None where a version is expected
    Configs,      \* configurations of the server, see ConfigType
    HttpWorkers,  \* HTTP worker processes of the multi-process mode
    Callers,      \* threads that execute admin commands: "admin", "grpc"
    MaxChanges,   \* bound: commands, and changes of the repository
    MaxSignals    \* bound: SIGINT and SIGTERM received

\* mode: control_mode.  listed: the model is in load_models.  policy, wanted,
\* default, max: its strategy in orchestration.yaml, which start-up and the
\* poller read.  multi: more than one HTTP worker.  grpc: the gRPC server is
\* enabled.  broken: versions whose config.yaml is no YAML.  found: the
\* versions in the repository at first.
ConfigType ==
    [mode : {"all", "explicit", "poll"}, listed : BOOLEAN,
     policy : {"all", "latest", "explicit"}, wanted : SUBSET Versions,
     default : Versions \cup {NoVersion}, max : Nat, multi : BOOLEAN, grpc : BOOLEAN,
     broken : SUBSET Versions, found : SUBSET Versions]

ASSUME ServerAssumption ==
    /\ IsFiniteSet(Versions)
    /\ Configs \subseteq ConfigType
    /\ Rank \in [Versions -> Nat]
    /\ \A v, w \in Versions : Rank[v] = Rank[w] => v = w
    /\ NoVersion \notin Versions
    /\ Callers \subseteq {"admin", "grpc"}
    /\ MaxChanges \in Nat /\ MaxSignals \in Nat

Threads == {"main", "poller"} \cup Callers

VARIABLES
    config,    \* Config of this server
    disk,      \* version directories present in the repository
    manager,   \* is the multiprocessing.Manager process up?
    entry,     \* ModelRegistry: status of every entry
    active,    \* ModelRegistry: the active version
    held,      \* keys of ModelManager._workers
    table,     \* ModelManager._workers: the processes listed for a version
    mine,      \* per thread: processes its load has started ("table": listed)
    stop,      \* per thread: the processes that its unload terminates are alive
    pc, ver,   \* per thread: position and version inside load or unload
    phase,     \* what the main thread is doing outside of load and unload
    todo,      \* main thread: versions that a loop has yet to go through
    event,     \* _shutdown_event
    uvicorn,   \* uvicorn runs in the main thread, with its own signal handlers
    done,      \* _shutdown_done
    http,      \* the HTTP worker processes
    poll,      \* the poller thread: its position in _poll_repository
    seen, missing, \* its local sets: available, and loaded - available
    changes, signals,  \* bounds
    interrupted        \* history: a signal handler has interrupted shutdown()

storeVars == <<manager, entry, active, held, table>>
loadVars  == <<mine, stop, pc, ver>>
mainVars  == <<phase, todo, event, uvicorn, done, http>>
pollVars  == <<poll, seen, missing>>
boundVars == <<changes, signals, interrupted>>
vars == <<config, disk, storeVars, loadVars, mainVars, pollVars, boundVars>>

-----------------------------------------------------------------------------
Processes == {"none", "starting", "up", "gone"}

Alive(p) == p \in {"starting", "up"}

Entries == {v \in Versions : entry[v] # "absent"}

Ready == {v \in Versions : entry[v] = "READY"}

Newest(V) == CHOOSE v \in V : \A w \in V : Rank[w] <= Rank[v]

Init ==
    /\ config \in Configs
    /\ disk = config.found
    /\ manager = "up"
    /\ entry = [v \in Versions |-> "absent"]
    /\ active = NoVersion
    /\ held = {}
    /\ table = [v \in Versions |-> "none"]
    /\ mine = [t \in Threads |-> "none"]
    /\ stop = [t \in Threads |-> FALSE]
    /\ pc = [t \in Threads |-> "idle"]
    /\ ver = [t \in Threads |-> NoVersion]
    /\ phase = "list" /\ todo = {}
    /\ event = FALSE /\ uvicorn = FALSE /\ done = FALSE
    /\ http = [w \in HttpWorkers |-> "none"]
    /\ poll = "off" /\ seen = {} /\ missing = {}
    /\ changes = 0 /\ signals = 0 /\ interrupted = FALSE

Enter(t, v, step) ==
    /\ pc' = [pc EXCEPT ![t] = step]
    /\ ver' = [ver EXCEPT ![t] = v]

Goto(t, step) == pc' = [pc EXCEPT ![t] = step] /\ UNCHANGED ver

Return(t) == Enter(t, NoVersion, "idle")

-----------------------------------------------------------------------------
(* ModelManager.load and unload, by any thread.                            *)

\* Something raised in load or unload: the start-up of the server fails, the
\* poller thread ends, the admin loop and gRPC answer with an error.
Raise(t) ==
    /\ Return(t)
    /\ phase' = IF t = "main" THEN "exiting" ELSE phase
    /\ poll' = IF t = "poller" THEN "dead" ELSE poll
    /\ UNCHANGED <<todo, event, uvicorn, done, http, seen, missing>>

\* load: the key is there, or the placeholder [] is put.
LoadEnter(t) ==
    /\ pc[t] = "load"
    /\ \/ ver[t] \in held /\ Return(t) /\ UNCHANGED held
       \/ ver[t] \notin held /\ Goto(t, "register") /\ held' = held \cup {ver[t]}
    /\ UNCHANGED <<config, disk, manager, entry, active, table, mine, stop,
                   mainVars, pollVars, boundVars>>

\* load: the directory, its config.yaml and the registration.
LoadRegister(t) ==
    LET v == ver[t]
        absent == v \notin disk
        raises == ~absent /\ (v \in config.broken \/ manager = "down")
    IN
    /\ pc[t] = "register"
    /\ held' = IF absent \/ raises THEN held \ {v} ELSE held
    /\ \/ absent /\ Return(t) /\ UNCHANGED <<entry, mainVars, pollVars>>
       \/ raises /\ Raise(t) /\ UNCHANGED entry
       \/ /\ ~absent /\ ~raises
          /\ entry' = [entry EXCEPT ![v] = "LOADING"]
          /\ Goto(t, "launch")
          /\ UNCHANGED <<mainVars, pollVars>>
    /\ UNCHANGED <<config, disk, manager, active, table, mine, stop, boundVars>>

\* Variant with a bug: the status is misspelt.
SetStatus_Misspelt(v, s) ==
    entry' = IF entry[v] = "absent" THEN entry ELSE [entry EXCEPT ![v] = "FAILED"]

\* Nothing happens when the entry is gone.
SetStatus(v, s) ==
    entry' = IF entry[v] = "absent" THEN entry ELSE [entry EXCEPT ![v] = s]

\* load: the worker processes are started, unless the model's code fails to
\* import; their status dict is a Manager object.
LoadLaunch(t) ==
    LET v == ver[t]
        dropped == IF table[v] = "none" THEN held \ {v} ELSE held
    IN
    /\ pc[t] = "launch"
    /\ \/ /\ manager = "up"
          /\ mine' = [mine EXCEPT ![t] = "starting"]
          /\ Goto(t, "publish")
          /\ UNCHANGED <<entry, held, mainVars, pollVars>>
       \/ /\ manager = "up"
          /\ SetStatus(v, "ERROR") /\ held' = dropped
          /\ Return(t)
          /\ UNCHANGED <<mine, mainVars, pollVars>>
       \/ /\ manager = "down"
          /\ held' = dropped /\ Raise(t)
          /\ UNCHANGED <<entry, mine>>
    /\ UNCHANGED <<config, disk, manager, active, table, stop, boundVars>>

\* load: the processes are listed, or terminated when others are listed.
LoadPublish(t) ==
    LET v == ver[t] IN
    /\ pc[t] = "publish"
    /\ \/ /\ table[v] = "none"
          /\ table' = [table EXCEPT ![v] = mine[t]]
          /\ mine' = [mine EXCEPT ![t] = "table"]
          /\ held' = held \cup {v}
          /\ Goto(t, "wait")
       \/ /\ table[v] # "none"
          /\ mine' = [mine EXCEPT ![t] = "none"]
          /\ Return(t)
          /\ UNCHANGED <<table, held>>
    /\ UNCHANGED <<config, disk, manager, entry, active, stop, mainVars, pollVars,
                   boundVars>>

\* A load or unload that evicts or removes the versions U: their processes
\* leave the table, and whoever waits for them finds them terminated.
Forget(U) ==
    /\ held' = held \ U
    /\ table' = [v \in Versions |-> IF v \in U THEN "none" ELSE table[v]]

Abandoned(U, t) ==
    [s \in Threads |-> IF mine[s] # "table" THEN mine[s]
                       ELSE IF s = t THEN "none"
                       ELSE IF ver[s] \in U THEN "gone" ELSE "table"]

\* The active version after the versions U are gone, R being READY.
ActiveAfter(U, R) ==
    IF active \notin U THEN {active} ELSE IF R = {} THEN {NoVersion} ELSE R

\* _enforce_max_versions: the smallest version strings are evicted.
Evicted(R) ==
    IF Cardinality(R) <= config.max THEN {}
    ELSE CHOOSE U \in SUBSET R :
            /\ Cardinality(U) = Cardinality(R) - config.max
            /\ \A u \in U, w \in R \ U : Rank[u] < Rank[w]

\* load: all workers are ready.  READY, activation, the version limit.
LoadFinish(t) ==
    LET v == ver[t]
        reg == IF entry[v] = "absent" THEN entry ELSE [entry EXCEPT ![v] = "READY"]
        ready == {w \in Versions : reg[w] = "READY"}
        out == Evicted(ready)
        first == IF active = NoVersion /\ v \in ready /\ config.default \in {v, NoVersion}
                 THEN v ELSE active
    IN
    /\ pc[t] = "wait" /\ manager = "up"
    /\ mine[t] = "table" /\ table[v] = "up"
    /\ entry' = [w \in Versions |-> IF w \in out THEN "absent" ELSE reg[w]]
    /\ active' \in IF first \notin out THEN {first}
                   ELSE IF ready \ out = {} THEN {NoVersion} ELSE ready \ out
    /\ Forget(out)
    /\ mine' = Abandoned(out, t)
    /\ Return(t)
    /\ UNCHANGED <<config, disk, manager, stop, mainVars, pollVars, boundVars>>

\* load: a worker is dead, the 60 s are over, or the status dict is gone.
LoadFails(t) ==
    LET v == ver[t] IN
    /\ pc[t] = "wait"
    /\ manager = "down" \/ mine[t] = "gone" \/ table[v] # "up"
    /\ mine' = [mine EXCEPT ![t] = "none"]
    /\ \/ /\ manager = "up" /\ SetStatus(v, "ERROR")
          /\ Return(t) /\ UNCHANGED <<mainVars, pollVars>>
       \/ manager = "down" /\ Raise(t) /\ UNCHANGED entry
    /\ UNCHANGED <<config, disk, manager, active, held, table, stop, boundVars>>

\* unload: the critical section.
UnloadSection(t) ==
    LET v == ver[t] IN
    /\ pc[t] = "unload"
    /\ \/ manager = "down" /\ Raise(t) /\ UNCHANGED <<entry, active, held, table, mine, stop>>
       \/ /\ manager = "up" /\ v \notin held /\ Return(t)
          /\ UNCHANGED <<entry, active, held, table, mine, stop, mainVars, pollVars>>
       \/ /\ manager = "up" /\ v \in held
          /\ entry' = [entry EXCEPT ![v] = "absent"]
          /\ active' \in ActiveAfter({v}, Ready \ {v})
          /\ Forget({v})
          /\ mine' = Abandoned({v}, "nobody")
          /\ stop' = [stop EXCEPT ![t] = Alive(table[v])]
          /\ Goto(t, "terminate")
          /\ UNCHANGED <<mainVars, pollVars>>
    /\ UNCHANGED <<config, disk, manager, boundVars>>

UnloadTerminate(t) ==
    /\ pc[t] = "terminate"
    /\ stop' = [stop EXCEPT ![t] = FALSE]
    /\ Return(t)
    /\ UNCHANGED <<config, disk, storeVars, mine, mainVars, pollVars, boundVars>>

ManagerStep(t) ==
    \/ LoadEnter(t) \/ LoadRegister(t) \/ LoadLaunch(t) \/ LoadPublish(t)
    \/ LoadFinish(t) \/ LoadFails(t)
    \/ UnloadSection(t) \/ UnloadTerminate(t)

-----------------------------------------------------------------------------
(* The worker processes.  A worker that has lost the Manager process, which *)
(* holds its request queue and its status dict, ends with an exception.     *)

WorkerUp ==
    /\ manager = "up"
    /\ \/ \E v \in Versions : /\ table[v] = "starting"
                              /\ table' = [table EXCEPT ![v] = "up"]
                              /\ UNCHANGED mine
       \/ \E t \in Threads : /\ mine[t] = "starting"
                             /\ mine' = [mine EXCEPT ![t] = "up"]
                             /\ UNCHANGED table
    /\ UNCHANGED <<config, disk, manager, entry, active, held, stop, pc, ver,
                   mainVars, pollVars, boundVars>>

WorkerEnds ==
    /\ \/ \E v \in Versions : /\ Alive(table[v])
                              /\ table' = [table EXCEPT ![v] = "gone"]
                              /\ UNCHANGED <<mine, stop>>
       \/ \E t \in Threads : /\ Alive(mine[t])
                             /\ mine' = [mine EXCEPT ![t] = "gone"]
                             /\ UNCHANGED <<table, stop>>
       \/ \E t \in Threads : /\ stop[t]
                             /\ stop' = [stop EXCEPT ![t] = FALSE]
                             /\ UNCHANGED <<table, mine>>
    /\ UNCHANGED <<config, disk, manager, entry, active, held, pc, ver,
                   mainVars, pollVars, boundVars>>

\* An HTTP worker crashes.
HttpWorkerEnds(w) ==
    /\ http[w] = "up"
    /\ http' = [http EXCEPT ![w] = "gone"]
    /\ UNCHANGED <<config, disk, storeVars, loadVars, phase, todo, event, uvicorn,
                   done, pollVars, boundVars>>

NoProcess ==
    /\ \A v \in Versions : ~Alive(table[v])
    /\ \A t \in Threads : ~Alive(mine[t]) /\ ~stop[t]
    /\ \A w \in HttpWorkers : http[w] # "up"

-----------------------------------------------------------------------------
(* run(): start-up                                                         *)

\* Variant with a bug: the newest version is not loaded.
InitialVersions_LatestSkipped ==
    IF config.mode # "all" /\ ~config.listed THEN {}
    ELSE CASE config.policy = "all"    -> disk
           [] config.policy = "latest" -> {v \in disk : v # Newest(disk)}
           [] OTHER -> IF config.wanted = {} THEN disk ELSE disk \cap config.wanted

\* The versions that _load_initial_models loads.
InitialVersions ==
    IF config.mode # "all" /\ ~config.listed THEN {}
    ELSE CASE config.policy = "all"    -> disk
           [] config.policy = "latest" -> {v \in disk : v = Newest(disk)}
           [] OTHER -> IF config.wanted = {} THEN disk ELSE disk \cap config.wanted

ListInitial ==
    /\ phase = "list"
    /\ todo' = InitialVersions
    /\ phase' = "load"
    /\ UNCHANGED <<config, disk, storeVars, loadVars, event, uvicorn, done, http,
                   pollVars, boundVars>>

LoadInitial(v) ==
    /\ phase = "load" /\ pc["main"] = "idle" /\ v \in todo
    /\ todo' = todo \ {v}
    /\ Enter("main", v, "load")
    /\ UNCHANGED <<config, disk, storeVars, mine, stop, phase, event, uvicorn, done,
                   http, pollVars, boundVars>>

\* All are loaded.  The default version is activated if none is active; the
\* gRPC server and, in poll mode, the poller are started.
StartServices ==
    /\ phase = "load" /\ pc["main"] = "idle" /\ todo = {}
    /\ active' = IF active = NoVersion /\ config.default \in Ready
                 THEN config.default ELSE active
    /\ poll' = IF config.mode = "poll" THEN "sleep" ELSE "off"
    /\ phase' = "http"
    /\ UNCHANGED <<config, disk, manager, entry, held, table, loadVars, todo, event,
                   uvicorn, done, http, seen, missing, boundVars>>

\* uvicorn runs in this process, or the HTTP worker processes are started.
StartHttp ==
    /\ phase = "http"
    /\ phase' = "serving"
    /\ uvicorn' = ~config.multi
    /\ http' = [w \in HttpWorkers |-> IF config.multi THEN "up" ELSE "none"]
    /\ UNCHANGED <<config, disk, storeVars, loadVars, todo, event, done, pollVars, boundVars>>

\* The port is taken, or no HTTP worker is left: run() goes on to shutdown().
StopServing ==
    /\ \/ phase = "http"
       \/ phase = "serving" /\ config.multi /\ \A w \in HttpWorkers : http[w] = "gone"
    /\ phase' = "acquire"
    /\ UNCHANGED <<config, disk, storeVars, loadVars, todo, event, uvicorn, done, http,
                   pollVars, boundVars>>

-----------------------------------------------------------------------------
(* shutdown(), by the main thread                                          *)

\* The lock is taken, the flag set; the expiry of responses stops.
SetDone ==
    /\ phase = "acquire"
    /\ done' = TRUE /\ phase' = "workers"
    /\ UNCHANGED <<config, disk, storeVars, loadVars, todo, event, uvicorn, http,
                   pollVars, boundVars>>

\* HTTP workers are terminated, joined for 3 s, killed if need be.
TerminateHttpWorker(w) ==
    /\ phase = "workers" /\ http[w] = "up"
    /\ http' = [http EXCEPT ![w] = "gone"]
    /\ UNCHANGED <<config, disk, storeVars, loadVars, phase, todo, event, uvicorn, done,
                   pollVars, boundVars>>

\* Variant with a bug: HTTP workers are not terminated.
ListLoaded_HttpLeft ==
    /\ phase = "workers"
    /\ todo' = Entries
    /\ phase' = "unload"
    /\ UNCHANGED <<config, disk, storeVars, loadVars, event, uvicorn, done, http,
                   pollVars, boundVars>>

\* The versions to unload are read from the registry once.
ListLoaded ==
    /\ phase = "workers" /\ \A w \in HttpWorkers : http[w] # "up"
    /\ todo' = Entries
    /\ phase' = "unload"
    /\ UNCHANGED <<config, disk, storeVars, loadVars, event, uvicorn, done, http,
                   pollVars, boundVars>>

UnloadListed(v) ==
    /\ phase = "unload" /\ pc["main"] = "idle" /\ v \in todo
    /\ todo' = todo \ {v}
    /\ Enter("main", v, "unload")
    /\ UNCHANGED <<config, disk, storeVars, mine, stop, phase, event, uvicorn, done,
                   http, pollVars, boundVars>>

\* What is still in the table is terminated as well.
ReapWorkers ==
    /\ phase = "unload" /\ pc["main"] = "idle" /\ todo = {}
    /\ table' = [v \in Versions |-> IF Alive(table[v]) THEN "gone" ELSE table[v]]
    /\ phase' = "close"
    /\ UNCHANGED <<config, disk, manager, entry, active, held, loadVars, todo, event,
                   uvicorn, done, http, pollVars, boundVars>>

\* ModelManager.shutdown: the Manager process ends.
CloseManager ==
    /\ phase = "close"
    /\ manager' = "down"
    /\ phase' = "rest"
    /\ UNCHANGED <<config, disk, entry, active, held, table, loadVars, todo, event,
                   uvicorn, done, http, pollVars, boundVars>>

\* gRPC, metrics, queues and logging are closed; shutdown() and run() return.
\* uvicorn raises the signals it has received again, for _signal_handler.
FinishShutdown ==
    /\ phase = "rest"
    /\ phase' = "exiting"
    /\ event' = (event \/ (uvicorn /\ signals > 0))
    /\ uvicorn' = FALSE
    /\ UNCHANGED <<config, disk, storeVars, loadVars, todo, done, http, pollVars, boundVars>>

\* The interpreter exits: gRPC handlers are waited for, the Manager is ended,
\* and child processes are joined, however long that takes.
Finalize ==
    /\ phase = "exiting" /\ \A t \in Callers : t = "grpc" => pc[t] = "idle"
    /\ manager' = "down"
    /\ phase' = "joining"
    /\ UNCHANGED <<config, disk, entry, active, held, table, loadVars, todo, event,
                   uvicorn, done, http, pollVars, boundVars>>

Exit ==
    /\ phase = "joining" /\ NoProcess
    /\ phase' = "exited"
    /\ UNCHANGED <<config, disk, storeVars, loadVars, todo, event, uvicorn, done, http,
                   pollVars, boundVars>>

ShuttingDown == phase \in {"workers", "unload", "close", "rest"}

\* SIGINT or SIGTERM.  uvicorn's handler has it shut the application down,
\* which calls shutdown().  _signal_handler sets the event, calls shutdown()
\* and raises SystemExit: a shutdown() that it interrupts is not resumed, and
\* one that has just taken _shutdown_lock blocks it for ever.
Signal ==
    /\ signals < MaxSignals /\ phase \notin {"locked", "exited"}
    /\ signals' = signals + 1
    /\ event' = (event \/ ~uvicorn)
    /\ interrupted' = (interrupted \/ (~uvicorn /\ (phase = "acquire" \/ ShuttingDown)))
    /\ phase' = IF uvicorn THEN IF phase = "serving" THEN "acquire" ELSE phase
                ELSE CASE phase = "acquire" -> "locked"
                       [] ShuttingDown \/ phase = "exiting" -> "exiting"
                       [] phase = "joining" -> "exited"
                       [] OTHER -> "acquire"
    /\ IF uvicorn \/ phase = "exiting" THEN UNCHANGED loadVars
       ELSE /\ Return("main")
            /\ mine' = [mine EXCEPT !["main"] = IF @ = "table" THEN "none" ELSE @]
            /\ UNCHANGED stop
    /\ UNCHANGED <<config, disk, storeVars, todo, uvicorn, done, http, pollVars, changes>>

-----------------------------------------------------------------------------
(* _poll_repository, in the poller thread                                  *)

PollStep == phase # "exited" /\ pc["poller"] = "idle"

PollSleep ==
    /\ PollStep /\ poll = "sleep"
    /\ poll' = IF event THEN "stopped" ELSE "scan"
    /\ UNCHANGED <<config, disk, storeVars, loadVars, mainVars, seen, missing, boundVars>>

PollScan ==
    /\ PollStep /\ poll = "scan"
    /\ seen' = disk
    /\ poll' = "compare"
    /\ UNCHANGED <<config, disk, storeVars, loadVars, mainVars, missing, boundVars>>

\* Variant with a bug: versions that have gone are not looked for.
PollCompare_LoadsOnly ==
    /\ PollStep /\ poll = "compare"
    /\ seen' = seen \ Entries
    /\ UNCHANGED missing
    /\ poll' = IF manager = "up" THEN "loads" ELSE "dead"
    /\ UNCHANGED <<config, disk, storeVars, loadVars, mainVars, boundVars>>

PollCompare ==
    /\ PollStep /\ poll = "compare"
    /\ seen' = seen \ Entries
    /\ missing' = Entries \ seen
    /\ poll' = IF manager = "up" THEN "loads" ELSE "dead"
    /\ UNCHANGED <<config, disk, storeVars, loadVars, mainVars, boundVars>>

\* The strategy allows version v, of the versions V found on a second scan.
PollWants(v, V) ==
    CASE config.policy = "all"    -> TRUE
      [] config.policy = "latest" -> V # {} /\ v = Newest(V)
      [] OTHER                    -> v \in config.wanted

\* max() of no versions raises, which ends the thread.
PollLoad(v) ==
    /\ PollStep /\ poll = "loads" /\ v \in seen
    /\ seen' = seen \ {v}
    /\ poll' = IF config.policy = "latest" /\ disk = {} THEN "dead" ELSE poll
    /\ IF PollWants(v, disk) THEN Enter("poller", v, "load") ELSE UNCHANGED <<pc, ver>>
    /\ UNCHANGED <<config, disk, storeVars, mine, stop, mainVars, missing, boundVars>>

PollUnload(v) ==
    /\ PollStep /\ poll = "loads" /\ seen = {} /\ v \in missing
    /\ missing' = missing \ {v}
    /\ Enter("poller", v, "unload")
    /\ UNCHANGED <<config, disk, storeVars, mine, stop, mainVars, poll, seen, boundVars>>

PollDone ==
    /\ PollStep /\ poll = "loads" /\ seen = {} /\ missing = {}
    /\ poll' = "sleep"
    /\ UNCHANGED <<config, disk, storeVars, loadVars, mainVars, seen, missing, boundVars>>

Poll ==
    \/ PollSleep \/ PollScan \/ PollCompare \/ PollDone
    \/ \E v \in Versions : PollLoad(v) \/ PollUnload(v)

-----------------------------------------------------------------------------
(* Commands and the repository                                             *)

\* The admin loop serves the HTTP workers until the event is set; the gRPC
\* server accepts calls from its start to the end of shutdown().
Accepts(t) ==
    IF t = "admin" THEN ~event /\ \E w \in HttpWorkers : http[w] = "up"
    ELSE config.grpc /\ phase \in {"http", "serving", "acquire", "workers", "unload", "close"}

Command(t, v, op) ==
    /\ Accepts(t) /\ pc[t] = "idle" /\ changes < MaxChanges
    /\ Enter(t, v, op)
    /\ changes' = changes + 1
    /\ UNCHANGED <<config, disk, storeVars, mine, stop, mainVars, pollVars, signals, interrupted>>

ChangeDisk(v) ==
    /\ changes < MaxChanges /\ phase # "exited"
    /\ disk' = IF v \in disk THEN disk \ {v} ELSE disk \cup {v}
    /\ changes' = changes + 1
    /\ UNCHANGED <<config, storeVars, loadVars, mainVars, pollVars, signals, interrupted>>

-----------------------------------------------------------------------------
Main ==
    \/ ListInitial \/ StartServices \/ StartHttp
    \/ SetDone \/ ListLoaded \/ ReapWorkers \/ CloseManager
    \/ FinishShutdown \/ Finalize \/ Exit
    \/ \E v \in Versions : LoadInitial(v) \/ UnloadListed(v)
    \/ \E w \in HttpWorkers : TerminateHttpWorker(w)

Next ==
    \/ Main \/ StopServing \/ Signal \/ Poll
    \/ \E t \in Threads : phase # "exited" /\ ManagerStep(t)
    \/ \E t \in Callers, v \in Versions, op \in {"load", "unload"} : Command(t, v, op)
    \/ \E v \in Versions : ChangeDisk(v)
    \/ WorkerUp \/ WorkerEnds \/ \E w \in HttpWorkers : HttpWorkerEnds(w)

Spec == Init /\ [][Next]_vars

\* Threads run when they can; the waits in them have time-outs.  A worker
\* process ends when the Manager is gone.
FairSpec ==
    /\ Spec
    /\ WF_vars(Main) /\ WF_vars(Poll)
    /\ \A t \in Threads : WF_vars(phase # "exited" /\ ManagerStep(t))
    /\ WF_vars(manager = "down" /\ WorkerEnds)

-----------------------------------------------------------------------------
(* Properties                                                              *)

\* Every variable holds one of the values that the code can put there.
TypeOK ==
    /\ config \in Configs /\ disk \subseteq Versions
    /\ manager \in {"up", "down"}
    /\ entry \in [Versions -> {"absent", "LOADING", "READY", "ERROR"}]
    /\ active \in Versions \cup {NoVersion}
    /\ held \subseteq Versions
    /\ table \in [Versions -> Processes]
    /\ mine \in [Threads -> Processes \cup {"table"}]
    /\ stop \in [Threads -> BOOLEAN]
    /\ pc \in [Threads -> {"idle", "load", "register", "launch", "publish", "wait",
                           "unload", "terminate"}]
    /\ ver \in [Threads -> Versions \cup {NoVersion}]
    /\ phase \in {"list", "load", "http", "serving", "acquire", "workers", "unload",
                  "close", "rest", "exiting", "joining", "exited", "locked"}
    /\ todo \subseteq Versions
    /\ {event, uvicorn, done, interrupted} \subseteq BOOLEAN
    /\ http \in [HttpWorkers -> {"none", "up", "gone"}]
    /\ poll \in {"off", "sleep", "scan", "compare", "loads", "stopped", "dead"}
    /\ seen \subseteq Versions /\ missing \subseteq Versions
    /\ changes \in 0 .. MaxChanges /\ signals \in 0 .. MaxSignals

\* While nobody changes anything, the first passes of the poller confirm what
\* start-up has loaded: _load_initial_models and _poll_repository, written
\* apart, read a strategy alike (as long as the model is in load_models and
\* its limit is not exceeded).
PollAgreesWithStartup ==
    config.listed /\ config.max >= Cardinality(Versions) /\ changes = 0 =>
        ~(pc["poller"] \in {"load", "unload"} /\ phase \in {"http", "serving"})

\* When the commands and the changes of the repository are over, a poller that
\* is alive comes to rest: what its strategy allows is in the registry or in
\* the worker table, and what has gone from the repository is not
\* (but for versions in ERROR without workers, which unload does not see).
PollSettles ==
    <>[](\/ poll \in {"off", "stopped", "dead"} \/ phase # "serving"
         \/ config.max < Cardinality(Versions)
         \/ /\ \A v \in Entries : v \in disk \/ (entry[v] = "ERROR" /\ v \notin held)
            /\ \A v \in disk : PollWants(v, disk) => v \in Entries \cup held)

\* A server that begins to shut down exits: however loads, commands and the
\* poller interleave with shutdown(), no process is left that the interpreter
\* would wait for (main process, run and shutdown), unless another signal
\* interrupts shutdown() itself.
ShutdownCompletes == phase = "acquire" ~> phase = "exited" \/ interrupted

\* tests/test_shutdown.py: "Send two SIGINTs rapidly and verify server exits."
TwoSignalsEnd == signals = 2 ~> phase = "exited"
=============================================================================
