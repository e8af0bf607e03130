--------------------------- MODULE ModelLifecycle ---------------------------
(***************************************************************************)
(* ModelManager (core/model_manager.py) and ModelRegistry                  *)
(* (core/registry.py): how the threads of the main process (admin loop,    *)
(* repository poller, gRPC pool, start-up) load, unload, reload, delete    *)
(* and activate the versions of one model.                                 *)
(*                                                                         *)
(* Code run under ModelManager._model_lock is one action; code between two *)
(* critical sections is one action per access to shared state.  A version  *)
(* is a registry key "<name>_<version>".  A launch is the list of worker   *)
(* processes started by one call of _launch_workers, together with their   *)
(* request queues and their Manager dict of start-up statuses.             *)
(***************************************************************************)
EXTENDS Naturals, FiniteSets

CONSTANTS
    Threads,         \* threads (and HTTP workers) that call ModelManager
    Ops,             \* the operations each of them calls
    Versions,        \* version directories of the model
    Ensembles,       \* the versions whose config.yaml holds an ensemble block
    Rank,            \* position of a version in the order of version STRINGS
    Orchestrations,  \* possible contents of orchestration.yaml for the model
    NoVersion,       \* Python's None where a version is expected
    MaxLaunches      \* bound: how often _launch_workers runs in a behaviour

ASSUME VersionAssumption ==
    /\ IsFiniteSet(Versions)
    /\ Ensembles \subseteq Versions
    /\ NoVersion \notin Versions
    /\ Rank \in [Versions -> Nat]
    /\ \A v, w \in Versions : Rank[v] = Rank[w] => v = w

ASSUME OrchestrationAssumption ==
    Orchestrations \subseteq [default : Versions \cup {NoVersion}, max : Nat]

Operations == {"load", "unload", "unload_all", "reload", "delete", "activate",
               "activate_unlocked"}

ASSUME OpsAssumption == Ops \in [Threads -> SUBSET Operations]

ASSUME LaunchAssumption == MaxLaunches \in Nat

NoLaunch == 0
Launches == 1 .. MaxLaunches

VARIABLES
    registry,   \* ModelRegistry._registry: status of every entry
    queues,     \* ModelRegistry._worker_queues/_queues: the launch they feed
    active,     \* ModelRegistry._active_versions[name]
    held,       \* keys of ModelManager._workers
    pool,       \* ModelManager._workers: the launches whose processes it lists
    setup,      \* ModelManager._workers_setup_status: the launch reporting there
    report,     \* contents of a launch's status dict
    proc,       \* the worker processes of a launch
    launched,   \* how many launches there have been
    disk,       \* version directories present in the repository
    orch,       \* orchestration.yaml of this model
    pc, call, ver,   \* per thread: position, operation, version
    mine,       \* per thread: local variable "workers" of _load_litapi
    watch,      \* per thread: local variable "status_dict" of _wait_for_ready
    stop,       \* per thread: local variable "workers_to_stop"
    wasActive,  \* per thread: local variable "was_active" of reload
    todo,       \* per thread: local variable "keys" of unload
    lost,       \* history: launches that failed before all processes had started
    raced       \* history: an unload hit a version another thread relied on

registryVars == <<registry, queues, active>>
managerVars  == <<held, pool, setup>>
workerVars   == <<report, proc, launched>>
controlVars  == <<pc, call, ver, wasActive>>
localVars    == <<mine, watch, stop, todo>>
history      == <<lost, raced>>
vars == <<registryVars, managerVars, workerVars, disk, orch,
          controlVars, localVars, history>>

-----------------------------------------------------------------------------
(* Values                                                                  *)

\* "absent" is a missing entry.  UNLOADING is written and removed inside one
\* critical section, so it is no state between two actions.
Status == {"absent", "LOADING", "READY", "ERROR"}

\* Where a thread stands inside load(), from the placeholder to the return.
LoadSteps == {"dir", "ensemble", "register", "build", "launch", "publish",
              "capture", "wait", "finish", "evict", "error", "finally"}

OtherSteps == {"idle", "unload", "next", "terminate", "enter", "rmtree",
               "actCheck", "actSet"}

Ready(reg) == {v \in Versions : reg[v] = "READY"}

Published == UNION {pool[v] : v \in Versions}

Alive(b) == proc[b] \in {"starting", "up"}

Loading(t, v) == pc[t] \in LoadSteps /\ ver[t] = v

\* Threads that are going to use what they have already learnt about v: they
\* are inside load(v), or between the READY check of activate_version and its
\* assignment.
Relying(v) == {t \in Threads : Loading(t, v) \/ (pc[t] = "actSet" /\ ver[t] = v)}

\* ModelManager._model_lock is free.  Only the critical section that ends a
\* load takes two actions; every other one is a single action.
LockFree == \A t \in Threads : pc[t] # "evict"

-----------------------------------------------------------------------------
Init ==
    /\ registry = [v \in Versions |-> "absent"]
    /\ queues = [v \in Versions |-> NoLaunch]
    /\ active = NoVersion
    /\ held = {}
    /\ pool = [v \in Versions |-> {}]
    /\ setup = [v \in Versions |-> NoLaunch]
    /\ report = [b \in Launches |-> "none"]
    /\ proc = [b \in Launches |-> "none"]
    /\ launched = 0
    /\ disk = Versions
    /\ orch \in Orchestrations
    /\ pc = [t \in Threads |-> "idle"]
    /\ call = [t \in Threads |-> "none"]
    /\ ver = [t \in Threads |-> NoVersion]
    /\ mine = [t \in Threads |-> NoLaunch]
    /\ watch = [t \in Threads |-> NoLaunch]
    /\ stop = [t \in Threads |-> {}]
    /\ wasActive = [t \in Threads |-> FALSE]
    /\ todo = [t \in Threads |-> {}]
    /\ lost = {}
    /\ raced = FALSE

Goto(t, step) == pc' = [pc EXCEPT ![t] = step]

\* A thread enters an operation; what it does first is a step of its own.
Begin(t, op, v, was, step) ==
    /\ pc[t] = "idle" /\ op \in Ops[t]
    /\ wasActive' = [wasActive EXCEPT ![t] = was]
    /\ call' = [call EXCEPT ![t] = op]
    /\ ver' = [ver EXCEPT ![t] = v]
    /\ Goto(t, step)

\* The operation of thread t is over.
Return(t) ==
    /\ Goto(t, "idle")
    /\ call' = [call EXCEPT ![t] = "none"]
    /\ ver' = [ver EXCEPT ![t] = NoVersion]
    /\ wasActive' = [wasActive EXCEPT ![t] = FALSE]

Continue(t, step) == Goto(t, step) /\ UNCHANGED <<call, ver, wasActive>>

\* load() is over: its caller is reload(), which reactivates a version that
\* was active, or the operation itself.
LeaveLoad(t, ok) ==
    IF call[t] = "reload" /\ ok /\ wasActive[t]
    THEN Continue(t, "actCheck") ELSE Return(t)

\* Bound on launches: a load may start only if its launch still fits.
LaunchBound ==
    launched + Cardinality({t \in Threads :
        /\ call[t] \in {"load", "reload"}
        /\ pc[t] \in {"unload", "terminate", "enter", "dir", "register", "build", "launch"}})
      < MaxLaunches

-----------------------------------------------------------------------------
(* _unload_version: the critical section, for the loaded versions of U.    *)
(* _enforce_max_versions enters it again, for every version it evicts.     *)

IsEnsemble(v) == registry[v] # "absent" /\ v \in Ensembles

Loaded(v) == v \in held \/ IsEnsemble(v)

\* Variant with a bug: the workers stay in the table.
Dropped_KeepsWorkers(U) == {}

\* Versions whose worker table entry, queues and statuses the section drops.
Dropped(U) == {v \in U : ~IsEnsemble(v)}

\* Variant with a bug: the active version is not cleared.
NextActive_KeepsActive(U, reg) == {active}

\* The active version afterwards: kept, or any other READY one (the code takes
\* the first in the order of the Manager dict), or none.
NextActive(U, reg) ==
    IF active \notin U THEN {active}
    ELSE IF Ready(reg) = {} THEN {NoVersion} ELSE Ready(reg)

UnloadSection(t, U) ==
    /\ registry' = [v \in Versions |-> IF v \in U THEN "absent" ELSE registry[v]]
    /\ queues' = [v \in Versions |-> IF v \in U THEN NoLaunch ELSE queues[v]]
    /\ held' = held \ Dropped(U)
    /\ pool' = [v \in Versions |-> IF v \in Dropped(U) THEN {} ELSE pool[v]]
    /\ setup' = [v \in Versions |-> IF v \in Dropped(U) THEN NoLaunch ELSE setup[v]]
    /\ report' = [b \in Launches |->
                    IF \E v \in Dropped(U) : setup[v] = b THEN "gone" ELSE report[b]]
    /\ active' \in NextActive(U, registry')
    /\ raced' = (raced \/ \E v \in U : Relying(v) \ {t} # {})

\* Variant with a bug: the list of workers to terminate is lost.
UnloadVersion_ForgetsWorkers(t, v) ==
    /\ Loaded(v)
    /\ UnloadSection(t, {v})
    /\ stop' = stop
    /\ Continue(t, "terminate")

\* One call of _unload_version by an operation other than load: False when the
\* version is not loaded, otherwise the workers are left to terminate.
UnloadVersion(t, v) ==
    /\ Loaded(v)
    /\ UnloadSection(t, {v})
    /\ stop' = [stop EXCEPT ![t] = IF IsEnsemble(v) THEN {} ELSE pool[v]]
    /\ Continue(t, "terminate")

-----------------------------------------------------------------------------
(* load                                                                    *)

Load(t, v) ==
    /\ LaunchBound
    /\ Begin(t, "load", v, FALSE, "enter")
    /\ UNCHANGED <<registryVars, managerVars, workerVars, disk, orch, localVars, history>>

\* Variant with a bug: the table is not tested before the placeholder is put.
EnterLoad_NoTest(t) ==
    /\ pc[t] = "enter" /\ LockFree
    /\ held' = held \cup {ver[t]}
    /\ Continue(t, "dir")
    /\ UNCHANGED <<registryVars, pool, setup, workerVars, disk, orch, localVars, history>>

\* The first critical section: give up when the key is there, or put the
\* placeholder [] that keeps other threads from loading the version.
EnterLoad(t) ==
    /\ pc[t] = "enter" /\ LockFree
    /\ \/ /\ ver[t] \in held
          /\ LeaveLoad(t, TRUE)
          /\ UNCHANGED held
       \/ /\ ver[t] \notin held
          /\ held' = held \cup {ver[t]}
          /\ Continue(t, "dir")
    /\ UNCHANGED <<registryVars, pool, setup, workerVars, disk, orch, localVars, history>>

\* The version directory is missing, its config.yaml is unreadable, or it holds
\* an ensemble or a LitAPI model.
InspectDir(t) ==
    /\ pc[t] = "dir"
    /\ \/ Continue(t, "finally")
       \/ /\ ver[t] \in disk
          /\ Continue(t, IF ver[t] \in Ensembles THEN "ensemble" ELSE "register")
    /\ UNCHANGED <<registryVars, managerVars, workerVars, disk, orch, localVars, history>>

\* Variant with a bug: a version that is not the default one is activated by
\* nobody, even if orchestration.yaml names no default.
AfterActivation_DefaultOnly(v, reg) ==
    IF active = NoVersion /\ orch.default = v THEN v ELSE active

\* Activation when a load ends: only if the model has no active version, and
\* only the default version if orchestration.yaml names one.
AfterActivation(v, reg) ==
    IF active = NoVersion /\ orch.default \in {NoVersion, v} /\ reg[v] = "READY"
    THEN v ELSE active

\* _load_ensemble, in one critical section: the DAG parses or it does not.
\* (An ensemble never has workers, so the second "already loaded" test of the
\* section cannot succeed.)
LoadEnsemble(t) ==
    /\ pc[t] = "ensemble" /\ LockFree
    /\ \/ /\ registry' = [registry EXCEPT ![ver[t]] = "READY"]
          /\ active' = AfterActivation(ver[t], registry')
          /\ LeaveLoad(t, TRUE)
       \/ /\ registry' = [registry EXCEPT ![ver[t]] = "ERROR"]
          /\ Continue(t, "finally")
          /\ UNCHANGED <<active>>
    /\ UNCHANGED <<queues, managerVars, workerVars, disk, orch, localVars, history>>

\* registry.register, outside the lock: whatever entry is there is overwritten.
Register(t) ==
    /\ pc[t] = "register"
    /\ registry' = [registry EXCEPT ![ver[t]] = "LOADING"]
    /\ Continue(t, "build")
    /\ UNCHANGED <<queues, active, managerVars, workerVars, disk, orch, localVars, history>>

\* Importing model.py and building the LitAPI may raise; otherwise the queues
\* of the launch to come are registered, outside the lock.
BuildApi(t) ==
    /\ pc[t] = "build"
    /\ \/ /\ Continue(t, "error")
          /\ UNCHANGED <<queues, mine, launched>>
       \/ /\ launched < MaxLaunches
          /\ launched' = launched + 1
          /\ mine' = [mine EXCEPT ![t] = launched']
          /\ queues' = [queues EXCEPT ![ver[t]] = launched']
          /\ Continue(t, "launch")
    /\ UNCHANGED <<registry, active, managerVars, report, proc, disk, orch, watch, stop, todo, history>>

\* _launch_workers, outside the lock.  Process.start() may raise when some of
\* the processes have been started, or none: the list of them is then lost.
LaunchWorkers(t) ==
    /\ pc[t] = "launch"
    /\ setup' = [setup EXCEPT ![ver[t]] = mine[t]]
    /\ report' = [report EXCEPT ![mine[t]] = "starting"]
    /\ \/ /\ proc' = [proc EXCEPT ![mine[t]] = "starting"]
          /\ Continue(t, "publish")
          /\ UNCHANGED lost
       \/ /\ proc' \in {proc, [proc EXCEPT ![mine[t]] = "starting"]}
          /\ Continue(t, "error")
          /\ lost' = lost \cup {mine[t]}
    /\ UNCHANGED <<registryVars, held, pool, launched, disk, orch, localVars, raced>>

\* The second critical section: publish the workers, or terminate them when
\* another thread has published some for this version.
PublishWorkers(t) ==
    /\ pc[t] = "publish" /\ LockFree
    /\ \/ /\ pool[ver[t]] # {}
          /\ proc' = [proc EXCEPT ![mine[t]] = "dead"]
          /\ mine' = [mine EXCEPT ![t] = NoLaunch]
          /\ LeaveLoad(t, TRUE)
          /\ UNCHANGED <<held, pool>>
       \/ /\ pool[ver[t]] = {}
          /\ held' = held \cup {ver[t]}
          /\ pool' = [pool EXCEPT ![ver[t]] = {mine[t]}]
          /\ Continue(t, "capture")
          /\ UNCHANGED <<proc, mine>>
    /\ UNCHANGED <<registryVars, setup, report, launched, disk, orch, watch, stop, todo, history>>

\* _wait_for_ready looks the status dict up under the key, outside the lock:
\* it may be gone, or belong to another launch.
CaptureStatus(t) ==
    /\ pc[t] = "capture"
    /\ watch' = [watch EXCEPT ![t] = setup[ver[t]]]
    /\ Continue(t, "wait")
    /\ UNCHANGED <<registryVars, managerVars, workerVars, disk, orch, mine, stop, todo, history>>

\* Every worker process lives and every status says ready.
WorkersReady(t) ==
    /\ pc[t] = "wait"
    /\ Alive(mine[t])
    /\ watch[t] # NoLaunch /\ report[watch[t]] = "ready"
    /\ Continue(t, "finish")
    /\ UNCHANGED <<registryVars, managerVars, workerVars, disk, orch, localVars, history>>

\* Variant with a bug: the wait has no time-out.
WaitRaises_NoTimeout(t) ==
    /\ pc[t] = "wait" /\ ~Alive(mine[t])
    /\ Continue(t, "error")
    /\ UNCHANGED <<registryVars, managerVars, workerVars, disk, orch, localVars, history>>

\* A worker process died, or 60 seconds have passed (whatever the workers say:
\* the last report may arrive while the loop sleeps).
WaitRaises(t) ==
    /\ pc[t] = "wait"
    /\ Continue(t, "error")
    /\ UNCHANGED <<registryVars, managerVars, workerVars, disk, orch, localVars, history>>

\* The third critical section: READY (if the entry is still there), activate.
FinishLoad(t) ==
    /\ pc[t] = "finish" /\ LockFree
    /\ registry' = [registry EXCEPT ![ver[t]] = IF @ = "absent" THEN @ ELSE "READY"]
    /\ active' = AfterActivation(ver[t], registry')
    /\ mine' = [mine EXCEPT ![t] = NoLaunch]
    /\ watch' = [watch EXCEPT ![t] = NoLaunch]
    /\ Continue(t, "evict")
    /\ UNCHANGED <<queues, managerVars, workerVars, disk, orch, stop, todo, history>>

\* Variant with a bug: one version too many is kept.
Evicted_OffByOne ==
    {v \in Ready(registry) : /\ Loaded(v)
                             /\ Cardinality({w \in Ready(registry) : Rank[w] > Rank[v]})
                                  > orch.max}

\* READY versions are unloaded in the order of their version strings until no
\* more than max_loaded_versions are left.
Evicted ==
    {v \in Ready(registry) : /\ Loaded(v)
                             /\ Cardinality({w \in Ready(registry) : Rank[w] > Rank[v]})
                                  >= orch.max}

\* The same section goes on, the new status already visible to those who read
\* the registry without the lock; it terminates the workers inside the lock.
EnforceMaxVersions(t) ==
    /\ pc[t] = "evict"
    /\ UnloadSection(t, Evicted)
    /\ proc' = [b \in Launches |->
                  IF \E v \in Dropped(Evicted) : b \in pool[v] THEN "dead" ELSE proc[b]]
    /\ LeaveLoad(t, TRUE)
    /\ UNCHANGED <<launched, disk, orch, localVars, lost>>

\* Variant with a bug: a status nobody knows.
FailLoad_Misspelt(t) ==
    /\ pc[t] = "error" /\ LockFree
    /\ registry' = [registry EXCEPT ![ver[t]] = IF @ = "absent" THEN @ ELSE "FAILED"]
    /\ mine' = [mine EXCEPT ![t] = NoLaunch]
    /\ watch' = [watch EXCEPT ![t] = NoLaunch]
    /\ Continue(t, "finally")
    /\ UNCHANGED <<queues, active, managerVars, workerVars, disk, orch, stop, todo, history>>

\* Any exception of _load_litapi: the entry, if there, is marked ERROR; the
\* workers, if published, stay where they are.
FailLoad(t) ==
    /\ pc[t] = "error" /\ LockFree
    /\ registry' = [registry EXCEPT ![ver[t]] = IF @ = "absent" THEN @ ELSE "ERROR"]
    /\ mine' = [mine EXCEPT ![t] = NoLaunch]
    /\ watch' = [watch EXCEPT ![t] = NoLaunch]
    /\ Continue(t, "finally")
    /\ UNCHANGED <<queues, active, managerVars, workerVars, disk, orch, stop, todo, history>>

\* Variant with a bug: the placeholder of a failed load is left behind.
DropPlaceholder_Never(t) ==
    /\ pc[t] = "finally" /\ LockFree
    /\ LeaveLoad(t, FALSE)
    /\ UNCHANGED <<registryVars, managerVars, workerVars, disk, orch, localVars, history>>

\* The finally clause of load: drop the key if it holds the placeholder,
\* whichever thread put it there.
DropPlaceholder(t) ==
    /\ pc[t] = "finally" /\ LockFree
    /\ held' = IF pool[ver[t]] = {} THEN held \ {ver[t]} ELSE held
    /\ LeaveLoad(t, FALSE)
    /\ UNCHANGED <<registryVars, pool, setup, workerVars, disk, orch, localVars, history>>

-----------------------------------------------------------------------------
(* unload, reload, delete_version                                          *)

Unload(t, v) ==
    /\ Begin(t, "unload", v, FALSE, "unload")
    /\ UNCHANGED <<registryVars, managerVars, workerVars, disk, orch, localVars, history>>

\* unload(name): the keys are listed under the lock and unloaded one by one.
UnloadAll(t) ==
    /\ LockFree
    /\ Begin(t, "unload_all", NoVersion, FALSE, "next")
    /\ todo' = [todo EXCEPT ![t] = held]
    /\ UNCHANGED <<registryVars, managerVars, workerVars, disk, orch, mine, watch, stop, history>>

UnloadNext(t) ==
    /\ pc[t] = "next" /\ LockFree
    /\ \E v \in todo[t] :
         /\ todo' = [todo EXCEPT ![t] = @ \ {v}]
         /\ \/ UnloadVersion(t, v)
            \/ /\ ~Loaded(v)
               /\ Continue(t, "next")
               /\ UNCHANGED <<registryVars, managerVars, report, stop, raced>>
    /\ UNCHANGED <<proc, launched, disk, orch, mine, watch, lost>>

UnloadAllDone(t) ==
    /\ pc[t] = "next" /\ todo[t] = {}
    /\ Return(t)
    /\ UNCHANGED <<registryVars, managerVars, workerVars, disk, orch, localVars, history>>

\* reload reads the registry without the lock; with no entry it returns False.
Reload(t, v) ==
    /\ LaunchBound
    /\ registry[v] # "absent"
    /\ Begin(t, "reload", v, active = v, "unload")
    /\ UNCHANGED <<registryVars, managerVars, workerVars, disk, orch, mine, watch, stop, todo, history>>

\* delete_version looks at the worker table without the lock.
Delete(t, v) ==
    /\ Begin(t, "delete", v, FALSE, IF v \in held THEN "unload" ELSE "rmtree")
    /\ UNCHANGED <<registryVars, managerVars, workerVars, disk, orch, localVars, history>>

\* _unload_version inside unload(name, version), reload and delete_version.
UnloadOne(t) ==
    /\ pc[t] = "unload" /\ LockFree
    /\ \/ UnloadVersion(t, ver[t])
       \/ /\ ~Loaded(ver[t])
          /\ Return(t)
          /\ UNCHANGED <<registryVars, managerVars, report, stop, raced>>
    /\ UNCHANGED <<proc, launched, disk, orch, mine, watch, todo, lost>>

\* The lock is released before the processes are terminated and joined; then
\* the operation that wanted the version unloaded goes on.
TerminateWorkers(t) ==
    /\ pc[t] = "terminate"
    /\ proc' = [b \in Launches |-> IF b \in stop[t] THEN "dead" ELSE proc[b]]
    /\ stop' = [stop EXCEPT ![t] = {}]
    /\ CASE call[t] = "unload" -> Return(t)
         [] call[t] = "unload_all" -> Continue(t, "next")
         [] call[t] = "reload" -> Continue(t, "enter")
         [] call[t] = "delete" -> Continue(t, "rmtree")
    /\ UNCHANGED <<registryVars, managerVars, report, launched, disk, orch, mine, watch, todo, history>>

\* rmtree, which may fail.
RemoveDir(t) ==
    /\ pc[t] = "rmtree"
    /\ disk' \in {disk, disk \ {ver[t]}}
    /\ Return(t)
    /\ UNCHANGED <<registryVars, managerVars, workerVars, orch, localVars, history>>

-----------------------------------------------------------------------------
(* activate                                                                *)

\* ModelManager.activate: registry.activate_version under the lock.
Activate(t, v) ==
    /\ pc[t] = "idle" /\ "activate" \in Ops[t]
    /\ registry[v] = "READY" /\ LockFree
    /\ active' = v
    /\ UNCHANGED <<registry, queues, managerVars, workerVars, disk, orch, controlVars, localVars, history>>

\* HTTPState.activate_model in a worker process calls the registry directly,
\* without the lock; so does reload when it is done.
ActivateUnlocked(t, v) ==
    /\ Begin(t, "activate_unlocked", v, FALSE, "actCheck")
    /\ UNCHANGED <<registryVars, managerVars, workerVars, disk, orch, localVars, history>>

\* registry.activate_version reads the entry ...
CheckReady(t) ==
    /\ pc[t] = "actCheck"
    /\ IF registry[ver[t]] = "READY"
       THEN Continue(t, "actSet")
       ELSE Return(t)
    /\ UNCHANGED <<registryVars, managerVars, workerVars, disk, orch, localVars, history>>

\* ... and sets the active version, in a second call of the Manager.
SetActive(t) ==
    /\ pc[t] = "actSet"
    /\ active' = ver[t]
    /\ Return(t)
    /\ UNCHANGED <<registry, queues, managerVars, workerVars, disk, orch, localVars, history>>

-----------------------------------------------------------------------------
(* Worker processes and the operator's file system                         *)

\* setup() is done: the worker writes "ready" into its launch's dict, even if
\* an unload has emptied it.
WorkerReady(b) ==
    /\ proc[b] = "starting"
    /\ proc' = [proc EXCEPT ![b] = "up"]
    /\ report' = [report EXCEPT ![b] = "ready"]
    /\ UNCHANGED <<registryVars, managerVars, launched, disk, orch, controlVars, localVars, history>>

\* setup() raises or the process is killed; nothing else notices.
WorkerDies(b) ==
    /\ Alive(b)
    /\ proc' = [proc EXCEPT ![b] = "dead"]
    /\ UNCHANGED <<registryVars, managerVars, report, launched, disk, orch, controlVars, localVars, history>>

\* Somebody copies a version directory into the repository.
AddDir(v) ==
    /\ v \notin disk
    /\ disk' = disk \cup {v}
    /\ UNCHANGED <<registryVars, managerVars, workerVars, orch, controlVars, localVars, history>>

-----------------------------------------------------------------------------
Call(t) ==
    \/ \E v \in Versions : \/ Load(t, v) \/ Unload(t, v) \/ Reload(t, v)
                           \/ Delete(t, v) \/ Activate(t, v) \/ ActivateUnlocked(t, v)
    \/ UnloadAll(t)

\* What a thread does inside an operation.
Step(t) ==
    \/ EnterLoad(t) \/ InspectDir(t) \/ LoadEnsemble(t) \/ Register(t)
    \/ BuildApi(t) \/ LaunchWorkers(t) \/ PublishWorkers(t) \/ CaptureStatus(t)
    \/ WorkersReady(t) \/ WaitRaises(t) \/ FinishLoad(t) \/ EnforceMaxVersions(t) \/ FailLoad(t)
    \/ DropPlaceholder(t) \/ UnloadNext(t) \/ UnloadAllDone(t) \/ UnloadOne(t)
    \/ TerminateWorkers(t) \/ RemoveDir(t) \/ CheckReady(t) \/ SetActive(t)

Environment ==
    \/ \E b \in Launches : WorkerReady(b) \/ WorkerDies(b)
    \/ \E v \in Versions : AddDir(v)

Next == (\E t \in Threads : Call(t) \/ Step(t)) \/ Environment

Spec == Init /\ [][Next]_vars

\* Python runs every thread that is not blocked, and nothing blocks inside an
\* operation for ever: the lock is held for finite sections, the wait for the
\* workers has a time-out and joins have one too.
FairSpec == Spec /\ \A t \in Threads : WF_vars(Step(t))

-----------------------------------------------------------------------------
(* Properties                                                              *)

TypeOK ==
    /\ registry \in [Versions -> Status]
    /\ queues \in [Versions -> 0 .. MaxLaunches]
    /\ active \in Versions \cup {NoVersion}
    /\ held \subseteq Versions
    /\ pool \in [Versions -> SUBSET Launches]
    /\ setup \in [Versions -> 0 .. MaxLaunches]
    /\ report \in [Launches -> {"none", "starting", "ready", "gone"}]
    /\ proc \in [Launches -> {"none", "starting", "up", "dead"}]
    /\ launched \in 0 .. MaxLaunches
    /\ disk \subseteq Versions
    /\ orch \in Orchestrations
    /\ pc \in [Threads -> LoadSteps \cup OtherSteps]
    /\ call \in [Threads -> Operations \cup {"none"}]
    /\ ver \in [Threads -> Versions \cup {NoVersion}]
    /\ mine \in [Threads -> 0 .. MaxLaunches]
    /\ watch \in [Threads -> 0 .. MaxLaunches]
    /\ stop \in [Threads -> SUBSET Launches]
    /\ wasActive \in [Threads -> BOOLEAN]
    /\ todo \in [Threads -> SUBSET Versions]
    /\ lost \subseteq Launches
    /\ raced \in BOOLEAN

\* No worker process is forgotten: in every interleaving of load, unload,
\* reload and delete, a live process is listed in ModelManager._workers, or is
\* about to be published or terminated by the thread that holds it; unless
\* starting the processes failed half-way.
NoOrphanWorkers ==
    \A b \in Launches : Alive(b) =>
        \/ b \in lost
        \/ b \in Published
        \/ \E t \in Threads : pc[t] = "publish" /\ mine[t] = b
        \/ \E t \in Threads : b \in stop[t]

\* A launch has one owner: the table lists at most one launch per version and
\* no launch twice, and a thread that is terminating processes outside the
\* lock never holds processes that are published.
OneOwner ==
    /\ \A v \in Versions : \A b, c \in pool[v] : b = c
    /\ \A v, w \in Versions : v # w => pool[v] \cap pool[w] = {}
    /\ \A t \in Threads : stop[t] \cap Published = {}

\* Two loads of one version never run at the same time: the placeholder keeps
\* the second out, unless an unload removed it.
LoadsExclude ==
    ~raced => \A t, u \in Threads : \A v \in Versions :
                 Loading(t, v) /\ Loading(u, v) => t = u

\* Requests without a version are routed to the active version: it is READY.
\* The only way to break this is an unload that hits a version while another
\* thread loads it or is setting it active.
ActiveIsReady == ~raced /\ active # NoVersion => registry[active] = "READY"

\* The request queues registered for a READY version feed the very processes
\* that the worker table lists for it (same exception).
ReadyIsServed ==
    ~raced => \A v \in Ready(registry) \ Ensembles :
                 queues[v] # NoLaunch /\ pool[v] = {queues[v]}

\* When nobody is inside an operation, nothing is half done: no version is
\* LOADING, a version in the worker table has a registry entry that tells how
\* its load ended, and a READY version has workers.
QuiescentConsistent ==
    (\A t \in Threads : pc[t] = "idle") =>
        \A v \in Versions \ Ensembles :
            /\ registry[v] # "LOADING"
            /\ v \in held => registry[v] \in {"READY", "ERROR"}
            /\ registry[v] = "READY" => v \in held

\* The same, as long as no unload has hit a version that another thread was
\* loading or activating.
SettledConsistent == ~raced => QuiescentConsistent

\* max_loaded_versions holds whenever the lock is free (same exception; and
\* ensembles, which do not enforce it when they load, aside).
MaxLoadedRespected ==
    ~raced /\ Ensembles = {} /\ LockFree => Cardinality(Ready(registry)) <= orch.max

\* A model with a READY version that may be activated by itself is routable:
\* some version is active.
ReadyModelIsRouted ==
    ~raced => \A v \in Ready(registry) :
                 orch.default \in {NoVersion, v} => active # NoVersion

\* Worker processes that are in no table get terminated or published.
StrayWorkersReaped ==
    \A b \in Launches : (Alive(b) /\ b \notin Published \cup lost)
                           ~> (~Alive(b) \/ b \in Published)

\* Every operation returns, also when workers hang or die during start-up.
OperationsReturn == \A t \in Threads : (pc[t] # "idle") ~> (pc[t] = "idle")
=============================================================================
