----------------------- MODULE ModelLifecycle_proofs -----------------------
(***************************************************************************)
(* Proofs about ModelLifecycle, for any threads, versions, ensembles,      *)
(* orchestration files and number of launches.                             *)
(***************************************************************************)
EXTENDS ModelLifecycle, FiniteSetTheorems, WellFoundedInduction, TLAPS

-----------------------------------------------------------------------------
(* The inductive invariant, in named parts                                 *)

\* What an operation is doing fits the operation and its arguments.
ControlOK ==
    \A t \in Threads :
        /\ pc[t] \notin {"idle", "next", "terminate"} => ver[t] \in Versions
        /\ pc[t] = "next" => call[t] = "unload_all"
        /\ pc[t] = "unload" => call[t] \in {"unload", "reload", "delete"}
        /\ pc[t] = "terminate" =>
              /\ call[t] \in {"unload", "unload_all", "reload", "delete"}
              /\ call[t] # "unload_all" => ver[t] \in Versions
        /\ pc[t] \in {"launch", "publish"} => mine[t] \in Launches

\* Only a thread that is about to terminate processes holds a list of them.
StopOK == \A t \in Threads : stop[t] # {} => pc[t] = "terminate"

\* The launch of a thread that has not yet published it is its own.
OwnLaunch ==
    /\ \A v \in Versions : \A b \in pool[v] : b <= launched
    /\ \A t \in Threads : \A b \in stop[t] : b <= launched
    /\ \A t \in Threads : mine[t] <= launched
    /\ \A t \in Threads : pc[t] \in {"launch", "publish"} =>
          /\ mine[t] \notin Published
          /\ \A u \in Threads : mine[t] \notin stop[u]
          /\ \A u \in Threads : pc[u] \in {"launch", "publish"} /\ mine[u] = mine[t]
                                  => u = t

\* As long as no unload has raced with a load: a version that is being loaded
\* is in the worker table, so is a READY version, and a version is not READY
\* before its load has come to an end.
LoadOK ==
    ~raced =>
        /\ \A t \in Threads : \A v \in Versions : Loading(t, v) => v \in held
        /\ \A v \in Versions : registry[v] = "READY" => v \in held
        /\ \A t \in Threads : \A v \in Versions :
              Loading(t, v) /\ pc[t] # "evict" => registry[v] # "READY"
        /\ \A t \in Threads : pc[t] = "actSet" => registry[ver[t]] = "READY"

Ownership == StopOK /\ OwnLaunch /\ OneOwner /\ NoOrphanWorkers

Routing == LoadsExclude /\ LoadOK /\ ActiveIsReady

-----------------------------------------------------------------------------
(* Type correctness                                                        *)

LEMMA LaunchRange == NoLaunch \in 0 .. MaxLaunches /\ Launches \subseteq 0 .. MaxLaunches
BY LaunchAssumption DEF NoLaunch, Launches

\* The variables that hold a thread's position and its operation.
Control == /\ pc \in [Threads -> LoadSteps \cup OtherSteps]
           /\ call \in [Threads -> Operations \cup {"none"}]
           /\ ver \in [Threads -> Versions \cup {NoVersion}]
           /\ wasActive \in [Threads -> BOOLEAN]

LEMMA InitType == Init => TypeOK /\ ControlOK
<1> SUFFICES ASSUME Init PROVE TypeOK /\ ControlOK
  OBVIOUS
<1> USE LaunchRange DEF Init
<1>1. TypeOK
  <2>1. orch \in Orchestrations /\ launched \in 0 .. MaxLaunches
    BY LaunchAssumption
  <2>2. wasActive \in [Threads -> BOOLEAN] /\ raced \in BOOLEAN
    BY Zenon
  <2> QED BY <2>1, <2>2 DEF TypeOK, Status, OtherSteps
<1>2. ControlOK
  BY DEF ControlOK
<1> QED BY <1>1, <1>2

LEMMA BeginType ==
    ASSUME TypeOK, NEW t \in Threads, NEW op \in Operations,
           NEW v \in Versions \cup {NoVersion}, NEW was \in BOOLEAN,
           NEW step \in LoadSteps \cup OtherSteps, Begin(t, op, v, was, step)
    PROVE  Control'
BY DEF TypeOK, Begin, Goto, Control

LEMMA ContinueType ==
    ASSUME TypeOK, NEW t \in Threads, NEW step \in LoadSteps \cup OtherSteps,
           Continue(t, step)
    PROVE  Control'
BY DEF TypeOK, Continue, Goto, Control

LEMMA ReturnType ==
    ASSUME TypeOK, NEW t \in Threads, Return(t)
    PROVE  Control'
BY DEF TypeOK, Return, Goto, Control, OtherSteps

LEMMA LeaveLoadType ==
    ASSUME TypeOK, NEW t \in Threads, NEW ok \in BOOLEAN, LeaveLoad(t, ok)
    PROVE  Control'
BY ContinueType, ReturnType DEF LeaveLoad, OtherSteps

LEMMA UnloadSectionType ==
    ASSUME TypeOK, NEW t \in Threads, NEW U \in SUBSET Versions, UnloadSection(t, U)
    PROVE  /\ registry' \in [Versions -> Status]
           /\ queues' \in [Versions -> 0 .. MaxLaunches]
           /\ active' \in Versions \cup {NoVersion}
           /\ held' \subseteq Versions
           /\ pool' \in [Versions -> SUBSET Launches]
           /\ setup' \in [Versions -> 0 .. MaxLaunches]
           /\ report' \in [Launches -> {"none", "starting", "ready", "gone"}]
           /\ raced' \in BOOLEAN
<1>1. registry' \in [Versions -> Status]
  BY DEF UnloadSection, TypeOK, Status
<1>2. active' \in Versions \cup {NoVersion}
  BY DEF UnloadSection, NextActive, TypeOK, Ready
<1>3. queues' \in [Versions -> 0 .. MaxLaunches]
  BY LaunchRange DEF UnloadSection, TypeOK
<1>4. held' \subseteq Versions /\ raced' \in BOOLEAN
  BY DEF UnloadSection, TypeOK
<1>5. pool' \in [Versions -> SUBSET Launches]
  BY DEF UnloadSection, TypeOK
<1>6. setup' \in [Versions -> 0 .. MaxLaunches]
  BY LaunchRange DEF UnloadSection, TypeOK
<1>7. report' \in [Launches -> {"none", "starting", "ready", "gone"}]
  BY DEF UnloadSection, TypeOK
<1> QED BY <1>1, <1>2, <1>3, <1>4, <1>5, <1>6, <1>7

LEMMA UnloadVersionType ==
    ASSUME TypeOK, NEW t \in Threads, NEW v \in Versions, UnloadVersion(t, v)
    PROVE  /\ Control'
           /\ UnloadSection(t, {v})
           /\ registry' \in [Versions -> Status]
           /\ queues' \in [Versions -> 0 .. MaxLaunches]
           /\ active' \in Versions \cup {NoVersion}
           /\ held' \subseteq Versions
           /\ pool' \in [Versions -> SUBSET Launches]
           /\ setup' \in [Versions -> 0 .. MaxLaunches]
           /\ report' \in [Launches -> {"none", "starting", "ready", "gone"}]
           /\ raced' \in BOOLEAN
           /\ stop' \in [Threads -> SUBSET Launches]
<1>1. Control'
  BY ContinueType DEF UnloadVersion, OtherSteps
<1>2. UnloadSection(t, {v}) /\ {v} \in SUBSET Versions
  BY DEF UnloadVersion
<1>3. stop' \in [Threads -> SUBSET Launches]
  BY DEF UnloadVersion, TypeOK
<1> QED BY <1>1, <1>2, <1>3, UnloadSectionType

LEMMA UnchangedType ==
    ASSUME TypeOK, UNCHANGED controlVars
    PROVE  Control'
BY DEF TypeOK, controlVars, Control

LEMMA StepType ==
    ASSUME TypeOK, ControlOK, [Next]_vars
    PROVE  TypeOK' /\ ControlOK'
<1> USE LaunchRange DEF registryVars, managerVars, workerVars, controlVars,
                        localVars, history
<1>1. ASSUME NEW t \in Threads, NEW v \in Versions, Load(t, v)
      PROVE  TypeOK' /\ ControlOK'
  <2> USE <1>1 DEF Load
  <2>1. Control'
    BY BeginType DEF Operations, OtherSteps
  <2>2. ControlOK'
    BY DEF TypeOK, ControlOK, Begin, Goto
  <2>3. TypeOK'
    BY <2>1 DEF TypeOK, Control
  <2> QED BY <2>2, <2>3
<1>2. ASSUME NEW t \in Threads, EnterLoad(t)
      PROVE  TypeOK' /\ ControlOK'
  <2> USE <1>2 DEF EnterLoad
  <2>1. Control'
    BY ContinueType, LeaveLoadType DEF LoadSteps
  <2>2. ver[t] \in Versions
    BY DEF ControlOK
  <2>3. ControlOK'
    BY DEF TypeOK, ControlOK, LeaveLoad, Return, Continue, Goto
  <2>4. TypeOK'
    BY <2>1, <2>2 DEF TypeOK, Control
  <2> QED BY <2>3, <2>4
<1>3. ASSUME NEW t \in Threads, InspectDir(t)
      PROVE  TypeOK' /\ ControlOK'
  <2> USE <1>3 DEF InspectDir
  <2>1. Control'
    BY ContinueType DEF LoadSteps
  <2>2. ControlOK'
    BY DEF TypeOK, ControlOK, Continue, Goto
  <2>3. TypeOK'
    BY <2>1 DEF TypeOK, Control
  <2> QED BY <2>2, <2>3
<1>4. ASSUME NEW t \in Threads, LoadEnsemble(t)
      PROVE  TypeOK' /\ ControlOK'
  <2> USE <1>4 DEF LoadEnsemble
  <2>1. Control'
    BY ContinueType, LeaveLoadType DEF LoadSteps
  <2>2. ControlOK'
    BY DEF TypeOK, ControlOK, LeaveLoad, Return, Continue, Goto
  <2>3. TypeOK'
    BY <2>1 DEF TypeOK, Control, Status, AfterActivation
  <2> QED BY <2>2, <2>3
<1>5. ASSUME NEW t \in Threads, Register(t)
      PROVE  TypeOK' /\ ControlOK'
  <2> USE <1>5 DEF Register
  <2>1. Control'
    BY ContinueType DEF LoadSteps
  <2>2. ControlOK'
    BY DEF TypeOK, ControlOK, Continue, Goto
  <2>3. TypeOK'
    BY <2>1 DEF TypeOK, Control, Status
  <2> QED BY <2>2, <2>3
<1>6. ASSUME NEW t \in Threads, BuildApi(t)
      PROVE  TypeOK' /\ ControlOK'
  <2> USE <1>6 DEF BuildApi
  <2>1. Control'
    BY ContinueType DEF LoadSteps
  <2>2. launched' \in 0 .. MaxLaunches /\ (launched' # launched => launched' \in Launches)
    BY LaunchAssumption DEF TypeOK, Launches
  <2>3. ControlOK'
    BY <2>2 DEF TypeOK, ControlOK, Continue, Goto, Launches
  <2>4. TypeOK'
    BY <2>1, <2>2 DEF TypeOK, Control
  <2> QED BY <2>3, <2>4
<1>7. ASSUME NEW t \in Threads, LaunchWorkers(t)
      PROVE  TypeOK' /\ ControlOK'
  <2> USE <1>7 DEF LaunchWorkers
  <2>1. Control'
    BY ContinueType DEF LoadSteps
  <2>2. mine[t] \in Launches
    BY DEF ControlOK
  <2>3. ControlOK'
    BY DEF TypeOK, ControlOK, Continue, Goto
  <2>4. proc' \in [Launches -> {"none", "starting", "up", "dead"}]
    BY DEF TypeOK
  <2>5. TypeOK'
    BY <2>1, <2>2, <2>4 DEF TypeOK, Control
  <2> QED BY <2>3, <2>5
<1>8. ASSUME NEW t \in Threads, PublishWorkers(t)
      PROVE  TypeOK' /\ ControlOK'
  <2> USE <1>8 DEF PublishWorkers
  <2>1. Control'
    BY ContinueType, LeaveLoadType DEF LoadSteps
  <2>2. mine[t] \in Launches /\ ver[t] \in Versions
    BY DEF ControlOK
  <2>3. ControlOK'
    BY DEF TypeOK, ControlOK, LeaveLoad, Return, Continue, Goto
  <2>4. /\ pool' \in [Versions -> SUBSET Launches]
        /\ mine' \in [Threads -> 0 .. MaxLaunches]
        /\ held' \subseteq Versions
    <3>1. CASE UNCHANGED <<held, pool>> /\ mine' = [mine EXCEPT ![t] = NoLaunch]
      BY <3>1 DEF TypeOK
    <3>2. CASE /\ held' = held \cup {ver[t]}
               /\ pool' = [pool EXCEPT ![ver[t]] = {mine[t]}]
               /\ UNCHANGED <<proc, mine>>
      <4> HIDE DEF PublishWorkers
      <4>1. {mine[t]} \in SUBSET Launches
        BY <2>2
      <4> QED BY <2>2, <3>2, <4>1 DEF TypeOK
    <3> QED BY <3>1, <3>2
  <2>5. proc' \in [Launches -> {"none", "starting", "up", "dead"}]
    BY DEF TypeOK
  <2> HIDE DEF PublishWorkers
  <2>6. TypeOK'
    BY <2>1, <2>4, <2>5 DEF TypeOK, Control, PublishWorkers
  <2> QED BY <2>3, <2>6
<1>9. ASSUME NEW t \in Threads, CaptureStatus(t)
      PROVE  TypeOK' /\ ControlOK'
  <2> USE <1>9 DEF CaptureStatus
  <2>1. Control'
    BY ContinueType DEF LoadSteps
  <2>2. ver[t] \in Versions
    BY DEF ControlOK
  <2>3. ControlOK'
    BY DEF TypeOK, ControlOK, Continue, Goto
  <2>4. TypeOK'
    BY <2>1, <2>2 DEF TypeOK, Control
  <2> QED BY <2>3, <2>4
<1>10. ASSUME NEW t \in Threads, WorkersReady(t)
       PROVE  TypeOK' /\ ControlOK'
  <2> USE <1>10 DEF WorkersReady
  <2>1. Control'
    BY ContinueType DEF LoadSteps
  <2>2. ControlOK'
    BY DEF TypeOK, ControlOK, Continue, Goto
  <2>3. TypeOK'
    BY <2>1 DEF TypeOK, Control
  <2> QED BY <2>2, <2>3
<1>11. ASSUME NEW t \in Threads, WaitRaises(t)
       PROVE  TypeOK' /\ ControlOK'
  <2> USE <1>11 DEF WaitRaises
  <2>1. Control'
    BY ContinueType DEF LoadSteps
  <2>2. ControlOK'
    BY DEF TypeOK, ControlOK, Continue, Goto
  <2>3. TypeOK'
    BY <2>1 DEF TypeOK, Control
  <2> QED BY <2>2, <2>3
<1>12. ASSUME NEW t \in Threads, FinishLoad(t)
       PROVE  TypeOK' /\ ControlOK'
  <2> USE <1>12 DEF FinishLoad
  <2>1. Control'
    BY ContinueType DEF LoadSteps
  <2>2. ControlOK'
    BY DEF TypeOK, ControlOK, Continue, Goto
  <2>3. TypeOK'
    BY <2>1 DEF TypeOK, Control, Status, AfterActivation
  <2> QED BY <2>2, <2>3
<1>13. ASSUME NEW t \in Threads, EnforceMaxVersions(t)
       PROVE  TypeOK' /\ ControlOK'
  <2> USE <1>13 DEF EnforceMaxVersions
  <2>1. Control'
    BY LeaveLoadType
  <2>2. Evicted \in SUBSET Versions
    BY DEF Evicted, Ready
  <2>3. ControlOK'
    BY DEF TypeOK, ControlOK, LeaveLoad, Return, Continue, Goto
  <2>4. proc' \in [Launches -> {"none", "starting", "up", "dead"}]
    BY DEF TypeOK
  <2> HIDE DEF EnforceMaxVersions
  <2>5. TypeOK'
    BY <2>1, <2>2, <2>4, UnloadSectionType DEF TypeOK, Control, EnforceMaxVersions
  <2> QED BY <2>3, <2>5
<1>14. ASSUME NEW t \in Threads, FailLoad(t)
       PROVE  TypeOK' /\ ControlOK'
  <2> USE <1>14 DEF FailLoad
  <2>1. Control'
    BY ContinueType DEF LoadSteps
  <2>2. ControlOK'
    BY DEF TypeOK, ControlOK, Continue, Goto
  <2>3. TypeOK'
    BY <2>1 DEF TypeOK, Control, Status
  <2> QED BY <2>2, <2>3
<1>15. ASSUME NEW t \in Threads, DropPlaceholder(t)
       PROVE  TypeOK' /\ ControlOK'
  <2> USE <1>15 DEF DropPlaceholder
  <2>1. Control'
    BY LeaveLoadType DEF LoadSteps
  <2>2. ControlOK'
    BY DEF TypeOK, ControlOK, LeaveLoad, Return, Continue, Goto
  <2>3. TypeOK'
    BY <2>1 DEF TypeOK, Control
  <2> QED BY <2>2, <2>3
<1>16. ASSUME NEW t \in Threads, NEW v \in Versions, Unload(t, v)
       PROVE  TypeOK' /\ ControlOK'
  <2> USE <1>16 DEF Unload
  <2>1. Control'
    BY BeginType DEF Operations, OtherSteps
  <2>2. ControlOK'
    BY DEF TypeOK, ControlOK, Begin, Goto
  <2>3. TypeOK'
    BY <2>1 DEF TypeOK, Control
  <2> QED BY <2>2, <2>3
<1>17. ASSUME NEW t \in Threads, UnloadAll(t)
       PROVE  TypeOK' /\ ControlOK'
  <2> USE <1>17 DEF UnloadAll
  <2>1. Control'
    BY BeginType DEF Operations, OtherSteps
  <2>2. ControlOK'
    BY DEF TypeOK, ControlOK, Begin, Goto
  <2>3. TypeOK'
    BY <2>1 DEF TypeOK, Control
  <2> QED BY <2>2, <2>3
<1>18. ASSUME NEW t \in Threads, UnloadNext(t)
       PROVE  TypeOK' /\ ControlOK'
  <2> USE <1>18 DEF UnloadNext
  <2>1. PICK v \in todo[t] :
          /\ todo' = [todo EXCEPT ![t] = @ \ {v}]
          /\ \/ UnloadVersion(t, v)
             \/ /\ ~Loaded(v)
                /\ Continue(t, "next")
                /\ UNCHANGED <<registryVars, managerVars, report, stop, raced>>
    OBVIOUS
  <2>2. v \in Versions
    BY DEF TypeOK
  <2>3. CASE UnloadVersion(t, v)
    BY <2>1, <2>2, <2>3, UnloadVersionType DEF TypeOK, ControlOK, Control,
         UnloadVersion, Continue, Goto
  <2>4. CASE UNCHANGED <<registryVars, managerVars, report, stop, raced>> /\ Continue(t, "next")
    <3>1. Control'
      BY <2>4, ContinueType DEF OtherSteps
    <3> QED BY <2>1, <2>4, <3>1 DEF TypeOK, ControlOK, Control, Continue, Goto
  <2> QED BY <2>1, <2>3, <2>4
<1>19. ASSUME NEW t \in Threads, UnloadAllDone(t)
       PROVE  TypeOK' /\ ControlOK'
  <2> USE <1>19 DEF UnloadAllDone
  <2>1. Control'
    BY ReturnType
  <2>2. ControlOK'
    BY DEF TypeOK, ControlOK, Return, Goto
  <2>3. TypeOK'
    BY <2>1 DEF TypeOK, Control
  <2> QED BY <2>2, <2>3
<1>20. ASSUME NEW t \in Threads, NEW v \in Versions, Reload(t, v)
       PROVE  TypeOK' /\ ControlOK'
  <2> USE <1>20 DEF Reload
  <2>1. Control'
    BY BeginType DEF Operations, OtherSteps
  <2>2. ControlOK'
    BY DEF TypeOK, ControlOK, Begin, Goto
  <2>3. TypeOK'
    BY <2>1 DEF TypeOK, Control
  <2> QED BY <2>2, <2>3
<1>21. ASSUME NEW t \in Threads, NEW v \in Versions, Delete(t, v)
       PROVE  TypeOK' /\ ControlOK'
  <2> USE <1>21 DEF Delete
  <2>1. Control'
    BY BeginType DEF Operations, OtherSteps
  <2>2. ControlOK'
    BY DEF TypeOK, ControlOK, Begin, Goto
  <2>3. TypeOK'
    BY <2>1 DEF TypeOK, Control
  <2> QED BY <2>2, <2>3
<1>22. ASSUME NEW t \in Threads, UnloadOne(t)
       PROVE  TypeOK' /\ ControlOK'
  <2> USE <1>22 DEF UnloadOne
  <2>1. ver[t] \in Versions
    BY DEF ControlOK
  <2>2. CASE UnloadVersion(t, ver[t])
    BY <2>1, <2>2, UnloadVersionType DEF TypeOK, ControlOK, Control,
         UnloadVersion, Continue, Goto
  <2>3. CASE UNCHANGED <<registryVars, managerVars, report, stop, raced>> /\ Return(t)
    <3>1. Control'
      BY <2>3, ReturnType
    <3> QED BY <2>3, <3>1 DEF TypeOK, ControlOK, Control, Return, Goto
  <2> QED BY <2>2, <2>3
<1>23. ASSUME NEW t \in Threads, TerminateWorkers(t)
       PROVE  TypeOK' /\ ControlOK'
  <2> USE <1>23 DEF TerminateWorkers
  <2>1. \/ call[t] = "unload" /\ Return(t)
        \/ call[t] = "unload_all" /\ Continue(t, "next")
        \/ call[t] = "reload" /\ Continue(t, "enter")
        \/ call[t] = "delete" /\ Continue(t, "rmtree")
    BY DEF ControlOK
  <2> HIDE DEF TerminateWorkers
  <2>2. Control'
    BY <2>1, ContinueType, ReturnType DEF OtherSteps
  <2>3. ControlOK'
    BY <2>1 DEF TerminateWorkers, TypeOK, ControlOK, Return, Goto, Continue
  <2>4. TypeOK'
    BY <2>2 DEF TerminateWorkers, TypeOK, Control
  <2> QED BY <2>3, <2>4
<1>24. ASSUME NEW t \in Threads, RemoveDir(t)
       PROVE  TypeOK' /\ ControlOK'
  <2> USE <1>24 DEF RemoveDir
  <2>1. Control'
    BY ReturnType
  <2>2. ControlOK'
    BY DEF TypeOK, ControlOK, Return, Goto
  <2>3. TypeOK'
    BY <2>1 DEF TypeOK, Control
  <2> QED BY <2>2, <2>3
<1>25. ASSUME NEW t \in Threads, NEW v \in Versions, Activate(t, v)
       PROVE  TypeOK' /\ ControlOK'
  <2> USE <1>25 DEF Activate
  <2>1. Control'
    BY UnchangedType
  <2>2. ControlOK'
    BY DEF TypeOK, ControlOK
  <2>3. TypeOK'
    BY <2>1 DEF TypeOK, Control
  <2> QED BY <2>2, <2>3
<1>26. ASSUME NEW t \in Threads, NEW v \in Versions, ActivateUnlocked(t, v)
       PROVE  TypeOK' /\ ControlOK'
  <2> USE <1>26 DEF ActivateUnlocked
  <2>1. Control'
    BY BeginType DEF Operations, OtherSteps
  <2>2. ControlOK'
    BY DEF TypeOK, ControlOK, Begin, Goto
  <2>3. TypeOK'
    BY <2>1 DEF TypeOK, Control
  <2> QED BY <2>2, <2>3
<1>27. ASSUME NEW t \in Threads, CheckReady(t)
       PROVE  TypeOK' /\ ControlOK'
  <2> USE <1>27 DEF CheckReady
  <2>1. Control'
    BY ContinueType, ReturnType DEF OtherSteps
  <2>2. ControlOK'
    BY DEF TypeOK, ControlOK, Return, Goto, Continue
  <2>3. TypeOK'
    BY <2>1 DEF TypeOK, Control
  <2> QED BY <2>2, <2>3
<1>28. ASSUME NEW t \in Threads, SetActive(t)
       PROVE  TypeOK' /\ ControlOK'
  <2> USE <1>28 DEF SetActive
  <2>1. Control'
    BY ReturnType
  <2>2. ControlOK'
    BY DEF TypeOK, ControlOK, Return, Goto
  <2>3. TypeOK'
    BY <2>1 DEF TypeOK, Control
  <2> QED BY <2>2, <2>3
<1>29. ASSUME NEW b \in Launches, WorkerReady(b)
       PROVE  TypeOK' /\ ControlOK'
  <2> USE <1>29 DEF WorkerReady
  <2>1. Control'
    BY UnchangedType
  <2>2. ControlOK'
    BY DEF TypeOK, ControlOK
  <2>3. TypeOK'
    BY <2>1 DEF TypeOK, Control
  <2> QED BY <2>2, <2>3
<1>30. ASSUME NEW b \in Launches, WorkerDies(b)
       PROVE  TypeOK' /\ ControlOK'
  <2> USE <1>30 DEF WorkerDies
  <2>1. Control'
    BY UnchangedType
  <2>2. ControlOK'
    BY DEF TypeOK, ControlOK
  <2>3. TypeOK'
    BY <2>1 DEF TypeOK, Control
  <2> QED BY <2>2, <2>3
<1>31. ASSUME NEW v \in Versions, AddDir(v)
       PROVE  TypeOK' /\ ControlOK'
  <2> USE <1>31 DEF AddDir
  <2>1. Control'
    BY UnchangedType
  <2>2. ControlOK'
    BY DEF TypeOK, ControlOK
  <2>3. TypeOK'
    BY <2>1 DEF TypeOK, Control
  <2> QED BY <2>2, <2>3
<1>32. ASSUME UNCHANGED vars
      PROVE  TypeOK' /\ ControlOK'
  BY <1>32 DEF vars, TypeOK, ControlOK
<1> QED
  BY <1>1, <1>2, <1>3, <1>4, <1>5, <1>6, <1>7, <1>8, <1>9, <1>10, <1>11, <1>12, <1>13, <1>14, <1>15, <1>16, <1>17, <1>18, <1>19, <1>20, <1>21, <1>22, <1>23, <1>24, <1>25, <1>26, <1>27, <1>28, <1>29, <1>30, <1>31, <1>32 DEF Next, Call, Step, Environment

-----------------------------------------------------------------------------
(* Who holds the worker processes                                          *)

LEMMA InitOwnership == Init => Ownership
BY LaunchAssumption DEF Init, Ownership, StopOK, OwnLaunch, OneOwner, NoOrphanWorkers,
   Published, Alive, NoLaunch, Launches

\* A step that publishes, withdraws and starts nothing, and lets nobody forget
\* what he holds, keeps the ownership of the processes.
LEMMA OwnershipFrame ==
    ASSUME TypeOK, Ownership, UNCHANGED <<pool, stop, launched, lost>>,
           \A b \in Launches : Alive(b)' => Alive(b),
           \A t \in Threads :
              /\ mine'[t] \in {mine[t], NoLaunch}
              /\ pc'[t] \in {"launch", "publish"} => pc'[t] = pc[t] /\ mine'[t] = mine[t]
              /\ pc[t] = "publish" => pc'[t] = "publish" /\ mine'[t] = mine[t]
              /\ stop[t] # {} /\ pc[t] = "terminate" => pc'[t] = "terminate"
    PROVE  Ownership'
<1>1. StopOK'
  BY DEF Ownership, StopOK
<1>2. OwnLaunch'
  <2>1. NoLaunch <= launched
    BY LaunchAssumption DEF NoLaunch, TypeOK
  <2> QED BY <2>1 DEF Ownership, OwnLaunch, Published
<1>3. OneOwner'
  BY DEF Ownership, OneOwner, Published
<1>4. NoOrphanWorkers'
  BY DEF Ownership, NoOrphanWorkers, Published
<1> QED BY <1>1, <1>2, <1>3, <1>4 DEF Ownership

\* _unload_version moves the processes of a version from the worker table to
\* the thread's own list.
LEMMA UnloadOwnership ==
    ASSUME TypeOK, Ownership, NEW t \in Threads, NEW v \in Versions,
           pc[t] \in {"unload", "next"}, UnloadVersion(t, v),
           UNCHANGED <<proc, launched, mine, lost>>
    PROVE  Ownership'
<1> DEFINE moved == IF IsEnsemble(v) THEN {} ELSE pool[v]
<1>1. /\ pool' = [w \in Versions |-> IF w = v /\ ~IsEnsemble(v) THEN {} ELSE pool[w]]
      /\ stop' = [stop EXCEPT ![t] = moved]
      /\ pc' = [pc EXCEPT ![t] = "terminate"]
  BY DEF UnloadVersion, UnloadSection, Dropped, Continue, Goto
<1>2. stop[t] = {}
  BY DEF Ownership, StopOK
<1>3. \A w \in Versions : pool'[w] \subseteq pool[w] /\ pool'[w] \cap moved = {}
  BY <1>1 DEF TypeOK, Ownership, OneOwner
<1>4. Published' \subseteq Published /\ moved \subseteq Published
      /\ Published' \cap moved = {}
  BY <1>1, <1>3 DEF Published, TypeOK
<1>5. Published \subseteq Published' \cup moved
  BY <1>1 DEF Published, TypeOK
<1>6. /\ stop'[t] = moved
      /\ \A u \in Threads : u # t => stop'[u] = stop[u]
      /\ pc'[t] = "terminate"
      /\ \A u \in Threads : u # t => pc'[u] = pc[u]
  BY <1>1 DEF TypeOK
<1> HIDE DEF moved
<1>7. StopOK'
  BY <1>6 DEF Ownership, StopOK
<1>8. OwnLaunch'
  <2>1. \A w \in Versions : \A b \in pool'[w] : b <= launched'
    BY <1>3 DEF Ownership, OwnLaunch
  <2>2. \A u \in Threads : \A b \in stop'[u] : b <= launched'
    BY <1>6, <1>4 DEF Ownership, OwnLaunch, Published
  <2>3. ASSUME NEW u \in Threads, pc'[u] \in {"launch", "publish"}
        PROVE  /\ mine'[u] \notin Published'
               /\ \A w \in Threads : mine'[u] \notin stop'[w]
               /\ \A w \in Threads : /\ pc'[w] \in {"launch", "publish"}
                                     /\ mine'[w] = mine'[u]
                                     => w = u
    <3>1. pc[u] \in {"launch", "publish"} /\ u # t
      BY <1>6, <2>3
    <3> QED BY <3>1, <1>6, <1>4 DEF Ownership, OwnLaunch
  <2> QED BY <2>1, <2>2, <2>3 DEF Ownership, OwnLaunch
<1>9. OneOwner'
  <2>1. \A w \in Versions : \A b, c \in pool'[w] : b = c
    BY <1>3 DEF Ownership, OneOwner
  <2>2. \A w, x \in Versions : w # x => pool'[w] \cap pool'[x] = {}
    BY <1>3 DEF Ownership, OneOwner
  <2>3. \A u \in Threads : stop'[u] \cap Published' = {}
    BY <1>4, <1>6 DEF Ownership, OneOwner
  <2> QED BY <2>1, <2>2, <2>3 DEF OneOwner
<1>10. NoOrphanWorkers'
  <2> SUFFICES ASSUME NEW b \in Launches, Alive(b)
               PROVE  \/ b \in lost
                      \/ b \in Published'
                      \/ \E u \in Threads : pc'[u] = "publish" /\ mine[u] = b
                      \/ \E u \in Threads : b \in stop'[u]
    BY DEF NoOrphanWorkers, Alive
  <2>1. CASE b \in Published
    BY <2>1, <1>5, <1>6
  <2>2. CASE \E u \in Threads : pc[u] = "publish" /\ mine[u] = b
    BY <2>2, <1>6
  <2>3. CASE \E u \in Threads : b \in stop[u]
    BY <2>3, <1>2, <1>6
  <2> QED BY <2>1, <2>2, <2>3 DEF Ownership, NoOrphanWorkers
<1> QED BY <1>7, <1>8, <1>9, <1>10 DEF Ownership

LEMMA StepOwnership ==
    ASSUME TypeOK, ControlOK, Ownership, [Next]_vars
    PROVE  Ownership'
<1> USE DEF registryVars, managerVars, workerVars, controlVars, localVars, history
<1>1. ASSUME NEW t \in Threads, NEW v \in Versions, Load(t, v)
      PROVE  Ownership'
  BY <1>1, OwnershipFrame DEF Load, Begin, Goto, TypeOK, Alive
<1>2. ASSUME NEW t \in Threads, EnterLoad(t)
      PROVE  Ownership'
  BY <1>2, OwnershipFrame DEF EnterLoad, LeaveLoad, Return, Continue, Goto, TypeOK, Alive
<1>3. ASSUME NEW t \in Threads, InspectDir(t)
      PROVE  Ownership'
  BY <1>3, OwnershipFrame DEF InspectDir, Continue, Goto, TypeOK, Alive
<1>4. ASSUME NEW t \in Threads, LoadEnsemble(t)
      PROVE  Ownership'
  BY <1>4, OwnershipFrame DEF LoadEnsemble, LeaveLoad, Return, Continue, Goto, TypeOK, Alive
<1>5. ASSUME NEW t \in Threads, Register(t)
      PROVE  Ownership'
  BY <1>5, OwnershipFrame DEF Register, Continue, Goto, TypeOK, Alive
<1>6. ASSUME NEW t \in Threads, BuildApi(t)
      PROVE  Ownership'
  <2> USE <1>6 DEF BuildApi, Continue, Goto
  <2>1. CASE UNCHANGED <<queues, mine, launched>> /\ pc' = [pc EXCEPT ![t] = "error"]
    BY <2>1, OwnershipFrame DEF TypeOK, Alive
  <2>2. CASE /\ launched < MaxLaunches
             /\ launched' = launched + 1
             /\ mine' = [mine EXCEPT ![t] = launched']
             /\ pc' = [pc EXCEPT ![t] = "launch"]
    <3>1. /\ \A b \in Launches : b <= launched => b # launched'
          /\ \A i \in 0 .. MaxLaunches : i <= launched => i <= launched' /\ i # launched'
      BY <2>2, LaunchAssumption DEF Launches, TypeOK
    <3>2. /\ mine'[t] = launched' /\ pc'[t] = "launch"
          /\ \A u \in Threads : u # t => mine'[u] = mine[u] /\ pc'[u] = pc[u]
      BY <2>2 DEF TypeOK
    <3>3. StopOK'
      BY <3>2 DEF Ownership, StopOK
    <3>4. OneOwner'
      BY DEF Ownership, OneOwner, Published
    <3>5. NoOrphanWorkers'
      BY <3>2 DEF Ownership, NoOrphanWorkers, Published, Alive
    <3>6. /\ \A v \in Versions : \A b \in pool[v] : b <= launched' /\ b # launched'
          /\ \A u \in Threads : \A b \in stop[u] : b <= launched' /\ b # launched'
          /\ \A u \in Threads : mine[u] <= launched' /\ mine[u] # launched'
      BY <3>1, LaunchRange DEF Ownership, OwnLaunch, TypeOK
    <3>7. launched' <= launched'
      BY <2>2, LaunchAssumption DEF TypeOK
    <3>8. OwnLaunch'
      BY <3>2, <3>6, <3>7 DEF Ownership, OwnLaunch, Published
    <3> QED BY <3>3, <3>4, <3>5, <3>8 DEF Ownership
  <2> QED BY <2>1, <2>2
<1>7. ASSUME NEW t \in Threads, LaunchWorkers(t)
      PROVE  Ownership'
  <2> USE <1>7 DEF LaunchWorkers, Continue, Goto
  <2>1. \/ pc' = [pc EXCEPT ![t] = "publish"] /\ lost' = lost
        \/ pc' = [pc EXCEPT ![t] = "error"] /\ lost' = lost \cup {mine[t]}
    OBVIOUS
  <2>2. \A b \in Launches : b # mine[t] => Alive(b)' = Alive(b)
    BY DEF TypeOK, Alive
  <2>3. StopOK'
    BY <2>1 DEF TypeOK, Ownership, StopOK
  <2>4. OneOwner'
    BY DEF Ownership, OneOwner, Published
  <2>5. OwnLaunch'
    BY <2>1 DEF TypeOK, Ownership, OwnLaunch, Published
  <2>6. NoOrphanWorkers'
    <3> SUFFICES ASSUME NEW b \in Launches, Alive(b)'
                 PROVE  \/ b \in lost' \/ b \in Published
                        \/ \E u \in Threads : pc'[u] = "publish" /\ mine[u] = b
                        \/ \E u \in Threads : b \in stop[u]
      BY DEF NoOrphanWorkers, Published
    <3>1. CASE b = mine[t]
      BY <3>1, <2>1 DEF TypeOK
    <3>2. CASE b # mine[t]
      BY <3>2, <2>1, <2>2 DEF TypeOK, Ownership, NoOrphanWorkers
    <3> QED BY <3>1, <3>2
  <2> QED BY <2>3, <2>4, <2>5, <2>6 DEF Ownership
<1>8. ASSUME NEW t \in Threads, PublishWorkers(t)
      PROVE  Ownership'
  <2> USE <1>8 DEF PublishWorkers
  <2>0. mine[t] \in Launches /\ ver[t] \in Versions /\ pc[t] = "publish"
    BY DEF ControlOK
  <2>1. CASE /\ proc' = [proc EXCEPT ![mine[t]] = "dead"]
             /\ mine' = [mine EXCEPT ![t] = NoLaunch]
             /\ LeaveLoad(t, TRUE)
             /\ UNCHANGED <<held, pool>>
    <3>1. /\ \A u \in Threads : u # t => pc'[u] = pc[u] /\ mine'[u] = mine[u]
          /\ pc'[t] \in {"idle", "actCheck"} /\ mine'[t] = NoLaunch
      BY <2>1 DEF TypeOK, LeaveLoad, Return, Continue, Goto
    <3>2. \A b \in Launches : Alive(b)' => Alive(b) /\ b # mine[t]
      BY <2>1 DEF TypeOK, Alive
    <3>3. StopOK'
      BY <3>1, <2>0 DEF Ownership, StopOK
    <3>4. OneOwner'
      BY <2>1 DEF Ownership, OneOwner, Published
    <3>5. NoLaunch <= launched
      BY LaunchAssumption DEF NoLaunch, TypeOK
    <3>6. OwnLaunch'
      BY <2>1, <3>1, <3>5 DEF Ownership, OwnLaunch, Published
    <3>7. NoOrphanWorkers'
      BY <2>1, <3>1, <3>2 DEF Ownership, NoOrphanWorkers, Published
    <3> QED BY <3>3, <3>4, <3>6, <3>7 DEF Ownership
  <2>2. CASE /\ pool[ver[t]] = {}
             /\ pool' = [pool EXCEPT ![ver[t]] = {mine[t]}]
             /\ Continue(t, "capture")
             /\ UNCHANGED <<proc, mine>>
    <3>1. /\ \A u \in Threads : u # t => pc'[u] = pc[u]
          /\ pc'[t] = "capture"
      BY <2>2 DEF TypeOK, Continue, Goto
    <3>2. /\ pool'[ver[t]] = {mine[t]}
          /\ \A v \in Versions : v # ver[t] => pool'[v] = pool[v]
      BY <2>0, <2>2 DEF TypeOK
    <3>3. Published' = Published \cup {mine[t]}
      BY <3>2, <2>2, <2>0 DEF Published
    <3>4. mine[t] \notin Published /\ \A u \in Threads : mine[t] \notin stop[u]
      BY <2>0 DEF Ownership, OwnLaunch
    <3>5. StopOK'
      BY <3>1, <2>0 DEF Ownership, StopOK
    <3>6. OneOwner'
      <4>1. \A v \in Versions : v # ver[t] => mine[t] \notin pool[v]
        BY <3>4 DEF Published
      <4>2. \A v \in Versions : \A b, c \in pool'[v] : b = c
        BY <3>2 DEF Ownership, OneOwner
      <4>3. \A v, w \in Versions : v # w => pool'[v] \cap pool'[w] = {}
        BY <3>2, <4>1 DEF Ownership, OneOwner
      <4>4. \A u \in Threads : stop'[u] \cap Published' = {}
        BY <3>3, <3>4 DEF Ownership, OneOwner
      <4> QED BY <4>2, <4>3, <4>4 DEF OneOwner
    <3>7. OwnLaunch'
      <4>1. \A v \in Versions : \A b \in pool'[v] : b <= launched
        BY <3>2 DEF Ownership, OwnLaunch
      <4>2. ASSUME NEW u \in Threads, pc'[u] \in {"launch", "publish"}
            PROVE  /\ mine[u] \notin Published'
                   /\ \A w \in Threads : mine[u] \notin stop[w]
                   /\ \A w \in Threads : /\ pc'[w] \in {"launch", "publish"}
                                         /\ mine[w] = mine[u]
                                         => w = u
        BY <4>2, <3>1, <3>3, <2>0 DEF Ownership, OwnLaunch
      <4> QED BY <4>1, <4>2, <2>2 DEF Ownership, OwnLaunch
    <3>8. NoOrphanWorkers'
      BY <2>2, <3>1, <3>3 DEF Ownership, NoOrphanWorkers, Alive
    <3> QED BY <3>5, <3>6, <3>7, <3>8 DEF Ownership
  <2> QED BY <2>1, <2>2
<1>9. ASSUME NEW t \in Threads, CaptureStatus(t)
      PROVE  Ownership'
  BY <1>9, OwnershipFrame DEF CaptureStatus, Continue, Goto, TypeOK, Alive
<1>10. ASSUME NEW t \in Threads, WorkersReady(t)
       PROVE  Ownership'
  BY <1>10, OwnershipFrame DEF WorkersReady, Continue, Goto, TypeOK, Alive
<1>11. ASSUME NEW t \in Threads, WaitRaises(t)
       PROVE  Ownership'
  BY <1>11, OwnershipFrame DEF WaitRaises, Continue, Goto, TypeOK, Alive
<1>12. ASSUME NEW t \in Threads, FinishLoad(t)
       PROVE  Ownership'
  BY <1>12, OwnershipFrame DEF FinishLoad, Continue, Goto, TypeOK, Alive
<1>13. ASSUME NEW t \in Threads, EnforceMaxVersions(t)
       PROVE  Ownership'
  <2> USE <1>13 DEF EnforceMaxVersions
  <2>1. /\ \A u \in Threads : u # t => pc'[u] = pc[u]
        /\ pc[t] = "evict" /\ pc'[t] \in {"idle", "actCheck"}
    BY DEF TypeOK, LeaveLoad, Return, Continue, Goto
  <2>2. \A v \in Versions : pool'[v] = IF v \in Dropped(Evicted) THEN {} ELSE pool[v]
    BY DEF UnloadSection
  <2>3. \A b \in Launches : Alive(b)' =>
            Alive(b) /\ \A v \in Versions : b \in pool[v] => v \notin Dropped(Evicted)
    BY DEF Alive
  <2>4. Published' \subseteq Published /\ \A b \in Launches :
            Alive(b)' /\ b \in Published => b \in Published'
    BY <2>2, <2>3 DEF Published
  <2>5. StopOK'
    BY <2>1 DEF Ownership, StopOK
  <2>6. OneOwner'
    BY <2>2, <2>4 DEF Ownership, OneOwner
  <2>7. OwnLaunch'
    BY <2>1, <2>2, <2>4 DEF Ownership, OwnLaunch
  <2>8. NoOrphanWorkers'
    BY <2>1, <2>3, <2>4 DEF Ownership, NoOrphanWorkers
  <2> QED BY <2>5, <2>6, <2>7, <2>8 DEF Ownership
<1>14. ASSUME NEW t \in Threads, FailLoad(t)
       PROVE  Ownership'
  BY <1>14, OwnershipFrame DEF FailLoad, Continue, Goto, TypeOK, Alive
<1>15. ASSUME NEW t \in Threads, DropPlaceholder(t)
       PROVE  Ownership'
  BY <1>15, OwnershipFrame DEF DropPlaceholder, LeaveLoad, Return, Continue, Goto, TypeOK, Alive
<1>16. ASSUME NEW t \in Threads, NEW v \in Versions, Unload(t, v)
       PROVE  Ownership'
  BY <1>16, OwnershipFrame DEF Unload, Begin, Goto, TypeOK, Alive
<1>17. ASSUME NEW t \in Threads, UnloadAll(t)
       PROVE  Ownership'
  BY <1>17, OwnershipFrame DEF UnloadAll, Begin, Goto, TypeOK, Alive
<1>18. ASSUME NEW t \in Threads, UnloadNext(t)
       PROVE  Ownership'
  <2>1. CASE \E v \in todo[t] : UnloadVersion(t, v)
    BY <1>18, <2>1, UnloadOwnership DEF UnloadNext, TypeOK
  <2>2. CASE UNCHANGED <<registryVars, managerVars, report, stop, raced>> /\ Continue(t, "next")
    BY <1>18, <2>2, OwnershipFrame DEF UnloadNext, Continue, Goto, TypeOK, Alive
  <2> QED BY <1>18, <2>1, <2>2 DEF UnloadNext
<1>19. ASSUME NEW t \in Threads, UnloadAllDone(t)
       PROVE  Ownership'
  BY <1>19, OwnershipFrame DEF UnloadAllDone, Return, Goto, TypeOK, Alive
<1>20. ASSUME NEW t \in Threads, NEW v \in Versions, Reload(t, v)
       PROVE  Ownership'
  BY <1>20, OwnershipFrame DEF Reload, Begin, Goto, TypeOK, Alive
<1>21. ASSUME NEW t \in Threads, NEW v \in Versions, Delete(t, v)
       PROVE  Ownership'
  BY <1>21, OwnershipFrame DEF Delete, Begin, Goto, TypeOK, Alive
<1>22. ASSUME NEW t \in Threads, UnloadOne(t)
       PROVE  Ownership'
  <2>1. CASE UnloadVersion(t, ver[t])
    BY <1>22, <2>1, UnloadOwnership DEF UnloadOne, ControlOK
  <2>2. CASE UNCHANGED <<registryVars, managerVars, report, stop, raced>> /\ Return(t)
    BY <1>22, <2>2, OwnershipFrame DEF UnloadOne, Return, Goto, TypeOK, Alive
  <2> QED BY <1>22, <2>1, <2>2 DEF UnloadOne
<1>23. ASSUME NEW t \in Threads, TerminateWorkers(t)
       PROVE  Ownership'
  <2>1. \E step \in {"idle", "next", "enter", "rmtree"} : pc' = [pc EXCEPT ![t] = step]
    BY <1>23 DEF TerminateWorkers, ControlOK, Return, Continue, Goto
  <2>2. /\ pc[t] = "terminate"
        /\ proc' = [b \in Launches |-> IF b \in stop[t] THEN "dead" ELSE proc[b]]
        /\ stop' = [stop EXCEPT ![t] = {}]
        /\ UNCHANGED <<pool, launched, mine, lost>>
    BY <1>23 DEF TerminateWorkers
  <2>3. /\ \A u \in Threads : u # t => pc'[u] = pc[u] /\ stop'[u] = stop[u]
        /\ pc'[t] \notin {"launch", "publish"} /\ stop'[t] = {}
    BY <2>1, <2>2 DEF TypeOK
  <2>4. \A b \in Launches : Alive(b)' => Alive(b) /\ b \notin stop[t]
    BY <2>2 DEF Alive
  <2>5. StopOK'
    BY <2>3 DEF Ownership, StopOK
  <2>6. OneOwner'
    BY <2>2, <2>3 DEF Ownership, OneOwner, Published
  <2>7. OwnLaunch'
    BY <2>2, <2>3 DEF Ownership, OwnLaunch, Published
  <2>8. NoOrphanWorkers'
    BY <2>2, <2>3, <2>4 DEF Ownership, NoOrphanWorkers, Published
  <2> QED BY <2>5, <2>6, <2>7, <2>8 DEF Ownership
<1>24. ASSUME NEW t \in Threads, RemoveDir(t)
       PROVE  Ownership'
  BY <1>24, OwnershipFrame DEF RemoveDir, Return, Goto, TypeOK, Alive
<1>25. ASSUME NEW t \in Threads, NEW v \in Versions, Activate(t, v)
       PROVE  Ownership'
  BY <1>25, OwnershipFrame DEF Activate, TypeOK, Alive
<1>26. ASSUME NEW t \in Threads, NEW v \in Versions, ActivateUnlocked(t, v)
       PROVE  Ownership'
  BY <1>26, OwnershipFrame DEF ActivateUnlocked, Begin, Goto, TypeOK, Alive
<1>27. ASSUME NEW t \in Threads, CheckReady(t)
       PROVE  Ownership'
  BY <1>27, OwnershipFrame DEF CheckReady, Return, Goto, Continue, TypeOK, Alive
<1>28. ASSUME NEW t \in Threads, SetActive(t)
       PROVE  Ownership'
  BY <1>28, OwnershipFrame DEF SetActive, Return, Goto, TypeOK, Alive
<1>29. ASSUME NEW b \in Launches, WorkerReady(b)
       PROVE  Ownership'
  BY <1>29, OwnershipFrame DEF WorkerReady, Alive, TypeOK
<1>30. ASSUME NEW b \in Launches, WorkerDies(b)
       PROVE  Ownership'
  BY <1>30, OwnershipFrame DEF WorkerDies, Alive, TypeOK
<1>31. ASSUME NEW v \in Versions, AddDir(v)
       PROVE  Ownership'
  BY <1>31, OwnershipFrame DEF AddDir, TypeOK, Alive
<1>32. ASSUME UNCHANGED vars
      PROVE  Ownership'
  BY <1>32, OwnershipFrame DEF vars, TypeOK, Alive
<1> QED
  BY <1>1, <1>2, <1>3, <1>4, <1>5, <1>6, <1>7, <1>8, <1>9, <1>10, <1>11, <1>12, <1>13, <1>14, <1>15, <1>16, <1>17, <1>18, <1>19, <1>20, <1>21, <1>22, <1>23, <1>24, <1>25, <1>26, <1>27, <1>28, <1>29, <1>30, <1>31, <1>32 DEF Next, Call, Step, Environment

-----------------------------------------------------------------------------
(* Loads exclude each other, and the active version is READY               *)

LEMMA InitRouting == Init => Routing
BY DEF Init, Routing, LoadsExclude, LoadOK, ActiveIsReady, Loading, LoadSteps

LEMMA RacedStays ==
    ASSUME [Next]_vars, raced
    PROVE  raced'
<1> USE DEF registryVars, managerVars, workerVars, controlVars, localVars, history
<1>1. ASSUME NEW t \in Threads, Call(t)
      PROVE  raced'
  BY <1>1 DEF Call, Load, Unload, UnloadAll, Reload, Delete, Activate, ActivateUnlocked
<1>2. ASSUME NEW t \in Threads, Step(t)
      PROVE  raced'
  BY <1>2 DEF Step, EnterLoad, InspectDir, LoadEnsemble, Register, BuildApi,
       LaunchWorkers, PublishWorkers, CaptureStatus, WorkersReady, WaitRaises,
       FinishLoad, EnforceMaxVersions, FailLoad, DropPlaceholder, UnloadNext,
       UnloadAllDone, UnloadOne, TerminateWorkers, RemoveDir, CheckReady,
       SetActive, UnloadVersion, UnloadSection
<1>3. ASSUME Environment PROVE raced'
  BY <1>3 DEF Environment, WorkerReady, WorkerDies, AddDir
<1>4. ASSUME UNCHANGED vars PROVE raced'
  BY <1>4 DEF vars
<1> QED BY <1>1, <1>2, <1>3, <1>4 DEF Next

\* A step that writes neither the registry nor the worker table, begins no
\* load, and activates only what is READY.
LEMMA RoutingFrame ==
    ASSUME TypeOK, Routing, ~raced, registry' = registry, held' = held,
           active' \in {active, NoVersion} \/ registry[active'] = "READY",
           \A t \in Threads :
              /\ pc'[t] \in LoadSteps => /\ pc[t] \in LoadSteps \ {"evict"}
                                          \/ pc'[t] = pc[t]
                                       /\ pc[t] \in LoadSteps
                                       /\ ver'[t] = ver[t]
              /\ pc'[t] = "actSet" => registry[ver'[t]] = "READY"
    PROVE  Routing'
<1>1. LoadsExclude'
  BY DEF Routing, LoadsExclude, Loading
<1>2. LoadOK'
  BY DEF Routing, LoadOK, Loading
<1>3. ActiveIsReady'
  BY DEF Routing, ActiveIsReady
<1> QED BY <1>1, <1>2, <1>3 DEF Routing

\* A critical section that unloads the versions of U, on none of which another
\* thread relies.
LEMMA UnloadRouting ==
    ASSUME TypeOK, ControlOK, Routing, ~raced, ~raced', NEW t \in Threads,
           NEW U \in SUBSET Versions, UnloadSection(t, U),
           \A u \in Threads : u # t => pc'[u] = pc[u] /\ ver'[u] = ver[u],
           pc'[t] \notin LoadSteps \cup {"actSet"}
    PROVE  Routing'
<1>1. \A u \in Threads : \A v \in U :
        u # t => ~Loading(u, v) /\ ~(pc[u] = "actSet" /\ ver[u] = v)
  BY DEF UnloadSection, Relying
<1>2. /\ \A v \in Versions : v \in U => registry'[v] = "absent"
      /\ \A v \in Versions : v \notin U => registry'[v] = registry[v]
      /\ \A v \in held : v \notin U => v \in held'
  BY DEF UnloadSection, Dropped
<1>3. \A u \in Threads : \A v \in Versions :
        Loading(u, v)' => u # t /\ Loading(u, v) /\ v \notin U /\ pc'[u] = pc[u]
  BY <1>1 DEF Loading
<1>4. LoadsExclude'
  BY <1>3 DEF Routing, LoadsExclude
<1>5. LoadOK'
  <2>1. \A u \in Threads : pc'[u] = "actSet" => registry'[ver'[u]] = "READY"
    <3> SUFFICES ASSUME NEW u \in Threads, pc'[u] = "actSet"
                 PROVE  registry'[ver'[u]] = "READY"
      OBVIOUS
    <3>1. u # t /\ pc[u] = "actSet" /\ ver'[u] = ver[u] /\ registry[ver[u]] = "READY"
      BY DEF Routing, LoadOK
    <3>2. ver[u] \in Versions
      BY <3>1 DEF ControlOK
    <3> QED BY <3>1, <3>2, <1>1, <1>2
  <2>2. \A u \in Threads : \A v \in Versions :
          Loading(u, v)' => v \in held' /\ (pc'[u] # "evict" => registry'[v] # "READY")
    BY <1>2, <1>3 DEF Routing, LoadOK
  <2>3. \A v \in Versions : registry'[v] = "READY" => v \in held'
    BY <1>2 DEF Routing, LoadOK
  <2> QED BY <2>1, <2>2, <2>3 DEF LoadOK
<1>6. ActiveIsReady'
  BY <1>2 DEF Routing, ActiveIsReady, UnloadSection, NextActive, Ready, TypeOK
<1> QED BY <1>4, <1>5, <1>6 DEF Routing

\* A thread that is loading writes the status of its version: READY only when
\* its load is over.
LEMMA StatusRouting ==
    ASSUME TypeOK, ControlOK, Routing, ~raced, NEW t \in Threads, ver[t] \in Versions,
           pc[t] \in LoadSteps \ {"evict"}, NEW s,
           registry' = [registry EXCEPT ![ver[t]] = s], held' = held,
           active' = active \/ (active' = ver[t] /\ s = "READY"),
           \A u \in Threads : u # t => pc'[u] = pc[u] /\ ver'[u] = ver[u],
           pc'[t] \in LoadSteps => ver'[t] = ver[t],
           s = "READY" => pc'[t] \notin LoadSteps \ {"evict"},
           pc'[t] # "actSet"
    PROVE  Routing'
<1>1. /\ registry'[ver[t]] = s
      /\ \A v \in Versions : v # ver[t] => registry'[v] = registry[v]
  BY DEF TypeOK
<1>2. /\ Loading(t, ver[t]) /\ registry[ver[t]] # "READY" /\ ver[t] \in held
      /\ \A u \in Threads : Loading(u, ver[t]) => u = t
  BY DEF Loading, Routing, LoadOK, LoadsExclude
<1>3. \A u \in Threads : \A v \in Versions :
        Loading(u, v)' => Loading(u, v) /\ (u # t => pc'[u] = pc[u] /\ v # ver[t])
                                      /\ (u = t => v = ver[t])
  BY <1>2 DEF Loading
<1>4. LoadsExclude'
  BY <1>3 DEF Routing, LoadsExclude
<1>5. LoadOK'
  <2>1. \A u \in Threads : pc'[u] = "actSet" => registry'[ver'[u]] = "READY"
    BY <1>1, <1>2 DEF Routing, LoadOK, ControlOK
  <2>2. ASSUME NEW u \in Threads, NEW v \in Versions, Loading(u, v)'
        PROVE  v \in held' /\ (pc'[u] # "evict" => registry'[v] # "READY")
    <3>1. CASE u = t
      BY <2>2, <3>1, <1>1, <1>2, <1>3 DEF Loading
    <3>2. CASE u # t
      BY <2>2, <3>2, <1>1, <1>3 DEF Routing, LoadOK
    <3> QED BY <3>1, <3>2
  <2>3. \A v \in Versions : registry'[v] = "READY" => v \in held'
    BY <1>1, <1>2 DEF Routing, LoadOK
  <2> QED BY <2>1, <2>2, <2>3 DEF LoadOK
<1>6. ActiveIsReady'
  BY <1>1, <1>2 DEF Routing, ActiveIsReady, TypeOK
<1> QED BY <1>4, <1>5, <1>6 DEF Routing

LEMMA StepRouting ==
    ASSUME TypeOK, ControlOK, Routing, [Next]_vars
    PROVE  Routing'
<1> SUFFICES ASSUME ~raced' PROVE Routing'
  BY DEF Routing, LoadsExclude, LoadOK, ActiveIsReady
<1>0. ~raced
  BY RacedStays
<1> USE <1>0 DEF registryVars, managerVars, workerVars, controlVars, localVars, history
<1>1. ASSUME NEW t \in Threads, NEW v \in Versions, Load(t, v)
      PROVE  Routing'
  <2>1. \A u \in Threads : pc'[u] = "actSet" => registry[ver'[u]] = "READY"
    BY <1>1 DEF Load, Begin, Goto, Routing, LoadOK, TypeOK
  <2> QED BY <1>1, <2>1, RoutingFrame DEF Load, Begin, Goto, TypeOK, LoadSteps
<1>2. ASSUME NEW t \in Threads, EnterLoad(t)
      PROVE  Routing'
  <2>0. ver[t] \in Versions /\ pc[t] = "enter"
    BY <1>2 DEF EnterLoad, ControlOK
  <2>1. CASE LeaveLoad(t, TRUE) /\ UNCHANGED held
    <3>1. \E step \in {"idle", "actCheck"} : pc' = [pc EXCEPT ![t] = step]
      BY <2>1 DEF LeaveLoad, Return, Continue, Goto
    <3>2. /\ registry' = registry /\ held' = held /\ active' = active
          /\ \A u \in Threads : u # t => ver'[u] = ver[u]
      BY <1>2, <2>1 DEF EnterLoad, LeaveLoad, Return, Continue, TypeOK
    <3>3. \A u \in Threads : pc'[u] = "actSet" => registry[ver'[u]] = "READY"
      BY <3>1, <3>2 DEF Routing, LoadOK, TypeOK
    <3> QED BY <3>1, <3>2, <3>3, RoutingFrame DEF TypeOK, LoadSteps
  <2>2. CASE /\ ver[t] \notin held
             /\ held' = held \cup {ver[t]}
             /\ Continue(t, "dir")
    <3>1. /\ pc'[t] = "dir" /\ ver' = ver
          /\ \A u \in Threads : u # t => pc'[u] = pc[u]
          /\ registry' = registry /\ active' = active
      BY <1>2, <2>2 DEF EnterLoad, Continue, Goto, TypeOK
    <3>2. /\ registry[ver[t]] # "READY"
          /\ \A u \in Threads : ~Loading(u, ver[t])
      BY <2>0, <2>2 DEF Routing, LoadOK
    <3>3. LoadsExclude'
      BY <3>1, <3>2 DEF Routing, LoadsExclude, Loading
    <3>4. LoadOK'
      BY <2>2, <3>1, <3>2 DEF Routing, LoadOK, Loading
    <3>5. ActiveIsReady'
      BY <3>1 DEF Routing, ActiveIsReady
    <3> QED BY <3>3, <3>4, <3>5 DEF Routing
  <2> QED BY <1>2, <2>1, <2>2 DEF EnterLoad
<1>3. ASSUME NEW t \in Threads, InspectDir(t)
      PROVE  Routing'
  <2>1. \A u \in Threads : pc'[u] = "actSet" => registry[ver'[u]] = "READY"
    BY <1>3 DEF InspectDir, Continue, Goto, Routing, LoadOK, TypeOK
  <2> QED BY <1>3, <2>1, RoutingFrame DEF InspectDir, Continue, Goto, TypeOK, LoadSteps
<1>4. ASSUME NEW t \in Threads, LoadEnsemble(t)
      PROVE  Routing'
  <2>1. ver[t] \in Versions
    BY <1>4 DEF LoadEnsemble, ControlOK, LoadSteps
  <2>2. CASE /\ registry' = [registry EXCEPT ![ver[t]] = "READY"]
             /\ active' = AfterActivation(ver[t], registry')
             /\ LeaveLoad(t, TRUE)
    <3>1. \E step \in {"idle", "actCheck"} : pc' = [pc EXCEPT ![t] = step]
      BY <2>2 DEF LeaveLoad, Return, Continue, Goto
    <3>2. /\ pc[t] = "ensemble" /\ held' = held
          /\ \A u \in Threads : u # t => ver'[u] = ver[u]
      BY <1>4, <2>2 DEF LoadEnsemble, LeaveLoad, Return, Continue, TypeOK
    <3>3. active' = active \/ active' = ver[t]
      BY <2>2 DEF AfterActivation
    <3> QED BY <2>1, <2>2, <3>1, <3>2, <3>3, StatusRouting DEF TypeOK, LoadSteps
  <2>3. CASE /\ registry' = [registry EXCEPT ![ver[t]] = "ERROR"]
             /\ Continue(t, "finally")
             /\ UNCHANGED <<active>>
    BY <1>4, <2>1, <2>3, StatusRouting DEF LoadEnsemble, Continue, Goto, TypeOK, LoadSteps
  <2> QED BY <1>4, <2>2, <2>3 DEF LoadEnsemble
<1>5. ASSUME NEW t \in Threads, Register(t)
      PROVE  Routing'
  <2>1. ver[t] \in Versions
    BY <1>5 DEF Register, ControlOK
  <2> QED BY <1>5, <2>1, StatusRouting DEF Register, Continue, Goto, TypeOK, LoadSteps
<1>6. ASSUME NEW t \in Threads, BuildApi(t)
      PROVE  Routing'
  <2>1. \A u \in Threads : pc'[u] = "actSet" => registry[ver'[u]] = "READY"
    BY <1>6 DEF BuildApi, Continue, Goto, Routing, LoadOK, TypeOK
  <2> QED BY <1>6, <2>1, RoutingFrame DEF BuildApi, Continue, Goto, TypeOK, LoadSteps
<1>7. ASSUME NEW t \in Threads, LaunchWorkers(t)
      PROVE  Routing'
  <2>1. \A u \in Threads : pc'[u] = "actSet" => registry[ver'[u]] = "READY"
    BY <1>7 DEF LaunchWorkers, Continue, Goto, Routing, LoadOK, TypeOK
  <2> QED BY <1>7, <2>1, RoutingFrame DEF LaunchWorkers, Continue, Goto, TypeOK, LoadSteps
<1>8. ASSUME NEW t \in Threads, PublishWorkers(t)
      PROVE  Routing'
  <2>1. ver[t] \in held
    BY <1>8 DEF PublishWorkers, ControlOK, Routing, LoadOK, Loading, LoadSteps
  <2>2. held' = held
    BY <1>8, <2>1 DEF PublishWorkers
  <2>3. \E step \in {"idle", "actCheck", "capture"} : pc' = [pc EXCEPT ![t] = step]
    BY <1>8 DEF PublishWorkers, LeaveLoad, Return, Continue, Goto
  <2>4. /\ pc[t] = "publish" /\ registry' = registry /\ active' = active
        /\ \A u \in Threads : u # t => ver'[u] = ver[u]
        /\ pc'[t] = "capture" => ver'[t] = ver[t]
    BY <1>8 DEF PublishWorkers, LeaveLoad, Return, Continue, Goto, TypeOK
  <2>5. \A u \in Threads : pc'[u] = "actSet" => registry[ver'[u]] = "READY"
    BY <2>3, <2>4 DEF Routing, LoadOK, TypeOK
  <2> QED BY <2>2, <2>3, <2>4, <2>5, RoutingFrame DEF TypeOK, LoadSteps
<1>9. ASSUME NEW t \in Threads, CaptureStatus(t)
      PROVE  Routing'
  <2>1. \A u \in Threads : pc'[u] = "actSet" => registry[ver'[u]] = "READY"
    BY <1>9 DEF CaptureStatus, Continue, Goto, Routing, LoadOK, TypeOK
  <2> QED BY <1>9, <2>1, RoutingFrame DEF CaptureStatus, Continue, Goto, TypeOK, LoadSteps
<1>10. ASSUME NEW t \in Threads, WorkersReady(t)
       PROVE  Routing'
  <2>1. \A u \in Threads : pc'[u] = "actSet" => registry[ver'[u]] = "READY"
    BY <1>10 DEF WorkersReady, Continue, Goto, Routing, LoadOK, TypeOK
  <2> QED BY <1>10, <2>1, RoutingFrame DEF WorkersReady, Continue, Goto, TypeOK, LoadSteps
<1>11. ASSUME NEW t \in Threads, WaitRaises(t)
       PROVE  Routing'
  <2>1. \A u \in Threads : pc'[u] = "actSet" => registry[ver'[u]] = "READY"
    BY <1>11 DEF WaitRaises, Continue, Goto, Routing, LoadOK, TypeOK
  <2> QED BY <1>11, <2>1, RoutingFrame DEF WaitRaises, Continue, Goto, TypeOK, LoadSteps
<1>12. ASSUME NEW t \in Threads, FinishLoad(t)
       PROVE  Routing'
  <2>1. ver[t] \in Versions
    BY <1>12 DEF FinishLoad, ControlOK
  <2>2. PICK s \in {"absent", "READY"} : registry' = [registry EXCEPT ![ver[t]] = s]
    BY <1>12, <2>1 DEF FinishLoad, TypeOK
  <2>3. active' = active \/ (active' = ver[t] /\ s = "READY")
    BY <1>12, <2>1, <2>2 DEF FinishLoad, AfterActivation, TypeOK
  <2>4. /\ pc[t] = "finish" /\ held' = held /\ ver' = ver
        /\ pc' = [pc EXCEPT ![t] = "evict"]
    BY <1>12 DEF FinishLoad, Continue, Goto
  <2>5. /\ pc'[t] = "evict" /\ pc[t] \in LoadSteps \ {"evict"}
        /\ \A u \in Threads : u # t => pc'[u] = pc[u]
    BY <2>4 DEF TypeOK, LoadSteps
  <2> QED BY <2>1, <2>2, <2>3, <2>4, <2>5, StatusRouting
<1>13. ASSUME NEW t \in Threads, EnforceMaxVersions(t)
       PROVE  Routing'
  <2>1. Evicted \in SUBSET Versions
    BY DEF Evicted, Ready
  <2>2. /\ \A u \in Threads : u # t => pc'[u] = pc[u] /\ ver'[u] = ver[u]
        /\ pc'[t] \notin LoadSteps \cup {"actSet"}
    BY <1>13 DEF EnforceMaxVersions, LeaveLoad, Return, Continue, Goto, TypeOK, LoadSteps
  <2> QED BY <1>13, <2>1, <2>2, UnloadRouting DEF EnforceMaxVersions
<1>14. ASSUME NEW t \in Threads, FailLoad(t)
       PROVE  Routing'
  <2>1. ver[t] \in Versions
    BY <1>14 DEF FailLoad, ControlOK
  <2>2. \E s \in {"absent", "ERROR"} : registry' = [registry EXCEPT ![ver[t]] = s]
    BY <1>14, <2>1 DEF FailLoad, TypeOK
  <2> QED BY <1>14, <2>1, <2>2, StatusRouting DEF FailLoad, Continue, Goto, TypeOK, LoadSteps
<1>15. ASSUME NEW t \in Threads, DropPlaceholder(t)
       PROVE  Routing'
  <2>1. /\ ver[t] \in Versions /\ pc[t] = "finally"
        /\ registry' = registry /\ active' = active
        /\ \A v \in held : v # ver[t] => v \in held'
    BY <1>15 DEF DropPlaceholder, ControlOK
  <2>2. /\ \A u \in Threads : u # t => pc'[u] = pc[u] /\ ver'[u] = ver[u]
        /\ pc'[t] = "idle"
    BY <1>15 DEF DropPlaceholder, LeaveLoad, Return, Goto, TypeOK
  <2>3. Loading(t, ver[t]) /\ registry[ver[t]] # "READY"
    BY <2>1 DEF Loading, LoadSteps, Routing, LoadOK
  <2>4. \A u \in Threads : \A v \in Versions :
          Loading(u, v)' => u # t /\ v # ver[t] /\ Loading(u, v) /\ pc'[u] = pc[u]
    BY <2>1, <2>2, <2>3 DEF Loading, LoadSteps, Routing, LoadsExclude
  <2>5. LoadsExclude'
    BY <2>4 DEF Routing, LoadsExclude
  <2>6. LoadOK'
    BY <2>1, <2>2, <2>3, <2>4 DEF Routing, LoadOK
  <2>7. ActiveIsReady'
    BY <2>1 DEF Routing, ActiveIsReady
  <2> QED BY <2>5, <2>6, <2>7 DEF Routing
<1>16. ASSUME NEW t \in Threads, NEW v \in Versions, Unload(t, v)
       PROVE  Routing'
  <2>1. \A u \in Threads : pc'[u] = "actSet" => registry[ver'[u]] = "READY"
    BY <1>16 DEF Unload, Begin, Goto, Routing, LoadOK, TypeOK
  <2> QED BY <1>16, <2>1, RoutingFrame DEF Unload, Begin, Goto, TypeOK, LoadSteps
<1>17. ASSUME NEW t \in Threads, UnloadAll(t)
       PROVE  Routing'
  <2>1. \A u \in Threads : pc'[u] = "actSet" => registry[ver'[u]] = "READY"
    BY <1>17 DEF UnloadAll, Begin, Goto, Routing, LoadOK, TypeOK
  <2> QED BY <1>17, <2>1, RoutingFrame DEF UnloadAll, Begin, Goto, TypeOK, LoadSteps
<1>18. ASSUME NEW t \in Threads, UnloadNext(t)
       PROVE  Routing'
  <2>1. CASE \E v \in todo[t] : UnloadVersion(t, v)
    <3>1. PICK v \in Versions : UnloadVersion(t, v)
      BY <2>1 DEF TypeOK
    <3>2. /\ \A u \in Threads : u # t => pc'[u] = pc[u] /\ ver'[u] = ver[u]
          /\ pc'[t] \notin LoadSteps \cup {"actSet"}
      BY <3>1 DEF UnloadVersion, Continue, Goto, TypeOK, LoadSteps
    <3> QED BY <3>1, <3>2, UnloadRouting DEF UnloadVersion
  <2>2. CASE UNCHANGED <<registryVars, managerVars, report, stop, raced>> /\ Continue(t, "next")
    <3>1. \A u \in Threads : pc'[u] = "actSet" => registry[ver'[u]] = "READY"
      BY <2>2 DEF Continue, Goto, Routing, LoadOK, TypeOK
    <3> QED BY <2>2, <3>1, RoutingFrame DEF Continue, Goto, TypeOK, LoadSteps
  <2> QED BY <1>18, <2>1, <2>2 DEF UnloadNext
<1>19. ASSUME NEW t \in Threads, UnloadAllDone(t)
       PROVE  Routing'
  <2>1. \A u \in Threads : pc'[u] = "actSet" => registry[ver'[u]] = "READY"
    BY <1>19 DEF UnloadAllDone, Return, Goto, Routing, LoadOK, TypeOK
  <2> QED BY <1>19, <2>1, RoutingFrame DEF UnloadAllDone, Return, Goto, TypeOK, LoadSteps
<1>20. ASSUME NEW t \in Threads, NEW v \in Versions, Reload(t, v)
       PROVE  Routing'
  <2>1. \A u \in Threads : pc'[u] = "actSet" => registry[ver'[u]] = "READY"
    BY <1>20 DEF Reload, Begin, Goto, Routing, LoadOK, TypeOK
  <2> QED BY <1>20, <2>1, RoutingFrame DEF Reload, Begin, Goto, TypeOK, LoadSteps
<1>21. ASSUME NEW t \in Threads, NEW v \in Versions, Delete(t, v)
       PROVE  Routing'
  <2>1. \A u \in Threads : pc'[u] = "actSet" => registry[ver'[u]] = "READY"
    BY <1>21 DEF Delete, Begin, Goto, Routing, LoadOK, TypeOK
  <2> QED BY <1>21, <2>1, RoutingFrame DEF Delete, Begin, Goto, TypeOK, LoadSteps
<1>22. ASSUME NEW t \in Threads, UnloadOne(t)
       PROVE  Routing'
  <2>1. CASE UnloadVersion(t, ver[t])
    <3>1. ver[t] \in Versions
      BY <1>22 DEF UnloadOne, ControlOK
    <3>2. /\ \A u \in Threads : u # t => pc'[u] = pc[u] /\ ver'[u] = ver[u]
          /\ pc'[t] \notin LoadSteps \cup {"actSet"}
      BY <2>1 DEF UnloadVersion, Continue, Goto, TypeOK, LoadSteps
    <3> QED BY <2>1, <3>1, <3>2, UnloadRouting DEF UnloadVersion
  <2>2. CASE UNCHANGED <<registryVars, managerVars, report, stop, raced>> /\ Return(t)
    <3>1. \A u \in Threads : pc'[u] = "actSet" => registry[ver'[u]] = "READY"
      BY <2>2 DEF Return, Goto, Routing, LoadOK, TypeOK
    <3> QED BY <2>2, <3>1, RoutingFrame DEF Return, Goto, TypeOK, LoadSteps
  <2> QED BY <1>22, <2>1, <2>2 DEF UnloadOne
<1>23. ASSUME NEW t \in Threads, TerminateWorkers(t)
       PROVE  Routing'
  <2>1. \E step \in {"idle", "next", "enter", "rmtree"} : pc' = [pc EXCEPT ![t] = step]
    BY <1>23 DEF TerminateWorkers, ControlOK, Return, Continue, Goto
  <2>2. /\ registry' = registry /\ held' = held /\ active' = active
        /\ \A u \in Threads : u # t => ver'[u] = ver[u]
    BY <1>23 DEF TerminateWorkers, ControlOK, Return, Continue, TypeOK
  <2>3. \A u \in Threads : pc'[u] = "actSet" => registry[ver'[u]] = "READY"
    BY <2>1, <2>2 DEF Routing, LoadOK, TypeOK
  <2> QED BY <2>1, <2>2, <2>3, RoutingFrame DEF TypeOK, LoadSteps
<1>24. ASSUME NEW t \in Threads, RemoveDir(t)
       PROVE  Routing'
  <2>1. \A u \in Threads : pc'[u] = "actSet" => registry[ver'[u]] = "READY"
    BY <1>24 DEF RemoveDir, Return, Goto, Routing, LoadOK, TypeOK
  <2> QED BY <1>24, <2>1, RoutingFrame DEF RemoveDir, Return, Goto, TypeOK, LoadSteps
<1>25. ASSUME NEW t \in Threads, NEW v \in Versions, Activate(t, v)
       PROVE  Routing'
  <2>1. \A u \in Threads : pc'[u] = "actSet" => registry[ver'[u]] = "READY"
    BY <1>25 DEF Activate, Routing, LoadOK
  <2> QED BY <1>25, <2>1, RoutingFrame DEF Activate, TypeOK
<1>26. ASSUME NEW t \in Threads, NEW v \in Versions, ActivateUnlocked(t, v)
       PROVE  Routing'
  <2>1. \A u \in Threads : pc'[u] = "actSet" => registry[ver'[u]] = "READY"
    BY <1>26 DEF ActivateUnlocked, Begin, Goto, Routing, LoadOK, TypeOK
  <2> QED BY <1>26, <2>1, RoutingFrame DEF ActivateUnlocked, Begin, Goto, TypeOK, LoadSteps
<1>27. ASSUME NEW t \in Threads, CheckReady(t)
       PROVE  Routing'
  <2>1. \A u \in Threads : pc'[u] = "actSet" => registry[ver'[u]] = "READY"
    BY <1>27 DEF CheckReady, Return, Goto, Continue, Routing, LoadOK, TypeOK
  <2> QED BY <1>27, <2>1, RoutingFrame DEF CheckReady, Return, Goto, Continue, TypeOK, LoadSteps
<1>28. ASSUME NEW t \in Threads, SetActive(t)
       PROVE  Routing'
  <2>1. registry[active'] = "READY"
    BY <1>28 DEF SetActive, Routing, LoadOK
  <2>2. \A u \in Threads : pc'[u] = "actSet" => registry[ver'[u]] = "READY"
    BY <1>28 DEF SetActive, Return, Goto, Routing, LoadOK, TypeOK
  <2> QED BY <1>28, <2>1, <2>2, RoutingFrame DEF SetActive, Return, Goto, TypeOK, LoadSteps
<1>29. ASSUME NEW b \in Launches, WorkerReady(b)
       PROVE  Routing'
  <2>1. \A u \in Threads : pc'[u] = "actSet" => registry[ver'[u]] = "READY"
    BY <1>29 DEF WorkerReady, Routing, LoadOK
  <2> QED BY <1>29, <2>1, RoutingFrame DEF WorkerReady, TypeOK
<1>30. ASSUME NEW b \in Launches, WorkerDies(b)
       PROVE  Routing'
  <2>1. \A u \in Threads : pc'[u] = "actSet" => registry[ver'[u]] = "READY"
    BY <1>30 DEF WorkerDies, Routing, LoadOK
  <2> QED BY <1>30, <2>1, RoutingFrame DEF WorkerDies, TypeOK
<1>31. ASSUME NEW v \in Versions, AddDir(v)
       PROVE  Routing'
  <2>1. \A u \in Threads : pc'[u] = "actSet" => registry[ver'[u]] = "READY"
    BY <1>31 DEF AddDir, Routing, LoadOK
  <2> QED BY <1>31, <2>1, RoutingFrame DEF AddDir, TypeOK
<1>32. ASSUME UNCHANGED vars
      PROVE  Routing'
  BY <1>32, RoutingFrame DEF vars, TypeOK, Routing, LoadOK
<1> QED
  BY <1>1, <1>2, <1>3, <1>4, <1>5, <1>6, <1>7, <1>8, <1>9, <1>10, <1>11, <1>12, <1>13, <1>14, <1>15, <1>16, <1>17, <1>18, <1>19, <1>20, <1>21, <1>22, <1>23, <1>24, <1>25, <1>26, <1>27, <1>28, <1>29, <1>30, <1>31, <1>32 DEF Next, Call, Step, Environment

-----------------------------------------------------------------------------
(* READY versions are served by the workers in the table                   *)

\* What registry, queues and worker table say of the version a thread loads.
StageOK(t) ==
    /\ pc[t] = "ensemble" => ver[t] \in Ensembles
    /\ pc[t] \in {"register", "build", "launch", "publish", "capture", "wait",
                  "finish", "evict", "error"} => ver[t] \notin Ensembles
    /\ pc[t] \in {"dir", "register", "build", "launch", "publish"} => pool[ver[t]] = {}
    /\ pc[t] \in {"dir", "register", "finally"} /\ ver[t] \notin Ensembles
          => registry[ver[t]] # "LOADING"
    /\ pc[t] \in {"build", "launch", "publish", "capture", "wait", "finish", "error"}
          => registry[ver[t]] = "LOADING"
    /\ pc[t] \in {"launch", "publish"} => queues[ver[t]] = mine[t]
    /\ pc[t] \in {"capture", "wait", "finish"} =>
          queues[ver[t]] # NoLaunch /\ pool[ver[t]] = {queues[ver[t]]}
    /\ pc[t] = "evict" => registry[ver[t]] = "READY"
    /\ pc[t] = "finally" /\ pool[ver[t]] # {} => registry[ver[t]] = "ERROR"

BeingLoaded(v) == \E t \in Threads : Loading(t, v)

\* What they say of a version at any time, and when nobody is loading it.
VersionOK(v) ==
    /\ pool[v] # {} => v \in held
    /\ v \notin Ensembles =>
        /\ registry[v] = "READY" => queues[v] # NoLaunch /\ pool[v] = {queues[v]}
        /\ ~BeingLoaded(v) =>
              /\ registry[v] # "LOADING"
              /\ v \in held => pool[v] # {} /\ registry[v] \in {"READY", "ERROR"}

Serving == ~raced => /\ \A t \in Threads : StageOK(t)
                     /\ \A v \in Versions : VersionOK(v)

LEMMA InitServing == Init => Serving
BY DEF Init, Serving, StageOK, VersionOK, LoadSteps

\* A step of t that touches only the versions of U, which no other thread is
\* loading, has to be looked at for t and for U only.
LEMMA ServingLocal ==
    ASSUME Serving, ~raced, NEW t \in Threads, NEW U \in SUBSET Versions, ControlOK,
           \A u \in Threads : u # t =>
              /\ pc'[u] = pc[u] /\ ver'[u] = ver[u] /\ mine'[u] = mine[u]
              /\ \A v \in U : ~Loading(u, v),
           \A v \in Versions : v \notin U =>
              /\ registry'[v] = registry[v] /\ queues'[v] = queues[v] /\ pool'[v] = pool[v]
              /\ v \in held' <=> v \in held
              /\ Loading(t, v)' <=> Loading(t, v),
           StageOK(t)', \A v \in U : VersionOK(v)'
    PROVE  Serving'
<1>1. ASSUME NEW u \in Threads, u # t
      PROVE  StageOK(u)'
  <2>1. CASE pc[u] \in LoadSteps
    <3>1. ver[u] \in Versions /\ ver[u] \notin U /\ StageOK(u)
      BY <1>1, <2>1 DEF ControlOK, LoadSteps, Loading, Serving
    <3> QED BY <1>1, <3>1 DEF StageOK
  <2>2. CASE pc[u] \notin LoadSteps
    BY <1>1, <2>2 DEF StageOK, LoadSteps
  <2> QED BY <2>1, <2>2
<1>2. ASSUME NEW v \in Versions, v \notin U
      PROVE  VersionOK(v)'
  <2>1. BeingLoaded(v)' <=> BeingLoaded(v)
    BY <1>2 DEF BeingLoaded, Loading
  <2> QED BY <1>2, <2>1 DEF VersionOK, Serving
<1> QED BY <1>1, <1>2 DEF Serving

\* A step that leaves the tables alone, and the loads where they are.
LEMMA ServingFrame ==
    ASSUME Serving, ~raced, UNCHANGED <<registry, queues, pool, held>>,
           \A u \in Threads :
              \/ pc'[u] = pc[u] /\ ver'[u] = ver[u] /\ mine'[u] = mine[u]
              \/ pc[u] \notin LoadSteps /\ pc'[u] \notin LoadSteps
    PROVE  Serving'
<1>1. ASSUME NEW u \in Threads
      PROVE  StageOK(u)'
  <2>1. CASE pc'[u] = pc[u] /\ ver'[u] = ver[u] /\ mine'[u] = mine[u]
    BY <2>1 DEF StageOK, Serving
  <2>2. CASE pc'[u] \notin LoadSteps
    BY <2>2 DEF StageOK, LoadSteps
  <2> QED BY <2>1, <2>2
<1>2. ASSUME NEW v \in Versions
      PROVE  VersionOK(v)'
  <2>1. BeingLoaded(v)' <=> BeingLoaded(v)
    BY DEF BeingLoaded, Loading
  <2> QED BY <2>1 DEF VersionOK, Serving
<1> QED BY <1>1, <1>2 DEF Serving

\* A critical section that unloads the versions of U, which no other thread is
\* loading; afterwards the thread loads nothing.
LEMMA UnloadServing ==
    ASSUME TypeOK, ControlOK, Serving, ~raced, ~raced', NEW t \in Threads,
           NEW U \in SUBSET Versions, UnloadSection(t, U), mine' = mine,
           \A u \in Threads : u # t => pc'[u] = pc[u] /\ ver'[u] = ver[u],
           \A v \in Versions : Loading(t, v) => pc[t] = "evict" /\ LoadsExclude,
           pc'[t] \notin LoadSteps
    PROVE  Serving'
<1> DEFINE W == U \cup {v \in Versions : Loading(t, v)}
<1>1. /\ \A v \in U : registry'[v] = "absent" /\ queues'[v] = NoLaunch
      /\ \A v \in Versions : v \notin U =>
            /\ registry'[v] = registry[v] /\ queues'[v] = queues[v] /\ pool'[v] = pool[v]
            /\ v \in held' <=> v \in held
      /\ \A v \in U : v \notin Ensembles => pool'[v] = {} /\ v \notin held'
      /\ \A v \in U : \/ pool'[v] = {} /\ v \notin held'
                      \/ pool'[v] = pool[v] /\ (v \in held' <=> v \in held)
  BY DEF UnloadSection, Dropped, IsEnsemble, TypeOK
<1>2. ASSUME NEW u \in Threads, NEW v \in U, u # t
      PROVE  ~Loading(u, v)
  <2>1. Relying(v) \ {t} = {}
    BY DEF UnloadSection
  <2> QED BY <1>2, <2>1 DEF Relying
<1>3. \A u \in Threads : u # t => \A v \in W : ~Loading(u, v)
  BY <1>2, ~raced DEF LoadsExclude
<1>4. StageOK(t)'
  BY DEF StageOK, LoadSteps
<1>5. ASSUME NEW v \in W
      PROVE  VersionOK(v)'
  <2>1. CASE v \in U
    BY <2>1, <1>1 DEF VersionOK, Serving
  <2>2. CASE v \notin U
    <3>1. /\ v \in Versions /\ pc[t] = "evict" /\ ver[t] = v /\ StageOK(t) /\ VersionOK(v)
      BY <1>5, <2>2 DEF Loading, Serving
    <3>2. registry[v] = "READY" /\ v \notin Ensembles
      BY <3>1 DEF StageOK
    <3> QED BY <3>1, <3>2, <2>2, <1>1 DEF VersionOK
  <2> QED BY <2>1, <2>2
<1>6. \A v \in Versions : ~Loading(t, v)'
  BY DEF Loading
<1>7. W \in SUBSET Versions
  OBVIOUS
<1> HIDE DEF W
<1> QED
  <2>1. \A v \in Versions : v \notin W => v \notin U /\ ~Loading(t, v)
    BY DEF W
  <2> QED BY <1>1, <1>3, <1>4, <1>5, <1>6, <1>7, <2>1, ServingLocal

LEMMA LaunchIsSome == NoLaunch \notin Launches
BY DEF NoLaunch, Launches

\* A step of a thread inside load touches the version it loads, and no other.
LEMMA LoadStepServing ==
    ASSUME TypeOK, ControlOK, LoadsExclude, Serving, ~raced, NEW t \in Threads,
           pc[t] \in LoadSteps, NEW v \in Versions, v = ver[t],
           \A w \in Versions : w # v =>
              /\ registry'[w] = registry[w] /\ queues'[w] = queues[w] /\ pool'[w] = pool[w]
              /\ w \in held' <=> w \in held,
           \A u \in Threads : u # t =>
              pc'[u] = pc[u] /\ ver'[u] = ver[u] /\ mine'[u] = mine[u],
           pc'[t] \in LoadSteps => ver'[t] = v,
           StageOK(t)', VersionOK(v)'
    PROVE  Serving'
<1>1. \A u \in Threads : u # t => ~Loading(u, v)
  BY DEF Loading, LoadsExclude
<1>2. \A w \in Versions : w # v => (Loading(t, w)' <=> Loading(t, w))
  BY DEF Loading
<1>3. {v} \in SUBSET Versions
  OBVIOUS
<1>4. \A u \in Threads : u # t => \A w \in {v} : ~Loading(u, w)
  BY <1>1
<1>5. \A w \in {v} : VersionOK(w)'
  OBVIOUS
<1>6. \A w \in Versions : w \notin {v} =>
              /\ registry'[w] = registry[w] /\ queues'[w] = queues[w] /\ pool'[w] = pool[w]
              /\ w \in held' <=> w \in held
              /\ Loading(t, w)' <=> Loading(t, w)
  BY <1>2
<1> QED BY <1>3, <1>4, <1>5, <1>6, ServingLocal

\* Where thread t stands in load, its version is in the worker table.
LEMMA LoaderKnows ==
    ASSUME ControlOK, Routing, Serving, ~raced, NEW t \in Threads, pc[t] \in LoadSteps
    PROVE  /\ ver[t] \in Versions /\ ver[t] \in held
           /\ StageOK(t) /\ VersionOK(ver[t])
BY DEF ControlOK, LoadSteps, Loading, Routing, LoadOK, Serving

LEMMA StepServing ==
    ASSUME TypeOK, ControlOK, Routing, Serving, [Next]_vars
    PROVE  Serving'
<1> SUFFICES ASSUME ~raced' PROVE Serving'
  BY DEF Serving
<1>0. ~raced /\ LoadsExclude
  BY RacedStays DEF Routing
<1> USE <1>0 DEF registryVars, managerVars, workerVars, controlVars, localVars, history
<1>1. ASSUME NEW t \in Threads, NEW v \in Versions, Load(t, v)
      PROVE  Serving'
  BY <1>1, ServingFrame DEF Load, Begin, Goto, TypeOK, LoadSteps
<1>2. ASSUME NEW t \in Threads, EnterLoad(t)
      PROVE  Serving'
  <2>1. CASE UNCHANGED held
    BY <1>2, <2>1, ServingFrame DEF EnterLoad, LeaveLoad, Return, Continue, Goto,
         TypeOK, LoadSteps
  <2>2. CASE /\ ver[t] \notin held
             /\ held' = held \cup {ver[t]}
             /\ Continue(t, "dir")
    <3>1. PICK v \in Versions : v = ver[t]
      BY <1>2 DEF EnterLoad, ControlOK
    <3>2. \A u \in Threads : ~Loading(u, v)
      BY <2>2, <3>1 DEF Routing, LoadOK
    <3>3. /\ registry' = registry /\ queues' = queues /\ pool' = pool /\ mine' = mine
          /\ \A u \in Threads : u # t => pc'[u] = pc[u]
          /\ ver' = ver /\ pc[t] = "enter" /\ pc'[t] = "dir"
      BY <1>2, <2>2 DEF EnterLoad, Continue, Goto, TypeOK
    <3>4. VersionOK(v) /\ ~BeingLoaded(v)
      BY <3>2 DEF Serving, BeingLoaded
    <3>5. \A w \in Versions : w # v => (Loading(t, w)' <=> Loading(t, w))
      BY <3>1, <3>3 DEF Loading, LoadSteps
    <3>6. StageOK(t)'
      BY <2>2, <3>1, <3>3, <3>4 DEF StageOK, VersionOK
    <3>7. VersionOK(v)'
      BY <2>2, <3>1, <3>3, <3>4 DEF VersionOK, BeingLoaded, Loading, LoadSteps, Routing, LoadOK
    <3>8. /\ {v} \in SUBSET Versions
          /\ \A u \in Threads : u # t => \A w \in {v} : ~Loading(u, w)
      BY <3>2
    <3>9. \A w \in {v} : VersionOK(w)'
      BY <3>7
    <3>10. \A w \in Versions : w \notin {v} =>
              /\ registry'[w] = registry[w] /\ queues'[w] = queues[w] /\ pool'[w] = pool[w]
              /\ w \in held' <=> w \in held
              /\ Loading(t, w)' <=> Loading(t, w)
      BY <2>2, <3>1, <3>3, <3>5
    <3> QED BY <3>3, <3>6, <3>8, <3>9, <3>10, ServingLocal
  <2> QED BY <1>2, <2>1, <2>2 DEF EnterLoad
<1>3. ASSUME NEW t \in Threads, InspectDir(t)
      PROVE  Serving'
  <2>1. pc[t] \in LoadSteps
    BY <1>3 DEF InspectDir, LoadSteps
  <2>2. PICK v \in Versions : v = ver[t]
    BY <2>1, LoaderKnows
  <2>3. StageOK(t) /\ VersionOK(v) /\ v \in held
    BY <2>1, <2>2, LoaderKnows
  <2>4. /\ \A u \in Threads : u # t =>
              pc'[u] = pc[u] /\ ver'[u] = ver[u] /\ mine'[u] = mine[u]
        /\ pc'[t] \in LoadSteps => ver'[t] = v
    BY <1>3, <2>2 DEF InspectDir, Continue, Goto, TypeOK, LoadSteps
  <2>5. \A w \in Versions : w # v =>
              /\ registry'[w] = registry[w] /\ queues'[w] = queues[w] /\ pool'[w] = pool[w]
              /\ w \in held' <=> w \in held
    BY <1>3, <2>2 DEF InspectDir, TypeOK
  <2>6. StageOK(t)'
    BY <1>3, <2>2, <2>3 DEF InspectDir, Continue, Goto, StageOK, VersionOK, TypeOK
  <2>7. VersionOK(v)'
    BY <1>3, <2>2, <2>3 DEF InspectDir, Continue, Goto, StageOK, VersionOK, BeingLoaded, Loading, LoadSteps, TypeOK
  <2> QED BY <2>1, <2>2, <2>4, <2>5, <2>6, <2>7, LoadStepServing
<1>4. ASSUME NEW t \in Threads, LoadEnsemble(t)
      PROVE  Serving'
  <2>1. pc[t] \in LoadSteps
    BY <1>4 DEF LoadEnsemble, LoadSteps
  <2>2. PICK v \in Versions : v = ver[t]
    BY <2>1, LoaderKnows
  <2>3. StageOK(t) /\ VersionOK(v) /\ v \in held
    BY <2>1, <2>2, LoaderKnows
  <2>4. /\ \A u \in Threads : u # t =>
              pc'[u] = pc[u] /\ ver'[u] = ver[u] /\ mine'[u] = mine[u]
        /\ pc'[t] \in LoadSteps => ver'[t] = v
    BY <1>4, <2>2 DEF LoadEnsemble, LeaveLoad, Return, Continue, Goto, TypeOK, LoadSteps
  <2>5. \A w \in Versions : w # v =>
              /\ registry'[w] = registry[w] /\ queues'[w] = queues[w] /\ pool'[w] = pool[w]
              /\ w \in held' <=> w \in held
    BY <1>4, <2>2 DEF LoadEnsemble, TypeOK
  <2>6. StageOK(t)'
    BY <1>4, <2>2, <2>3 DEF LoadEnsemble, LeaveLoad, Return, Continue, Goto, StageOK, VersionOK, TypeOK
  <2>7. VersionOK(v)'
    BY <1>4, <2>2, <2>3 DEF LoadEnsemble, LeaveLoad, Return, Continue, Goto, StageOK, VersionOK, BeingLoaded, Loading, LoadSteps, TypeOK
  <2> QED BY <2>1, <2>2, <2>4, <2>5, <2>6, <2>7, LoadStepServing
<1>5. ASSUME NEW t \in Threads, Register(t)
      PROVE  Serving'
  <2>1. pc[t] \in LoadSteps
    BY <1>5 DEF Register, LoadSteps
  <2>2. PICK v \in Versions : v = ver[t]
    BY <2>1, LoaderKnows
  <2>3. StageOK(t) /\ VersionOK(v) /\ v \in held
    BY <2>1, <2>2, LoaderKnows
  <2>4. /\ \A u \in Threads : u # t =>
              pc'[u] = pc[u] /\ ver'[u] = ver[u] /\ mine'[u] = mine[u]
        /\ pc'[t] \in LoadSteps => ver'[t] = v
    BY <1>5, <2>2 DEF Register, Continue, Goto, TypeOK, LoadSteps
  <2>5. \A w \in Versions : w # v =>
              /\ registry'[w] = registry[w] /\ queues'[w] = queues[w] /\ pool'[w] = pool[w]
              /\ w \in held' <=> w \in held
    BY <1>5, <2>2 DEF Register, TypeOK
  <2>6. StageOK(t)'
    BY <1>5, <2>2, <2>3 DEF Register, Continue, Goto, StageOK, VersionOK, TypeOK
  <2>7. VersionOK(v)'
    BY <1>5, <2>2, <2>3 DEF Register, Continue, Goto, StageOK, VersionOK, BeingLoaded, Loading, LoadSteps, TypeOK
  <2> QED BY <2>1, <2>2, <2>4, <2>5, <2>6, <2>7, LoadStepServing
<1>6. ASSUME NEW t \in Threads, BuildApi(t)
      PROVE  Serving'
  <2>1. pc[t] \in LoadSteps
    BY <1>6 DEF BuildApi, LoadSteps
  <2>2. PICK v \in Versions : v = ver[t]
    BY <2>1, LoaderKnows
  <2>3. StageOK(t) /\ VersionOK(v) /\ v \in held
    BY <2>1, <2>2, LoaderKnows
  <2>4. /\ \A u \in Threads : u # t =>
              pc'[u] = pc[u] /\ ver'[u] = ver[u] /\ mine'[u] = mine[u]
        /\ pc'[t] \in LoadSteps => ver'[t] = v
    BY <1>6, <2>2 DEF BuildApi, Continue, Goto, TypeOK, LoadSteps
  <2>5. \A w \in Versions : w # v =>
              /\ registry'[w] = registry[w] /\ queues'[w] = queues[w] /\ pool'[w] = pool[w]
              /\ w \in held' <=> w \in held
    BY <1>6, <2>2 DEF BuildApi, TypeOK
  <2>6. StageOK(t)'
    BY <1>6, <2>2, <2>3 DEF BuildApi, Continue, Goto, StageOK, VersionOK, TypeOK
  <2>7. VersionOK(v)'
    BY <1>6, <2>2, <2>3 DEF BuildApi, Continue, Goto, StageOK, VersionOK, BeingLoaded, Loading, LoadSteps, TypeOK
  <2> QED BY <2>1, <2>2, <2>4, <2>5, <2>6, <2>7, LoadStepServing
<1>7. ASSUME NEW t \in Threads, LaunchWorkers(t)
      PROVE  Serving'
  <2>1. pc[t] \in LoadSteps
    BY <1>7 DEF LaunchWorkers, LoadSteps
  <2>2. PICK v \in Versions : v = ver[t]
    BY <2>1, LoaderKnows
  <2>3. StageOK(t) /\ VersionOK(v) /\ v \in held
    BY <2>1, <2>2, LoaderKnows
  <2>4. /\ \A u \in Threads : u # t =>
              pc'[u] = pc[u] /\ ver'[u] = ver[u] /\ mine'[u] = mine[u]
        /\ pc'[t] \in LoadSteps => ver'[t] = v
    BY <1>7, <2>2 DEF LaunchWorkers, Continue, Goto, TypeOK, LoadSteps
  <2>5. \A w \in Versions : w # v =>
              /\ registry'[w] = registry[w] /\ queues'[w] = queues[w] /\ pool'[w] = pool[w]
              /\ w \in held' <=> w \in held
    BY <1>7, <2>2 DEF LaunchWorkers, TypeOK
  <2>6. StageOK(t)'
    BY <1>7, <2>2, <2>3 DEF LaunchWorkers, Continue, Goto, StageOK, VersionOK, TypeOK
  <2>7. VersionOK(v)'
    BY <1>7, <2>2, <2>3 DEF LaunchWorkers, Continue, Goto, StageOK, VersionOK, BeingLoaded, Loading, LoadSteps, TypeOK
  <2> QED BY <2>1, <2>2, <2>4, <2>5, <2>6, <2>7, LoadStepServing
<1>8. ASSUME NEW t \in Threads, PublishWorkers(t)
      PROVE  Serving'
  <2>1. pc[t] \in LoadSteps
    BY <1>8 DEF PublishWorkers, LoadSteps
  <2>2. PICK v \in Versions : v = ver[t]
    BY <2>1, LoaderKnows
  <2>3. StageOK(t) /\ VersionOK(v) /\ v \in held
    BY <2>1, <2>2, LoaderKnows
  <2>4. /\ pc[t] = "publish" /\ pool[v] = {} /\ queues[v] = mine[t]
        /\ registry[v] = "LOADING" /\ v \notin Ensembles
    BY <1>8, <2>2, <2>3 DEF PublishWorkers, StageOK
  <2>5. /\ pool' = [pool EXCEPT ![v] = {mine[t]}] /\ held' = held
        /\ pc' = [pc EXCEPT ![t] = "capture"]
        /\ UNCHANGED <<registry, queues, ver, mine>>
    BY <1>8, <2>2, <2>3, <2>4 DEF PublishWorkers, Continue, Goto
  <2>6. pool'[v] = {queues[v]} /\ queues[v] # NoLaunch /\ pc'[t] = "capture" /\ ver[t] = v
    BY <2>2, <2>4, <2>5, LaunchIsSome DEF TypeOK, ControlOK
  <2>7. StageOK(t)'
    BY <2>4, <2>5, <2>6 DEF StageOK
  <2>8. BeingLoaded(v)'
    BY <2>5, <2>6 DEF BeingLoaded, Loading, LoadSteps
  <2>9. VersionOK(v)'
    BY <2>3, <2>4, <2>5, <2>6, <2>8 DEF VersionOK
  <2>10. /\ \A w \in Versions : w # v => pool'[w] = pool[w]
         /\ \A u \in Threads : u # t => pc'[u] = pc[u]
    BY <2>5 DEF TypeOK
  <2> QED BY <2>1, <2>2, <2>5, <2>7, <2>9, <2>10, LoadStepServing
<1>9. ASSUME NEW t \in Threads, CaptureStatus(t)
      PROVE  Serving'
  <2>1. pc[t] \in LoadSteps
    BY <1>9 DEF CaptureStatus, LoadSteps
  <2>2. PICK v \in Versions : v = ver[t]
    BY <2>1, LoaderKnows
  <2>3. StageOK(t) /\ VersionOK(v) /\ v \in held
    BY <2>1, <2>2, LoaderKnows
  <2>4. /\ \A u \in Threads : u # t =>
              pc'[u] = pc[u] /\ ver'[u] = ver[u] /\ mine'[u] = mine[u]
        /\ pc'[t] \in LoadSteps => ver'[t] = v
    BY <1>9, <2>2 DEF CaptureStatus, Continue, Goto, TypeOK, LoadSteps
  <2>5. \A w \in Versions : w # v =>
              /\ registry'[w] = registry[w] /\ queues'[w] = queues[w] /\ pool'[w] = pool[w]
              /\ w \in held' <=> w \in held
    BY <1>9, <2>2 DEF CaptureStatus, TypeOK
  <2>6. StageOK(t)'
    BY <1>9, <2>2, <2>3 DEF CaptureStatus, Continue, Goto, StageOK, VersionOK, TypeOK
  <2>7. VersionOK(v)'
    BY <1>9, <2>2, <2>3 DEF CaptureStatus, Continue, Goto, StageOK, VersionOK, BeingLoaded, Loading, LoadSteps, TypeOK
  <2> QED BY <2>1, <2>2, <2>4, <2>5, <2>6, <2>7, LoadStepServing
<1>10. ASSUME NEW t \in Threads, WorkersReady(t)
       PROVE  Serving'
  <2>1. pc[t] \in LoadSteps
    BY <1>10 DEF WorkersReady, LoadSteps
  <2>2. PICK v \in Versions : v = ver[t]
    BY <2>1, LoaderKnows
  <2>3. StageOK(t) /\ VersionOK(v) /\ v \in held
    BY <2>1, <2>2, LoaderKnows
  <2>4. /\ \A u \in Threads : u # t =>
              pc'[u] = pc[u] /\ ver'[u] = ver[u] /\ mine'[u] = mine[u]
        /\ pc'[t] \in LoadSteps => ver'[t] = v
    BY <1>10, <2>2 DEF WorkersReady, Continue, Goto, TypeOK, LoadSteps
  <2>5. \A w \in Versions : w # v =>
              /\ registry'[w] = registry[w] /\ queues'[w] = queues[w] /\ pool'[w] = pool[w]
              /\ w \in held' <=> w \in held
    BY <1>10, <2>2 DEF WorkersReady, TypeOK
  <2>6. StageOK(t)'
    BY <1>10, <2>2, <2>3 DEF WorkersReady, Continue, Goto, StageOK, VersionOK, TypeOK
  <2>7. VersionOK(v)'
    BY <1>10, <2>2, <2>3 DEF WorkersReady, Continue, Goto, StageOK, VersionOK, BeingLoaded, Loading, LoadSteps, TypeOK
  <2> QED BY <2>1, <2>2, <2>4, <2>5, <2>6, <2>7, LoadStepServing
<1>11. ASSUME NEW t \in Threads, WaitRaises(t)
       PROVE  Serving'
  <2>1. pc[t] \in LoadSteps
    BY <1>11 DEF WaitRaises, LoadSteps
  <2>2. PICK v \in Versions : v = ver[t]
    BY <2>1, LoaderKnows
  <2>3. StageOK(t) /\ VersionOK(v) /\ v \in held
    BY <2>1, <2>2, LoaderKnows
  <2>4. /\ \A u \in Threads : u # t =>
              pc'[u] = pc[u] /\ ver'[u] = ver[u] /\ mine'[u] = mine[u]
        /\ pc'[t] \in LoadSteps => ver'[t] = v
    BY <1>11, <2>2 DEF WaitRaises, Continue, Goto, TypeOK, LoadSteps
  <2>5. \A w \in Versions : w # v =>
              /\ registry'[w] = registry[w] /\ queues'[w] = queues[w] /\ pool'[w] = pool[w]
              /\ w \in held' <=> w \in held
    BY <1>11, <2>2 DEF WaitRaises, TypeOK
  <2>6. StageOK(t)'
    BY <1>11, <2>2, <2>3 DEF WaitRaises, Continue, Goto, StageOK, VersionOK, TypeOK
  <2>7. VersionOK(v)'
    BY <1>11, <2>2, <2>3 DEF WaitRaises, Continue, Goto, StageOK, VersionOK, BeingLoaded, Loading, LoadSteps, TypeOK
  <2> QED BY <2>1, <2>2, <2>4, <2>5, <2>6, <2>7, LoadStepServing
<1>12. ASSUME NEW t \in Threads, FinishLoad(t)
       PROVE  Serving'
  <2>1. pc[t] \in LoadSteps
    BY <1>12 DEF FinishLoad, LoadSteps
  <2>2. PICK v \in Versions : v = ver[t]
    BY <2>1, LoaderKnows
  <2>3. StageOK(t) /\ VersionOK(v) /\ v \in held
    BY <2>1, <2>2, LoaderKnows
  <2>4. /\ \A u \in Threads : u # t =>
              pc'[u] = pc[u] /\ ver'[u] = ver[u] /\ mine'[u] = mine[u]
        /\ pc'[t] \in LoadSteps => ver'[t] = v
    BY <1>12, <2>2 DEF FinishLoad, Continue, Goto, TypeOK, LoadSteps
  <2>5. \A w \in Versions : w # v =>
              /\ registry'[w] = registry[w] /\ queues'[w] = queues[w] /\ pool'[w] = pool[w]
              /\ w \in held' <=> w \in held
    BY <1>12, <2>2 DEF FinishLoad, TypeOK
  <2>6. StageOK(t)'
    BY <1>12, <2>2, <2>3 DEF FinishLoad, Continue, Goto, StageOK, VersionOK, TypeOK
  <2>7. VersionOK(v)'
    BY <1>12, <2>2, <2>3 DEF FinishLoad, Continue, Goto, StageOK, VersionOK, BeingLoaded, Loading, LoadSteps, TypeOK
  <2> QED BY <2>1, <2>2, <2>4, <2>5, <2>6, <2>7, LoadStepServing
<1>13. ASSUME NEW t \in Threads, EnforceMaxVersions(t)
       PROVE  Serving'
  <2>1. Evicted \in SUBSET Versions
    BY DEF Evicted, Ready
  <2>2. /\ \A u \in Threads : u # t => pc'[u] = pc[u] /\ ver'[u] = ver[u]
        /\ pc'[t] \notin LoadSteps /\ mine' = mine /\ pc[t] = "evict"
    BY <1>13 DEF EnforceMaxVersions, LeaveLoad, Return, Continue, Goto, TypeOK, LoadSteps
  <2> QED BY <1>13, <2>1, <2>2, UnloadServing DEF EnforceMaxVersions
<1>14. ASSUME NEW t \in Threads, FailLoad(t)
       PROVE  Serving'
  <2>1. pc[t] \in LoadSteps
    BY <1>14 DEF FailLoad, LoadSteps
  <2>2. PICK v \in Versions : v = ver[t]
    BY <2>1, LoaderKnows
  <2>3. StageOK(t) /\ VersionOK(v) /\ v \in held
    BY <2>1, <2>2, LoaderKnows
  <2>4. /\ \A u \in Threads : u # t =>
              pc'[u] = pc[u] /\ ver'[u] = ver[u] /\ mine'[u] = mine[u]
        /\ pc'[t] \in LoadSteps => ver'[t] = v
    BY <1>14, <2>2 DEF FailLoad, Continue, Goto, TypeOK, LoadSteps
  <2>5. \A w \in Versions : w # v =>
              /\ registry'[w] = registry[w] /\ queues'[w] = queues[w] /\ pool'[w] = pool[w]
              /\ w \in held' <=> w \in held
    BY <1>14, <2>2 DEF FailLoad, TypeOK
  <2>6. StageOK(t)'
    BY <1>14, <2>2, <2>3 DEF FailLoad, Continue, Goto, StageOK, VersionOK, TypeOK
  <2>7. VersionOK(v)'
    BY <1>14, <2>2, <2>3 DEF FailLoad, Continue, Goto, StageOK, VersionOK, BeingLoaded, Loading, LoadSteps, TypeOK
  <2> QED BY <2>1, <2>2, <2>4, <2>5, <2>6, <2>7, LoadStepServing
<1>15. ASSUME NEW t \in Threads, DropPlaceholder(t)
       PROVE  Serving'
  <2>1. pc[t] \in LoadSteps
    BY <1>15 DEF DropPlaceholder, LoadSteps
  <2>2. PICK v \in Versions : v = ver[t]
    BY <2>1, LoaderKnows
  <2>3. StageOK(t) /\ VersionOK(v) /\ v \in held
    BY <2>1, <2>2, LoaderKnows
  <2>4. /\ \A u \in Threads : u # t =>
              pc'[u] = pc[u] /\ ver'[u] = ver[u] /\ mine'[u] = mine[u]
        /\ pc'[t] \in LoadSteps => ver'[t] = v
    BY <1>15, <2>2 DEF DropPlaceholder, LeaveLoad, Return, Continue, Goto, TypeOK, LoadSteps
  <2>5. \A w \in Versions : w # v =>
              /\ registry'[w] = registry[w] /\ queues'[w] = queues[w] /\ pool'[w] = pool[w]
              /\ w \in held' <=> w \in held
    BY <1>15, <2>2 DEF DropPlaceholder, TypeOK
  <2>6. StageOK(t)'
    BY <1>15, <2>2, <2>3 DEF DropPlaceholder, LeaveLoad, Return, Continue, Goto, StageOK, VersionOK, TypeOK
  <2>7. VersionOK(v)'
    BY <1>15, <2>2, <2>3 DEF DropPlaceholder, LeaveLoad, Return, Continue, Goto, StageOK, VersionOK, BeingLoaded, Loading, LoadSteps, TypeOK
  <2> QED BY <2>1, <2>2, <2>4, <2>5, <2>6, <2>7, LoadStepServing
<1>16. ASSUME NEW t \in Threads, NEW v \in Versions, Unload(t, v)
       PROVE  Serving'
  BY <1>16, ServingFrame DEF Unload, Begin, Goto, TypeOK, LoadSteps
<1>17. ASSUME NEW t \in Threads, UnloadAll(t)
       PROVE  Serving'
  BY <1>17, ServingFrame DEF UnloadAll, Begin, Goto, TypeOK, LoadSteps
<1>18. ASSUME NEW t \in Threads, UnloadNext(t)
       PROVE  Serving'
  <2>1. CASE \E v \in todo[t] : UnloadVersion(t, v)
    <3>1. PICK v \in Versions : UnloadVersion(t, v)
      BY <2>1 DEF TypeOK
    <3>2. /\ \A u \in Threads : u # t => pc'[u] = pc[u] /\ ver'[u] = ver[u]
          /\ pc'[t] \notin LoadSteps /\ mine' = mine
          /\ \A w \in Versions : ~Loading(t, w)
      BY <1>18, <3>1 DEF UnloadNext, UnloadVersion, Continue, Goto, TypeOK, LoadSteps, Loading
    <3> QED BY <3>1, <3>2, UnloadServing DEF UnloadVersion
  <2>2. CASE UNCHANGED <<registryVars, managerVars, report, stop, raced>> /\ Continue(t, "next")
    BY <1>18, <2>2, ServingFrame DEF UnloadNext, Continue, Goto, TypeOK, LoadSteps
  <2> QED BY <1>18, <2>1, <2>2 DEF UnloadNext
<1>19. ASSUME NEW t \in Threads, UnloadAllDone(t)
       PROVE  Serving'
  BY <1>19, ServingFrame DEF UnloadAllDone, Return, Goto, TypeOK, LoadSteps
<1>20. ASSUME NEW t \in Threads, NEW v \in Versions, Reload(t, v)
       PROVE  Serving'
  BY <1>20, ServingFrame DEF Reload, Begin, Goto, TypeOK, LoadSteps
<1>21. ASSUME NEW t \in Threads, NEW v \in Versions, Delete(t, v)
       PROVE  Serving'
  BY <1>21, ServingFrame DEF Delete, Begin, Goto, TypeOK, LoadSteps
<1>22. ASSUME NEW t \in Threads, UnloadOne(t)
       PROVE  Serving'
  <2>1. CASE UnloadVersion(t, ver[t])
    <3>1. PICK v \in Versions : UnloadVersion(t, v)
      BY <1>22, <2>1 DEF UnloadOne, ControlOK
    <3>2. /\ \A u \in Threads : u # t => pc'[u] = pc[u] /\ ver'[u] = ver[u]
          /\ pc'[t] \notin LoadSteps /\ mine' = mine
          /\ \A w \in Versions : ~Loading(t, w)
      BY <1>22, <3>1 DEF UnloadOne, UnloadVersion, Continue, Goto, TypeOK, LoadSteps, Loading
    <3> QED BY <3>1, <3>2, UnloadServing DEF UnloadVersion
  <2>2. CASE UNCHANGED <<registryVars, managerVars, report, stop, raced>> /\ Return(t)
    BY <1>22, <2>2, ServingFrame DEF UnloadOne, Return, Goto, TypeOK, LoadSteps
  <2> QED BY <1>22, <2>1, <2>2 DEF UnloadOne
<1>23. ASSUME NEW t \in Threads, TerminateWorkers(t)
       PROVE  Serving'
  <2>1. \E step \in {"idle", "next", "enter", "rmtree"} : pc' = [pc EXCEPT ![t] = step]
    BY <1>23 DEF TerminateWorkers, ControlOK, Return, Continue, Goto
  <2>2. /\ UNCHANGED <<registry, queues, pool, held, mine>> /\ pc[t] = "terminate"
        /\ \A u \in Threads : u # t => ver'[u] = ver[u]
    BY <1>23 DEF TerminateWorkers, ControlOK, Return, Continue, TypeOK
  <2> QED BY <2>1, <2>2, ServingFrame DEF TypeOK, LoadSteps
<1>24. ASSUME NEW t \in Threads, RemoveDir(t)
       PROVE  Serving'
  BY <1>24, ServingFrame DEF RemoveDir, Return, Goto, TypeOK, LoadSteps
<1>25. ASSUME NEW t \in Threads, NEW v \in Versions, Activate(t, v)
       PROVE  Serving'
  BY <1>25, ServingFrame DEF Activate, TypeOK, LoadSteps
<1>26. ASSUME NEW t \in Threads, NEW v \in Versions, ActivateUnlocked(t, v)
       PROVE  Serving'
  BY <1>26, ServingFrame DEF ActivateUnlocked, Begin, Goto, TypeOK, LoadSteps
<1>27. ASSUME NEW t \in Threads, CheckReady(t)
       PROVE  Serving'
  BY <1>27, ServingFrame DEF CheckReady, Return, Continue, Goto, TypeOK, LoadSteps
<1>28. ASSUME NEW t \in Threads, SetActive(t)
       PROVE  Serving'
  BY <1>28, ServingFrame DEF SetActive, Return, Goto, TypeOK, LoadSteps
<1>29. ASSUME NEW b \in Launches, WorkerReady(b)
       PROVE  Serving'
  BY <1>29, ServingFrame DEF WorkerReady, TypeOK, LoadSteps
<1>30. ASSUME NEW b \in Launches, WorkerDies(b)
       PROVE  Serving'
  BY <1>30, ServingFrame DEF WorkerDies, TypeOK, LoadSteps
<1>31. ASSUME NEW v \in Versions, AddDir(v)
       PROVE  Serving'
  BY <1>31, ServingFrame DEF AddDir, TypeOK, LoadSteps
<1>32. ASSUME UNCHANGED vars
       PROVE  Serving'
  BY <1>32, ServingFrame DEF vars, TypeOK
<1> QED
  BY <1>1, <1>2, <1>3, <1>4, <1>5, <1>6, <1>7, <1>8, <1>9, <1>10, <1>11, <1>12, <1>13, <1>14, <1>15, <1>16, <1>17, <1>18, <1>19, <1>20, <1>21, <1>22, <1>23, <1>24, <1>25, <1>26, <1>27, <1>28, <1>29, <1>30, <1>31, <1>32
     DEF Next, Call, Step, Environment

-----------------------------------------------------------------------------
(* max_loaded_versions, and a model that is READY is routed to             *)

LEMMA LeastNatural ==
    ASSUME NEW S \in SUBSET Nat, S # {}
    PROVE  \E n \in S : \A m \in S : n <= m
<1>1. PICK n \in S : \A m \in S : ~ (<<m, n>> \in OpToRel(<, Nat))
  BY NatLessThanWellFounded, WFMin
<1>2. \A m \in S : ~(m < n)
  BY <1>1, Zenon DEF OpToRel
<1> QED BY <1>2

\* At most k elements of a finite set have fewer than k greater ones.
LEMMA TopElements ==
    ASSUME NEW R, IsFiniteSet(R), NEW rank \in [R -> Nat],
           \A v, w \in R : rank[v] = rank[w] => v = w, NEW k \in Nat,
           NEW T \in SUBSET R,
           \A v \in T : Cardinality({w \in R : rank[w] > rank[v]}) < k
    PROVE  Cardinality(T) <= k
<1>1. IsFiniteSet(T) /\ Cardinality(T) \in Nat
  BY FS_Subset, FS_CardinalityType
<1>2. CASE T = {}
  BY <1>2, FS_EmptySet
<1>3. CASE T # {}
  <2>1. {rank[v] : v \in T} \in SUBSET Nat /\ {rank[v] : v \in T} # {}
    BY <1>3
  <2>2. PICK n \in {rank[v] : v \in T} : \A m \in {rank[v] : v \in T} : n <= m
    BY <2>1, LeastNatural
  <2>3. PICK low \in T : n = rank[low]
    BY <2>2
  <2>4. PICK above : above = {w \in R : rank[w] > rank[low]}
    OBVIOUS
  <2>5. T \ {low} \subseteq above
    <3>1. ASSUME NEW v \in T, v # low PROVE rank[v] > rank[low]
      <4>1. rank[low] <= rank[v] /\ rank[v] # rank[low]
        BY <2>2, <2>3, <3>1
      <4>2. rank[v] \in Nat /\ rank[low] \in Nat
        OBVIOUS
      <4> QED BY <4>1, <4>2
    <3> QED BY <2>4, <3>1
  <2>6. IsFiniteSet(above) /\ Cardinality(above) \in Nat
    BY <2>4, FS_Subset, FS_CardinalityType
  <2>7. Cardinality(T \ {low}) <= Cardinality(above)
    BY <2>5, <2>6, FS_Subset
  <2>8. Cardinality(T \ {low}) = Cardinality(T) - 1
    BY <1>1, FS_RemoveElement
  <2>9. Cardinality(above) < k
    BY <2>4
  <2> QED BY <1>1, <2>6, <2>7, <2>8, <2>9
<1> QED BY <1>2, <1>3

\* A thread registers the version it loads, or marks its failure.
Unready(t) == /\ \E s \in {"absent", "LOADING", "ERROR"} :
                    registry' = [registry EXCEPT ![ver[t]] = s]
              /\ active' = active

\* Who writes statuses or the active version, and who ends the section of
\* load that takes two steps.
LEMMA StatusSteps ==
    ASSUME TypeOK, ControlOK, [Next]_vars
    PROVE  /\ orch' = orch
           /\ \/ \E t \in Threads : LoadEnsemble(t)
              \/ \E t \in Threads : FinishLoad(t)
              \/ \E t \in Threads : EnforceMaxVersions(t)
              \/ /\ LockFree' => LockFree
                 /\ \/ registry' = registry /\ active' \in {active} \cup Versions
                    \/ \E t \in Threads : ver[t] \in Versions /\ Unready(t)
                    \/ \E t \in Threads : \E v \in Versions : UnloadSection(t, {v})
<1> USE DEF registryVars, managerVars, workerVars, controlVars, localVars, history
<1>1. ASSUME NEW t \in Threads, Call(t)
      PROVE  /\ orch' = orch /\ registry' = registry /\ active' \in {active} \cup Versions
             /\ LockFree' => LockFree
  <2>1. orch' = orch /\ registry' = registry /\ active' \in {active} \cup Versions
    BY <1>1 DEF Call, Load, Unload, UnloadAll, Reload, Delete, Activate, ActivateUnlocked
  <2>2. pc' = pc \/ (pc[t] = "idle" /\ \E s : pc' = [pc EXCEPT ![t] = s])
    BY <1>1 DEF Call, Load, Unload, UnloadAll, Reload, Delete, Activate,
         ActivateUnlocked, Begin, Goto
  <2> QED BY <2>1, <2>2 DEF LockFree, TypeOK
<1>2. ASSUME NEW t \in Threads, EnterLoad(t) \/ InspectDir(t) \/ BuildApi(t) \/ LaunchWorkers(t)
                \/ PublishWorkers(t) \/ CaptureStatus(t) \/ WorkersReady(t) \/ WaitRaises(t)
                \/ DropPlaceholder(t) \/ UnloadAllDone(t) \/ TerminateWorkers(t)
                \/ RemoveDir(t) \/ CheckReady(t)
      PROVE  orch' = orch /\ registry' = registry /\ active' = active
  BY <1>2 DEF EnterLoad, InspectDir, BuildApi, LaunchWorkers, PublishWorkers,
       CaptureStatus, WorkersReady, WaitRaises, DropPlaceholder, UnloadAllDone,
       TerminateWorkers, RemoveDir, CheckReady
<1>3. ASSUME NEW t \in Threads, Step(t), ~EnforceMaxVersions(t)
      PROVE  LockFree' => LockFree
  <2>1. pc[t] # "evict"
    BY <1>3 DEF Step, EnterLoad, InspectDir, LoadEnsemble, Register, BuildApi,
       LaunchWorkers, PublishWorkers, CaptureStatus, WorkersReady, WaitRaises,
       FinishLoad, FailLoad, DropPlaceholder, UnloadNext,
       UnloadAllDone, UnloadOne, TerminateWorkers, RemoveDir, CheckReady, SetActive
  <2>2. \E s : pc' = [pc EXCEPT ![t] = s]
    BY <1>3 DEF Step, EnterLoad, InspectDir, LoadEnsemble, Register, BuildApi,
       LaunchWorkers, PublishWorkers, CaptureStatus, WorkersReady, WaitRaises,
       FinishLoad, FailLoad, DropPlaceholder, UnloadNext, ControlOK,
       UnloadAllDone, UnloadOne, TerminateWorkers, RemoveDir, CheckReady, SetActive,
       UnloadVersion, LeaveLoad, Return, Continue, Goto
  <2> QED BY <2>1, <2>2 DEF LockFree, TypeOK
<1>4. ASSUME NEW t \in Threads, Register(t) \/ FailLoad(t)
      PROVE  orch' = orch /\ ver[t] \in Versions /\ Unready(t)
  <2>1. orch' = orch /\ active' = active /\ ver[t] \in Versions
    BY <1>4 DEF Register, FailLoad, ControlOK
  <2>2. \E s \in {"absent", "LOADING", "ERROR"} : registry' = [registry EXCEPT ![ver[t]] = s]
    BY <1>4, <2>1 DEF Register, FailLoad, TypeOK
  <2> QED BY <2>1, <2>2 DEF Unready
<1>5. ASSUME NEW t \in Threads, UnloadNext(t) \/ UnloadOne(t)
      PROVE  /\ orch' = orch
             /\ \/ registry' = registry /\ active' = active
                \/ \E v \in Versions : UnloadSection(t, {v})
  BY <1>5 DEF UnloadNext, UnloadOne, UnloadVersion, TypeOK, ControlOK
<1>6. ASSUME NEW t \in Threads, SetActive(t)
      PROVE  orch' = orch /\ registry' = registry /\ active' \in Versions
  BY <1>6 DEF SetActive, ControlOK
<1>7. ASSUME NEW t \in Threads, LoadEnsemble(t) \/ FinishLoad(t) \/ EnforceMaxVersions(t)
      PROVE  orch' = orch
  BY <1>7 DEF LoadEnsemble, FinishLoad, EnforceMaxVersions
<1>8. ASSUME NEW t \in Threads, Step(t)
      PROVE  /\ orch' = orch
             /\ \/ LoadEnsemble(t)
                \/ FinishLoad(t)
                \/ EnforceMaxVersions(t)
                \/ /\ LockFree' => LockFree
                   /\ \/ registry' = registry /\ active' \in {active} \cup Versions
                      \/ ver[t] \in Versions /\ Unready(t)
                      \/ \E v \in Versions : UnloadSection(t, {v})
  BY <1>8, <1>2, <1>3, <1>4, <1>5, <1>6, <1>7 DEF Step
<1>9. ASSUME Environment \/ UNCHANGED vars
      PROVE  orch' = orch /\ registry' = registry /\ active' = active /\ (LockFree' => LockFree)
  BY <1>9 DEF Environment, WorkerReady, WorkerDies, AddDir, vars, LockFree
<1> QED BY <1>1, <1>8, <1>9 DEF Next

\* A READY version that may be activated by itself means an active version.
Routed == \A v \in Ready(registry) : orch.default \in {NoVersion, v} => active # NoVersion

LEMMA InitLimits == Init => Routed /\ MaxLoadedRespected
<1> SUFFICES ASSUME Init PROVE Routed /\ MaxLoadedRespected
  OBVIOUS
<1>1. Ready(registry) = {} /\ orch \in Orchestrations
  BY DEF Init, Ready
<1>2. orch.max \in Nat
  BY <1>1, OrchestrationAssumption
<1> QED BY <1>1, <1>2, FS_EmptySet DEF Routed, MaxLoadedRespected

LEMMA StepRouted ==
    ASSUME TypeOK, ControlOK, Routed, [Next]_vars
    PROVE  Routed'
<1>0. orch' = orch /\ NoVersion \notin Versions
  BY StatusSteps, VersionAssumption
<1>1. ASSUME NEW t \in Threads, LoadEnsemble(t) \/ FinishLoad(t)
      PROVE  Routed'
  <2>1. ver[t] \in Versions
    BY <1>1 DEF LoadEnsemble, FinishLoad, ControlOK
  <2>2. PICK s : registry' = [registry EXCEPT ![ver[t]] = s]
    BY <1>1 DEF LoadEnsemble, FinishLoad
  <2>3. \A v \in Versions : v # ver[t] => registry'[v] = registry[v]
    BY <2>2 DEF TypeOK
  <2>4. CASE s = "READY"
    <3>1. registry'[ver[t]] = "READY"
      BY <2>1, <2>2, <2>4 DEF TypeOK
    <3>2. active' = AfterActivation(ver[t], registry')
      BY <1>1, <3>1, <2>1 DEF LoadEnsemble, FinishLoad, TypeOK
    <3> QED BY <1>0, <2>1, <2>3, <3>1, <3>2 DEF AfterActivation, Routed, Ready
  <2>5. CASE s # "READY"
    <3>1. registry'[ver[t]] # "READY"
      BY <2>1, <2>2, <2>5 DEF TypeOK
    <3>2. active' = active
      BY <1>1, <3>1 DEF LoadEnsemble, FinishLoad, AfterActivation
    <3> QED BY <1>0, <2>1, <2>3, <3>1, <3>2 DEF Routed, Ready
  <2> QED BY <2>4, <2>5
<1>2. ASSUME NEW t \in Threads, NEW U \in SUBSET Versions, UnloadSection(t, U)
      PROVE  Routed'
  <2>1. Ready(registry') \subseteq Ready(registry) /\ Ready(registry') \subseteq Versions
    BY <1>2 DEF UnloadSection, Ready
  <2>2. active' \in NextActive(U, registry')
    BY <1>2 DEF UnloadSection
  <2> QED BY <1>0, <2>1, <2>2 DEF NextActive, Routed
<1>3. ASSUME NEW t \in Threads, EnforceMaxVersions(t)
      PROVE  Routed'
  BY <1>2, <1>3 DEF EnforceMaxVersions, Evicted, Ready
<1>4. ASSUME registry' = registry, active' \in {active} \cup Versions
      PROVE  Routed'
  BY <1>0, <1>4 DEF Routed, Ready
<1>5. ASSUME NEW t \in Threads, ver[t] \in Versions, Unready(t)
      PROVE  Routed'
  <2>1. Ready(registry') \subseteq Ready(registry) /\ active' = active
    BY <1>5 DEF Unready, Ready, TypeOK
  <2> QED BY <1>0, <2>1 DEF Routed
<1>6. \A v \in Versions : {v} \in SUBSET Versions
  OBVIOUS
<1> QED BY <1>1, <1>2, <1>3, <1>4, <1>5, <1>6, StatusSteps

\* The versions that the eviction leaves READY are few enough.
LEMMA EvictionLimits ==
    ASSUME TypeOK, Routing, NEW t \in Threads, EnforceMaxVersions(t), ~raced
    PROVE  Cardinality(Ready(registry')) <= orch.max
<1>1. orch.max \in Nat
  BY OrchestrationAssumption DEF TypeOK
<1>2. PICK R : R = Ready(registry)
  OBVIOUS
<1>3. IsFiniteSet(R) /\ R \subseteq Versions
  BY <1>2, FS_Subset, VersionAssumption DEF Ready
<1>4. PICK T : T = Ready(registry')
  OBVIOUS
<1>5. T \in SUBSET R /\ T \cap Evicted = {}
  BY <1>2, <1>4 DEF EnforceMaxVersions, UnloadSection, Ready
<1>6. \A v \in R : Loaded(v)
  BY <1>2 DEF Ready, Routing, LoadOK, Loaded
<1>7. PICK rank : rank = [v \in R |-> Rank[v]]
  OBVIOUS
<1>8. rank \in [R -> Nat] /\ \A v, w \in R : rank[v] = rank[w] => v = w
  BY <1>3, <1>7, VersionAssumption
<1>9. ASSUME NEW v \in T
      PROVE  Cardinality({w \in R : rank[w] > rank[v]}) < orch.max
  <2>1. v \in R /\ v \notin Evicted /\ Loaded(v)
    BY <1>5, <1>6
  <2>2. {w \in R : rank[w] > rank[v]} = {w \in R : Rank[w] > Rank[v]}
    BY <2>1, <1>7
  <2>3. ~(Cardinality({w \in R : Rank[w] > Rank[v]}) >= orch.max)
    BY <1>2, <2>1 DEF Evicted
  <2>4. Cardinality({w \in R : Rank[w] > Rank[v]}) \in Nat
    BY <1>3, FS_Subset, FS_CardinalityType
  <2> QED BY <1>1, <2>2, <2>3, <2>4
<1> QED BY <1>1, <1>3, <1>4, <1>5, <1>8, <1>9, TopElements

LEMMA FewerReady ==
    ASSUME TypeOK, NEW R \in SUBSET Ready(registry), Cardinality(Ready(registry)) <= orch.max
    PROVE  Cardinality(R) <= orch.max
<1>1. IsFiniteSet(Ready(registry))
  BY FS_Subset, VersionAssumption DEF Ready
<1>2. /\ Cardinality(R) <= Cardinality(Ready(registry))
      /\ Cardinality(R) \in Nat /\ Cardinality(Ready(registry)) \in Nat
  BY <1>1, FS_Subset, FS_CardinalityType
<1>3. orch.max \in Nat
  BY OrchestrationAssumption DEF TypeOK
<1> QED BY <1>2, <1>3

LEMMA StepLimit ==
    ASSUME TypeOK, ControlOK, Routing, Serving, MaxLoadedRespected, [Next]_vars
    PROVE  MaxLoadedRespected'
<1> SUFFICES ASSUME ~raced', Ensembles = {}, LockFree'
             PROVE  Cardinality(Ready(registry')) <= orch'.max
  BY DEF MaxLoadedRespected, Ready
<1>0. ~raced /\ orch' = orch
  BY RacedStays, StatusSteps
<1>1. ASSUME NEW t \in Threads, LoadEnsemble(t)
      PROVE  FALSE
  BY <1>0, <1>1 DEF LoadEnsemble, Serving, StageOK
<1>2. ASSUME NEW t \in Threads, FinishLoad(t)
      PROVE  FALSE
  BY <1>2 DEF FinishLoad, Continue, Goto, LockFree, TypeOK
<1>3. ASSUME NEW t \in Threads, EnforceMaxVersions(t)
      PROVE  Cardinality(Ready(registry')) <= orch'.max
  BY <1>0, <1>3, EvictionLimits
<1>4. ASSUME LockFree, registry' = registry \/ (\E t \in Threads : Unready(t))
               \/ \E t \in Threads : \E v \in Versions : UnloadSection(t, {v})
      PROVE  Cardinality(Ready(registry')) <= orch'.max
  <2>1. Ready(registry') \subseteq Ready(registry)
    <3>1. CASE registry' = registry
      BY <3>1
    <3>2. ASSUME NEW t \in Threads, Unready(t)
          PROVE  Ready(registry') \subseteq Ready(registry)
      BY <3>2 DEF Ready, Unready, TypeOK
    <3>3. ASSUME NEW t \in Threads, NEW v \in Versions, UnloadSection(t, {v})
          PROVE  Ready(registry') \subseteq Ready(registry)
      BY <3>3 DEF Ready, UnloadSection
    <3> QED BY <1>4, <3>1, <3>2, <3>3
  <2>2. Cardinality(Ready(registry)) <= orch.max
    BY <1>0, <1>4 DEF MaxLoadedRespected
  <2>3. PICK R \in SUBSET Ready(registry) : R = Ready(registry')
    BY <2>1
  <2> QED BY <1>0, <2>2, <2>3, FewerReady
<1> QED BY <1>1, <1>2, <1>3, <1>4, StatusSteps

-----------------------------------------------------------------------------
(* The theorems                                                            *)

IInv == /\ TypeOK
        /\ ControlOK
        /\ Ownership
        /\ Routing
        /\ Serving
        /\ Routed
        /\ MaxLoadedRespected

LEMMA Invariance == Spec => []IInv
<1>1. Init => IInv
  BY InitType, InitOwnership, InitRouting, InitServing, InitLimits DEF IInv
<1>2. IInv /\ [Next]_vars => IInv'
  BY StepType, StepOwnership, StepRouting, StepServing, StepRouted, StepLimit DEF IInv
<1> QED BY <1>1, <1>2, PTL DEF Spec

\* Every variable keeps its type.
THEOREM TypeCorrect == Spec => []TypeOK
<1>1. IInv => TypeOK
  BY DEF IInv
<1> QED BY <1>1, Invariance, PTL

\* However load, unload, reload and delete_version interleave, also when they
\* hit the same version, every live worker process is in the worker table or
\* in the hands of a thread that is about to publish or to terminate it, unless
\* its launch failed half-way.
THEOREM WorkersAreNeverForgotten == Spec => []NoOrphanWorkers
<1>1. IInv => NoOrphanWorkers
  BY DEF IInv, Ownership
<1> QED BY <1>1, Invariance, PTL

\* No two versions list the same processes, and none that is published is being
\* terminated outside the lock.
THEOREM WorkersHaveOneOwner == Spec => []OneOwner
<1>1. IInv => OneOwner
  BY DEF IInv, Ownership
<1> QED BY <1>1, Invariance, PTL

\* The placeholder in ModelManager._workers keeps two loads of a version apart,
\* unless an unload takes it away.
THEOREM OneLoadPerVersion == Spec => []LoadsExclude
<1>1. IInv => LoadsExclude
  BY DEF IInv, Routing
<1> QED BY <1>1, Invariance, PTL

\* The version that requests are routed to is READY, unless an unload has hit a
\* version that another thread was loading or activating.
THEOREM RoutedVersionIsReady == Spec => []ActiveIsReady
<1>1. IInv => ActiveIsReady
  BY DEF IInv, Routing
<1> QED BY <1>1, Invariance, PTL

\* The queues that requests for a READY version are put into are read by the
\* very processes that the worker table lists for it, unless an unload has hit
\* a version that another thread was loading or activating.
THEOREM ReadyVersionIsServed == Spec => []ReadyIsServed
<1>1. IInv => ReadyIsServed
  BY DEF IInv, Serving, VersionOK, ReadyIsServed, Ready
<1> QED BY <1>1, Invariance, PTL

\* When nobody is inside an operation, nothing is half done (same exception):
\* what load, unload, reload and delete_version leave in the registry and in
\* the worker table agrees.
THEOREM OperationsSettle == Spec => []SettledConsistent
<1>1. ASSUME IInv, ~raced, \A t \in Threads : pc[t] = "idle", NEW v \in Versions \ Ensembles
      PROVE  /\ registry[v] # "LOADING"
             /\ v \in held => registry[v] \in {"READY", "ERROR"}
             /\ registry[v] = "READY" => v \in held
  <2>1. VersionOK(v) /\ (registry[v] = "READY" => v \in held)
    BY <1>1 DEF IInv, Serving, Routing, LoadOK
  <2>2. ~BeingLoaded(v)
    BY <1>1 DEF BeingLoaded, Loading, LoadSteps
  <2> QED BY <2>1, <2>2 DEF VersionOK
<1>2. IInv => SettledConsistent
  BY <1>1 DEF SettledConsistent, QuiescentConsistent
<1> QED BY <1>2, Invariance, PTL

\* A model with a READY version that may be activated by itself has an active
\* version, whatever is unloaded meanwhile.
THEOREM ReadyModelHasARoute == Spec => []ReadyModelIsRouted
<1>1. IInv => ReadyModelIsRouted
  BY DEF IInv, Routed, ReadyModelIsRouted
<1> QED BY <1>1, Invariance, PTL

\* Evicting in the order of the version strings leaves no more READY versions
\* than max_loaded_versions, for any number of versions and any limit (same
\* exception).
THEOREM LoadedVersionsAreLimited == Spec => []MaxLoadedRespected
<1>1. IInv => MaxLoadedRespected
  BY DEF IInv
<1> QED BY <1>1, Invariance, PTL
=============================================================================
