--------------------------- MODULE LightServer_proofs ---------------------------
(***************************************************************************)
(* Proofs about LightServer, for any versions, configurations, HTTP workers*)
(* and bounds: the types, and that the poller's first passes confirm what  *)
(* start-up has loaded.                                                    *)
(***************************************************************************)
EXTENDS LightServer, FiniteSetTheorems, TLAPS

-----------------------------------------------------------------------------
(* Types                                                                   *)

Steps == {"idle", "load", "register", "launch", "publish", "wait", "unload", "terminate"}

StoreTyped ==
    /\ config \in Configs /\ disk \subseteq Versions
    /\ manager \in {"up", "down"}
    /\ entry \in [Versions -> {"absent", "LOADING", "READY", "ERROR"}]
    /\ active \in Versions \cup {NoVersion}
    /\ held \subseteq Versions
    /\ table \in [Versions -> Processes]

\* A thread inside load or unload has a version; the processes of its load are listed
\* only while it waits for them.
LoadTyped ==
    /\ mine \in [Threads -> Processes \cup {"table"}]
    /\ stop \in [Threads -> BOOLEAN]
    /\ pc \in [Threads -> Steps]
    /\ ver \in [Threads -> Versions \cup {NoVersion}]
    /\ \A t \in Threads : pc[t] # "idle" => ver[t] \in Versions
    /\ \A t \in Threads : mine[t] = "table" => pc[t] = "wait"

MainTyped ==
    /\ phase \in {"list", "load", "http", "serving", "acquire", "workers", "unload",
                  "close", "rest", "exiting", "joining", "exited", "locked"}
    /\ todo \subseteq Versions
    /\ event \in BOOLEAN /\ uvicorn \in BOOLEAN /\ done \in BOOLEAN /\ interrupted \in BOOLEAN
    /\ http \in [HttpWorkers -> {"none", "up", "gone"}]

PollTyped ==
    /\ poll \in {"off", "sleep", "scan", "compare", "loads", "stopped", "dead"}
    /\ seen \subseteq Versions /\ missing \subseteq Versions
    /\ changes \in 0 .. MaxChanges /\ signals \in 0 .. MaxSignals

Typed == StoreTyped /\ LoadTyped /\ MainTyped /\ PollTyped

LEMMA MainThread == "main" \in Threads /\ "poller" \in Threads /\ Callers \subseteq Threads
BY DEF Threads

LEMMA ConfigTyped ==
    ASSUME config \in Configs
    PROVE  /\ config.found \subseteq Versions /\ config.max \in Nat /\ config.multi \in BOOLEAN
           /\ config.default \in Versions \cup {NoVersion}
BY ServerAssumption DEF ConfigType

LEMMA InitTyped == Init => Typed
<1> SUFFICES ASSUME Init PROVE Typed
  OBVIOUS
<1>1. StoreTyped
  BY ConfigTyped DEF Init, StoreTyped, Processes
<1>2. LoadTyped
  BY DEF Init, LoadTyped, Processes, Steps
<1>3. MainTyped
  BY DEF Init, MainTyped
<1>4. PollTyped
  BY ServerAssumption DEF Init, PollTyped
<1> QED BY <1>1, <1>2, <1>3, <1>4 DEF Typed

LEMMA StoreStep == Typed /\ [Next]_vars => StoreTyped'
<1> SUFFICES ASSUME Typed, [Next]_vars PROVE StoreTyped'
  OBVIOUS
<1> USE DEF Typed, StoreTyped, LoadTyped
<1>1. CASE UNCHANGED <<config, disk, manager, entry, active, held, table>>
  BY <1>1
<1>2. ASSUME NEW t \in Threads, LoadEnter(t) PROVE StoreTyped'
  BY <1>2 DEF LoadEnter
<1>3. ASSUME NEW t \in Threads, LoadRegister(t) PROVE StoreTyped'
  BY <1>3 DEF LoadRegister
<1>4. ASSUME NEW t \in Threads, LoadLaunch(t) PROVE StoreTyped'
  <2>1. UNCHANGED <<config, disk, manager, active, table>> /\ held' \subseteq held
    BY <1>4 DEF LoadLaunch
  <2>2. entry' = entry \/ SetStatus(ver[t], "ERROR")
    BY <1>4 DEF LoadLaunch
  <2>3. entry' \in [Versions -> {"absent", "LOADING", "READY", "ERROR"}]
    BY <2>2 DEF SetStatus
  <2> QED BY <2>1, <2>3
<1>5. ASSUME NEW t \in Threads, LoadPublish(t) PROVE StoreTyped'
  <2>1. /\ UNCHANGED <<config, disk, manager, entry, active>> /\ pc[t] = "publish"
        /\ \/ table' = [table EXCEPT ![ver[t]] = mine[t]] /\ held' = held \cup {ver[t]}
           \/ UNCHANGED <<table, held>>
    BY <1>5 DEF LoadPublish
  <2>2. mine[t] \in Processes /\ ver[t] \in Versions
    BY <2>1
  <2>3. table' \in [Versions -> Processes]
    BY <2>1, <2>2
  <2> QED BY <2>1, <2>2, <2>3
<1>6. ASSUME NEW U, Forget(U)
      PROVE  held' \subseteq Versions /\ table' \in [Versions -> Processes]
  BY <1>6 DEF Forget, Processes
<1>7. ASSUME NEW t \in Threads, LoadFinish(t) PROVE StoreTyped'
  <2> DEFINE v == ver[t]
  <2>1. PICK reg : reg = IF entry[v] = "absent" THEN entry ELSE [entry EXCEPT ![v] = "READY"]
    OBVIOUS
  <2>2. PICK ready : ready = {w \in Versions : reg[w] = "READY"}
    OBVIOUS
  <2>3. PICK out : out = Evicted(ready)
    OBVIOUS
  <2>4. PICK first : first = IF active = NoVersion /\ v \in ready /\ config.default \in {v, NoVersion}
                            THEN v ELSE active
    OBVIOUS
  <2>5. /\ UNCHANGED <<config, disk, manager>> /\ Forget(out) /\ pc[t] = "wait"
        /\ entry' = [w \in Versions |-> IF w \in out THEN "absent" ELSE reg[w]]
        /\ active' \in IF first \notin out THEN {first}
                       ELSE IF ready \ out = {} THEN {NoVersion} ELSE ready \ out
    BY <1>7, <2>1, <2>2, <2>3, <2>4 DEF LoadFinish
  <2>6. v \in Versions
    BY <2>5
  <2>7. reg \in [Versions -> {"absent", "LOADING", "READY", "ERROR"}]
    BY <2>1, <2>6
  <2>8. entry' \in [Versions -> {"absent", "LOADING", "READY", "ERROR"}]
    BY <2>5, <2>7
  <2>9. active' \in Versions \cup {NoVersion}
    BY <2>2, <2>4, <2>5, <2>6
  <2> QED BY <1>6, <2>5, <2>8, <2>9
<1>8. ASSUME NEW t \in Threads, LoadFails(t) PROVE StoreTyped'
  <2>1. UNCHANGED <<config, disk, manager, active, held, table>>
    BY <1>8 DEF LoadFails
  <2>2. entry' = entry \/ SetStatus(ver[t], "ERROR")
    BY <1>8 DEF LoadFails
  <2>3. entry' \in [Versions -> {"absent", "LOADING", "READY", "ERROR"}]
    BY <2>2 DEF SetStatus
  <2> QED BY <2>1, <2>3
<1>9. ASSUME NEW t \in Threads, UnloadSection(t) PROVE StoreTyped'
  <2>1. UNCHANGED <<config, disk, manager>>
    BY <1>9 DEF UnloadSection
  <2>2. CASE UNCHANGED <<entry, active, held, table>>
    BY <2>1, <2>2
  <2>3. CASE /\ entry' = [entry EXCEPT ![ver[t]] = "absent"] /\ Forget({ver[t]})
             /\ active' \in ActiveAfter({ver[t]}, Ready \ {ver[t]})
    <3>1. entry' \in [Versions -> {"absent", "LOADING", "READY", "ERROR"}]
      BY <2>3
    <3>2. active' \in Versions \cup {NoVersion}
      BY <2>3 DEF ActiveAfter, Ready
    <3> QED BY <1>6, <2>1, <2>3, <3>1, <3>2
  <2> QED BY <1>9, <2>2, <2>3 DEF UnloadSection
<1>10. ASSUME NEW t \in Threads, UnloadTerminate(t) PROVE StoreTyped'
  BY <1>1, <1>10 DEF UnloadTerminate, storeVars
<1>11. ASSUME WorkerUp \/ WorkerEnds PROVE StoreTyped'
  <2>1. UNCHANGED <<config, disk, manager, entry, active, held>>
    BY <1>11 DEF WorkerUp, WorkerEnds
  <2>2. table' = table \/ \E v \in Versions, p \in {"up", "gone"} : table' = [table EXCEPT ![v] = p]
    BY <1>11 DEF WorkerUp, WorkerEnds
  <2>3. table' \in [Versions -> Processes]
    BY <2>2 DEF Processes
  <2> QED BY <2>1, <2>3
<1>12. ASSUME StartServices PROVE StoreTyped'
  <2>1. /\ UNCHANGED <<config, disk, manager, entry, held, table>>
        /\ active' \in {active, config.default}
    BY <1>12 DEF StartServices
  <2> QED BY <2>1, ConfigTyped
<1>13. ASSUME ReapWorkers \/ CloseManager \/ Finalize PROVE StoreTyped'
  <2>1. UNCHANGED <<config, disk, entry, active, held>> /\ manager' \in {manager, "down"}
    BY <1>13 DEF ReapWorkers, CloseManager, Finalize
  <2>2. table' \in [Versions -> Processes]
    BY <1>13 DEF ReapWorkers, CloseManager, Finalize, Processes
  <2> QED BY <2>1, <2>2
<1>14. ASSUME NEW v \in Versions, ChangeDisk(v) PROVE StoreTyped'
  BY <1>14 DEF ChangeDisk, storeVars
<1>15. ASSUME Main, ~(StartServices \/ ReapWorkers \/ CloseManager \/ Finalize) PROVE StoreTyped'
  BY <1>1, <1>15 DEF Main, ListInitial, StartHttp, SetDone, ListLoaded, FinishShutdown, Exit,
                     LoadInitial, UnloadListed, TerminateHttpWorker, storeVars
<1>16. ASSUME \/ StopServing \/ Signal \/ Poll
              \/ \E w \in HttpWorkers : HttpWorkerEnds(w)
              \/ \E t \in Callers, v \in Versions, op \in {"load", "unload"} : Command(t, v, op)
       PROVE  StoreTyped'
  BY <1>1, <1>16 DEF StopServing, Signal, Poll, PollSleep, PollScan, PollCompare, PollDone,
                     PollLoad, PollUnload, HttpWorkerEnds, Command, storeVars
<1>17. CASE UNCHANGED vars
  BY <1>1, <1>17 DEF vars, storeVars
<1> QED BY <1>2, <1>3, <1>4, <1>5, <1>7, <1>8, <1>9, <1>10, <1>11, <1>12, <1>13, <1>14, <1>15,
           <1>16, <1>17 DEF Next, ManagerStep

\* A thread that enters or leaves load or unload, or moves on inside.
LEMMA MoveTyped ==
    ASSUME LoadTyped, NEW t \in Threads, NEW step \in Steps, NEW v \in Versions \cup {NoVersion},
           pc' = [pc EXCEPT ![t] = step], ver' = [ver EXCEPT ![t] = v],
           step = "idle" \/ v \in Versions, stop' \in [Threads -> BOOLEAN],
           mine' \in [Threads -> Processes \cup {"table"}],
           \A s \in Threads : s # t /\ mine'[s] = "table" => mine[s] = "table",
           mine'[t] = "table" => step = "wait"
    PROVE  LoadTyped'
<1>1. \A s \in Threads : /\ pc'[s] = IF s = t THEN step ELSE pc[s]
                         /\ ver'[s] = IF s = t THEN v ELSE ver[s]
  BY DEF LoadTyped
<1>2. pc' \in [Threads -> Steps] /\ ver' \in [Threads -> Versions \cup {NoVersion}]
  BY DEF LoadTyped
<1> QED BY <1>1, <1>2 DEF LoadTyped

LEMMA AbandonedTyped ==
    ASSUME LoadTyped, NEW U, NEW t, mine' = Abandoned(U, t)
    PROVE  /\ mine' \in [Threads -> Processes \cup {"table"}]
           /\ \A s \in Threads : mine'[s] = "table" => mine[s] = "table" /\ s # t
BY DEF LoadTyped, Abandoned, Processes

LEMMA ManagerLoadTyped ==
    ASSUME Typed, NEW t \in Threads, ManagerStep(t) PROVE LoadTyped'
<1>1. LoadTyped
  BY DEF Typed
<1> DEFINE v == ver[t]
<1>2. /\ mine \in [Threads -> Processes \cup {"table"}] /\ stop \in [Threads -> BOOLEAN]
      /\ ver = [ver EXCEPT ![t] = v] /\ v \in Versions \cup {NoVersion}
      /\ NoVersion \in Versions \cup {NoVersion}
  BY <1>1 DEF LoadTyped
<1>3. ASSUME pc[t] # "idle", pc[t] # "wait",
             mine' \in [Threads -> Processes \cup {"table"}],
             \A s \in Threads : s # t => mine'[s] = mine[s], stop' = stop,
             \/ Return(t) /\ mine' = mine
             \/ \E step \in Steps : Goto(t, step) /\ (mine'[t] = "table" => step = "wait")
      PROVE  LoadTyped'
  <2>1. mine[t] # "table" /\ v \in Versions
    BY <1>1, <1>3 DEF LoadTyped
  <2>2. CASE Return(t) /\ mine' = mine
    BY <1>1, <1>2, <1>3, <2>1, <2>2, MoveTyped DEF Return, Enter, Steps
  <2>3. CASE \E step \in Steps : Goto(t, step) /\ (mine'[t] = "table" => step = "wait")
    <3>1. PICK step \in Steps : Goto(t, step) /\ (mine'[t] = "table" => step = "wait")
      BY <2>3
    <3>2. pc' = [pc EXCEPT ![t] = step] /\ ver' = [ver EXCEPT ![t] = v]
      BY <1>2, <3>1 DEF Goto
    <3>3. \A s \in Threads : s # t /\ mine'[s] = "table" => mine[s] = "table"
      BY <1>3
    <3> QED BY <1>1, <1>2, <1>3, <2>1, <3>1, <3>2, <3>3, MoveTyped
  <2> QED BY <1>3, <2>2, <2>3
<1>4. CASE LoadEnter(t)
  <2>1. /\ pc[t] = "load" /\ UNCHANGED <<mine, stop>>
        /\ Return(t) \/ Goto(t, "register")
    BY <1>4 DEF LoadEnter
  <2>2. mine[t] # "table" /\ "register" \in Steps
    BY <1>1, <2>1 DEF LoadTyped, Steps
  <2> QED BY <1>2, <1>3, <2>1, <2>2
<1>5. CASE LoadRegister(t)
  <2>1. /\ pc[t] = "register" /\ UNCHANGED <<mine, stop>>
        /\ Return(t) \/ Goto(t, "launch")
    BY <1>5 DEF LoadRegister, Raise
  <2>2. mine[t] # "table" /\ "launch" \in Steps
    BY <1>1, <2>1 DEF LoadTyped, Steps
  <2> QED BY <1>2, <1>3, <2>1, <2>2
<1>6. CASE LoadLaunch(t)
  <2>1. /\ pc[t] = "launch" /\ stop' = stop
        /\ \/ Return(t) /\ mine' = mine
           \/ Goto(t, "publish") /\ mine' = [mine EXCEPT ![t] = "starting"]
    BY <1>6 DEF LoadLaunch, Raise
  <2>2. CASE Return(t) /\ mine' = mine
    BY <1>2, <1>3, <2>1, <2>2
  <2>3. CASE Goto(t, "publish") /\ mine' = [mine EXCEPT ![t] = "starting"]
    <3>1. /\ mine' \in [Threads -> Processes \cup {"table"}] /\ mine'[t] = "starting"
          /\ \A s \in Threads : s # t => mine'[s] = mine[s]
      BY <1>2, <2>3 DEF Processes
    <3>2. "publish" \in Steps
      BY DEF Steps
    <3> QED BY <1>3, <2>1, <2>3, <3>1, <3>2
  <2> QED BY <2>1, <2>2, <2>3
<1>7. CASE LoadPublish(t)
  <2>1. /\ pc[t] = "publish" /\ stop' = stop
        /\ \/ Return(t) /\ mine' = [mine EXCEPT ![t] = "none"]
           \/ Goto(t, "wait") /\ mine' = [mine EXCEPT ![t] = "table"]
    BY <1>7 DEF LoadPublish
  <2>2. CASE Return(t) /\ mine' = [mine EXCEPT ![t] = "none"]
    <3>1. /\ mine' \in [Threads -> Processes \cup {"table"}] /\ mine'[t] = "none"
          /\ \A s \in Threads : s # t => mine'[s] = mine[s]
      BY <1>2, <2>2 DEF Processes
    <3> QED BY <1>1, <1>2, <2>1, <2>2, <3>1, MoveTyped DEF Return, Enter, Steps
  <2>3. CASE Goto(t, "wait") /\ mine' = [mine EXCEPT ![t] = "table"]
    <3>1. /\ mine' \in [Threads -> Processes \cup {"table"}]
          /\ \A s \in Threads : s # t => mine'[s] = mine[s]
      BY <1>2, <2>3
    <3>2. "wait" \in Steps
      BY DEF Steps
    <3> QED BY <1>3, <2>1, <2>3, <3>1, <3>2
  <2> QED BY <2>1, <2>2, <2>3
<1>8. CASE LoadFinish(t)
  <2>1. PICK out : mine' = Abandoned(out, t)
    BY <1>8 DEF LoadFinish
  <2>2. Return(t) /\ stop' = stop
    BY <1>8 DEF LoadFinish
  <2>3. /\ mine' \in [Threads -> Processes \cup {"table"}] /\ mine'[t] # "table"
        /\ \A s \in Threads : mine'[s] = "table" => mine[s] = "table"
    BY <1>1, <2>1, AbandonedTyped
  <2> QED BY <1>1, <1>2, <2>2, <2>3, MoveTyped DEF Return, Enter, Steps
<1>9. CASE LoadFails(t)
  <2>1. Return(t) /\ stop' = stop /\ mine' = [mine EXCEPT ![t] = "none"]
    BY <1>9 DEF LoadFails, Raise
  <2>2. /\ mine' \in [Threads -> Processes \cup {"table"}] /\ mine'[t] = "none"
        /\ \A s \in Threads : s # t => mine'[s] = mine[s]
    BY <1>2, <2>1 DEF Processes
  <2> QED BY <1>1, <1>2, <2>1, <2>2, MoveTyped DEF Return, Enter, Steps
<1>10. CASE UnloadSection(t)
  <2>1. pc[t] = "unload" /\ mine[t] # "table" /\ v \in Versions
    BY <1>1, <1>10 DEF UnloadSection, LoadTyped
  <2>2. CASE Return(t) /\ UNCHANGED <<mine, stop>>
    BY <1>2, <1>3, <2>1, <2>2
  <2>3. CASE /\ mine' = Abandoned({v}, "nobody")
             /\ stop' = [stop EXCEPT ![t] = Alive(table[v])] /\ Goto(t, "terminate")
    <3>1. stop' \in [Threads -> BOOLEAN]
      BY <1>2, <2>3 DEF Alive
    <3>2. /\ mine' \in [Threads -> Processes \cup {"table"}]
          /\ \A s \in Threads : mine'[s] = "table" => mine[s] = "table"
      BY <1>1, <2>3, AbandonedTyped
    <3>3. pc' = [pc EXCEPT ![t] = "terminate"] /\ ver' = [ver EXCEPT ![t] = v]
      BY <1>2, <2>3 DEF Goto
    <3>4. "terminate" \in Steps
      BY DEF Steps
    <3> QED BY <1>1, <2>1, <3>1, <3>2, <3>3, <3>4, MoveTyped
  <2> QED BY <1>10, <2>2, <2>3 DEF UnloadSection, Raise
<1>11. CASE UnloadTerminate(t)
  <2>1. /\ pc[t] = "terminate" /\ Return(t) /\ mine' = mine /\ stop' = [stop EXCEPT ![t] = FALSE]
    BY <1>11 DEF UnloadTerminate
  <2>2. mine[t] # "table" /\ stop' \in [Threads -> BOOLEAN]
    BY <1>1, <2>1 DEF LoadTyped
  <2> QED BY <1>1, <1>2, <2>1, <2>2, MoveTyped DEF Return, Enter, Steps
<1> QED BY <1>4, <1>5, <1>6, <1>7, <1>8, <1>9, <1>10, <1>11 DEF ManagerStep

LEMMA LoadStep == Typed /\ [Next]_vars => LoadTyped'
<1> SUFFICES ASSUME Typed, [Next]_vars PROVE LoadTyped'
  OBVIOUS
<1>1. LoadTyped
  BY DEF Typed
<1>2. CASE UNCHANGED loadVars
  BY <1>1, <1>2 DEF loadVars, LoadTyped
\* An idle thread begins a load or an unload.
<1>3. ASSUME NEW t \in Threads, NEW v \in Versions, NEW op \in {"load", "unload"},
             pc[t] = "idle", Enter(t, v, op), UNCHANGED <<mine, stop>>
      PROVE  LoadTyped'
  <2>1. mine[t] # "table"
    BY <1>1, <1>3 DEF LoadTyped
  <2> QED BY <1>1, <1>3, <2>1, MoveTyped DEF Enter, Steps, LoadTyped
<1>4. ASSUME NEW v \in Versions, LoadInitial(v) \/ UnloadListed(v) PROVE LoadTyped'
  BY <1>3, <1>4, MainThread DEF LoadInitial, UnloadListed
<1>5. ASSUME NEW v \in Versions, PollLoad(v) \/ PollUnload(v) PROVE LoadTyped'
  BY <1>2, <1>3, <1>5, MainThread DEF PollLoad, PollUnload, PollStep, loadVars
<1>6. ASSUME NEW t \in Callers, NEW v \in Versions, NEW op \in {"load", "unload"}, Command(t, v, op)
      PROVE  LoadTyped'
  BY <1>3, <1>6, MainThread DEF Command
<1>7. ASSUME Signal PROVE LoadTyped'
  <2>1. CASE UNCHANGED loadVars
    BY <1>2, <2>1
  <2>2. CASE /\ Return("main") /\ stop' = stop
             /\ mine' = [mine EXCEPT !["main"] = IF @ = "table" THEN "none" ELSE @]
    <3>1. /\ mine' \in [Threads -> Processes \cup {"table"}] /\ mine'["main"] # "table"
          /\ \A s \in Threads : s # "main" => mine'[s] = mine[s]
      BY <1>1, <2>2, MainThread DEF LoadTyped, Processes
    <3>2. stop' \in [Threads -> BOOLEAN] /\ "idle" \in Steps
      BY <1>1, <2>2 DEF LoadTyped, Steps
    <3> QED BY <1>1, <2>2, <3>1, <3>2, MainThread, MoveTyped DEF Return, Enter
  <2> QED BY <1>7, <2>1, <2>2 DEF Signal
<1>8. ASSUME WorkerUp \/ WorkerEnds PROVE LoadTyped'
  <2>1. UNCHANGED <<pc, ver>>
    BY <1>8 DEF WorkerUp, WorkerEnds
  <2>2. \/ mine' = mine
        \/ \E t \in Threads, p \in {"up", "gone"} : mine' = [mine EXCEPT ![t] = p]
    BY <1>8 DEF WorkerUp, WorkerEnds
  <2>3. stop' = stop \/ \E t \in Threads : stop' = [stop EXCEPT ![t] = FALSE]
    BY <1>8 DEF WorkerUp, WorkerEnds
  <2>4. /\ mine' \in [Threads -> Processes \cup {"table"}]
        /\ \A s \in Threads : mine'[s] = "table" => mine[s] = "table"
    BY <1>1, <2>2 DEF LoadTyped, Processes
  <2>5. stop' \in [Threads -> BOOLEAN]
    BY <1>1, <2>3 DEF LoadTyped
  <2> QED BY <1>1, <2>1, <2>4, <2>5 DEF LoadTyped
<1>9. ASSUME Main, ~ \E v \in Versions : LoadInitial(v) \/ UnloadListed(v) PROVE LoadTyped'
  BY <1>2, <1>9 DEF Main, ListInitial, StartServices, StartHttp, SetDone, ListLoaded, ReapWorkers,
                    CloseManager, FinishShutdown, Finalize, Exit, TerminateHttpWorker
<1>10. ASSUME \/ StopServing \/ PollSleep \/ PollScan \/ PollCompare \/ PollDone
              \/ \E w \in HttpWorkers : HttpWorkerEnds(w)
              \/ \E v \in Versions : ChangeDisk(v)
       PROVE  LoadTyped'
  BY <1>2, <1>10 DEF StopServing, PollSleep, PollScan, PollCompare, PollDone, HttpWorkerEnds,
                     ChangeDisk
<1>11. CASE UNCHANGED vars
  BY <1>2, <1>11 DEF vars
<1> QED BY <1>4, <1>5, <1>6, <1>7, <1>8, <1>9, <1>10, <1>11, ManagerLoadTyped DEF Next, Poll

LEMMA MainStep == Typed /\ [Next]_vars => MainTyped'
<1> SUFFICES ASSUME Typed, [Next]_vars PROVE MainTyped'
  OBVIOUS
<1>1. MainTyped /\ StoreTyped
  BY DEF Typed
<1>2. CASE UNCHANGED <<mainVars, interrupted>>
  BY <1>1, <1>2 DEF mainVars, MainTyped
<1>3. ASSUME NEW t \in Threads, ManagerStep(t) PROVE MainTyped'
  <2>1. /\ UNCHANGED <<todo, event, uvicorn, done, http, interrupted>>
        /\ phase' = phase \/ phase' = "exiting"
    <3>1. CASE LoadEnter(t) \/ LoadPublish(t) \/ LoadFinish(t) \/ UnloadTerminate(t)
      BY <3>1 DEF LoadEnter, LoadPublish, LoadFinish, UnloadTerminate, mainVars, boundVars
    <3>2. CASE LoadRegister(t) \/ LoadLaunch(t) \/ LoadFails(t) \/ UnloadSection(t)
      BY <3>2 DEF LoadRegister, LoadLaunch, LoadFails, UnloadSection, Raise, mainVars, boundVars
    <3> QED BY <1>3, <3>1, <3>2 DEF ManagerStep
  <2> QED BY <1>1, <2>1 DEF MainTyped
<1>4. ASSUME ListInitial \/ ListLoaded PROVE MainTyped'
  <2>1. InitialVersions \subseteq Versions /\ Entries \subseteq Versions
    BY <1>1 DEF InitialVersions, Entries, StoreTyped
  <2> QED BY <1>1, <1>4, <2>1 DEF ListInitial, ListLoaded, MainTyped, boundVars
<1>5. ASSUME NEW v \in Versions, LoadInitial(v) \/ UnloadListed(v) PROVE MainTyped'
  BY <1>1, <1>5 DEF LoadInitial, UnloadListed, MainTyped, boundVars
<1>6. ASSUME StartServices \/ StopServing \/ SetDone \/ ReapWorkers \/ CloseManager
             \/ Finalize \/ Exit
      PROVE  MainTyped'
  BY <1>1, <1>6 DEF StartServices, StopServing, SetDone, ReapWorkers, CloseManager, Finalize, Exit,
                    MainTyped, boundVars
<1>7. ASSUME StartHttp PROVE MainTyped'
  <2>1. config.multi \in BOOLEAN
    BY <1>1, ConfigTyped DEF StoreTyped
  <2> QED BY <1>1, <1>7, <2>1 DEF StartHttp, MainTyped, boundVars
<1>8. ASSUME FinishShutdown PROVE MainTyped'
  <2>1. (event \/ (uvicorn /\ signals > 0)) \in BOOLEAN
    OBVIOUS
  <2> QED BY <1>1, <1>8, <2>1 DEF FinishShutdown, MainTyped, boundVars
<1>9. ASSUME NEW w \in HttpWorkers, TerminateHttpWorker(w) \/ HttpWorkerEnds(w) PROVE MainTyped'
  BY <1>1, <1>9 DEF TerminateHttpWorker, HttpWorkerEnds, MainTyped, boundVars
<1>10. ASSUME Signal PROVE MainTyped'
  <2>1. /\ UNCHANGED <<todo, uvicorn, done, http>>
        /\ event' = (event \/ ~uvicorn)
        /\ interrupted' = (interrupted \/ (~uvicorn /\ (phase = "acquire" \/ ShuttingDown)))
    BY <1>10 DEF Signal
  <2>2. event' \in BOOLEAN /\ interrupted' \in BOOLEAN
    BY <2>1
  <2>3. phase' \in {phase, "acquire", "locked", "exiting", "exited"}
    BY <1>10 DEF Signal
  <2> QED BY <1>1, <2>1, <2>2, <2>3 DEF MainTyped
<1>11. ASSUME \/ Poll \/ WorkerUp \/ WorkerEnds \/ \E v \in Versions : ChangeDisk(v)
              \/ \E t \in Callers, v \in Versions, op \in {"load", "unload"} : Command(t, v, op)
       PROVE  MainTyped'
  BY <1>2, <1>11 DEF Poll, PollSleep, PollScan, PollCompare, PollDone, PollLoad, PollUnload,
                     WorkerUp, WorkerEnds, ChangeDisk, Command, boundVars
<1>12. CASE UNCHANGED vars
  BY <1>2, <1>12 DEF vars, boundVars
<1> QED BY <1>3, <1>4, <1>5, <1>6, <1>7, <1>8, <1>9, <1>10, <1>11, <1>12 DEF Next, Main

LEMMA PollTypedStep == Typed /\ [Next]_vars => PollTyped'
<1> SUFFICES ASSUME Typed, [Next]_vars PROVE PollTyped'
  OBVIOUS
<1>1. PollTyped /\ StoreTyped
  BY DEF Typed
<1>2. CASE UNCHANGED <<pollVars, changes, signals>>
  BY <1>1, <1>2 DEF pollVars, PollTyped
<1>3. ASSUME NEW t \in Threads, ManagerStep(t) PROVE PollTyped'
  <2>1. UNCHANGED <<seen, missing, changes, signals>> /\ (poll' = poll \/ poll' = "dead")
    <3>1. CASE LoadEnter(t) \/ LoadPublish(t) \/ LoadFinish(t) \/ UnloadTerminate(t)
      BY <3>1 DEF LoadEnter, LoadPublish, LoadFinish, UnloadTerminate, pollVars, boundVars
    <3>2. CASE LoadRegister(t) \/ LoadLaunch(t) \/ LoadFails(t) \/ UnloadSection(t)
      BY <3>2 DEF LoadRegister, LoadLaunch, LoadFails, UnloadSection, Raise, pollVars, boundVars
    <3> QED BY <1>3, <3>1, <3>2 DEF ManagerStep
  <2> QED BY <1>1, <2>1 DEF PollTyped
<1>4. ASSUME Poll PROVE PollTyped'
  <2>1. /\ UNCHANGED <<changes, signals>>
        /\ poll' \in {poll, "sleep", "scan", "compare", "loads", "stopped", "dead"}
    BY <1>4 DEF Poll, PollSleep, PollScan, PollCompare, PollDone, PollLoad, PollUnload, boundVars
  <2>2. seen' \subseteq seen \cup disk /\ missing' \subseteq missing \cup Entries
    BY <1>4 DEF Poll, PollSleep, PollScan, PollCompare, PollDone, PollLoad, PollUnload
  <2>3. Entries \subseteq Versions /\ disk \subseteq Versions
    BY <1>1 DEF Entries, StoreTyped
  <2> QED BY <1>1, <2>1, <2>2, <2>3 DEF PollTyped
<1>5. ASSUME StartServices PROVE PollTyped'
  BY <1>1, <1>5 DEF StartServices, PollTyped, boundVars
<1>6. ASSUME \/ \E v \in Versions : ChangeDisk(v)
             \/ \E t \in Callers, v \in Versions, op \in {"load", "unload"} : Command(t, v, op)
      PROVE  PollTyped'
  <2>1. UNCHANGED <<pollVars, signals>> /\ changes < MaxChanges /\ changes' = changes + 1
    BY <1>6 DEF ChangeDisk, Command
  <2>2. changes' \in 0 .. MaxChanges
    BY <1>1, <2>1, ServerAssumption DEF PollTyped
  <2> QED BY <1>1, <2>1, <2>2 DEF PollTyped, pollVars
<1>7. ASSUME Signal PROVE PollTyped'
  <2>1. UNCHANGED <<pollVars, changes>> /\ signals < MaxSignals /\ signals' = signals + 1
    BY <1>7 DEF Signal
  <2>2. signals' \in 0 .. MaxSignals
    BY <1>1, <2>1, ServerAssumption DEF PollTyped
  <2> QED BY <1>1, <2>1, <2>2 DEF PollTyped, pollVars
<1>8. ASSUME \/ Main /\ ~ StartServices
             \/ StopServing \/ WorkerUp \/ WorkerEnds \/ \E w \in HttpWorkers : HttpWorkerEnds(w)
       PROVE  PollTyped'
  BY <1>2, <1>8 DEF Main, ListInitial, StartHttp, SetDone, ListLoaded, ReapWorkers, CloseManager,
                    FinishShutdown, Finalize, Exit, LoadInitial, UnloadListed, TerminateHttpWorker,
                    StopServing, WorkerUp, WorkerEnds, HttpWorkerEnds, boundVars
<1>9. CASE UNCHANGED vars
  BY <1>2, <1>9 DEF vars, boundVars
<1> QED BY <1>3, <1>4, <1>5, <1>6, <1>7, <1>8, <1>9 DEF Next

LEMMA TypedInvariance == Spec => []Typed
<1>1. Typed /\ [Next]_vars => Typed'
  BY StoreStep, LoadStep, MainStep, PollTypedStep DEF Typed
<1> QED BY <1>1, InitTyped, PTL DEF Spec

\* Whatever the threads, signals and commands do, every variable keeps its type; no load
\* and no unload runs without a version (LightServer.run, shutdown, _poll_repository).
THEOREM ServerTypeCorrect == Spec => []TypeOK
<1>1. Typed => TypeOK
  BY DEF Typed, StoreTyped, LoadTyped, MainTyped, PollTyped, TypeOK, Steps
<1> QED BY <1>1, TypedInvariance, PTL

-----------------------------------------------------------------------------
(* Start-up and the first passes of the poller                             *)

Early == {"list", "load", "http", "serving"}

\* What PollAgreesWithStartup is about: nobody has changed anything, and the server has
\* not begun to shut down.
Calm ==
    /\ config.listed /\ config.max >= Cardinality(Versions) /\ changes = 0
    /\ phase \in Early

\* Only the main thread loads, and only what start-up has listed.
Starting ==
    /\ \A t \in Callers \cup {"poller"} : pc[t] = "idle"
    /\ pc["main"] \notin {"unload", "terminate"}
    /\ pc["main"] # "idle" => phase = "load" /\ ver["main"] \in InitialVersions
    /\ pc["main"] \in {"launch", "publish", "wait"} => ver["main"] \in Entries
    /\ Entries \subseteq InitialVersions
    /\ \A v \in held : v \in Entries \/ (pc["main"] = "register" /\ ver["main"] = v)

\* What start-up has listed is loaded, being loaded, or still to be loaded.
Progressing ==
    /\ phase = "load" =>
          /\ todo \subseteq InitialVersions
          /\ \A v \in InitialVersions :
                \/ v \in Entries \cup todo
                \/ pc["main"] \in {"load", "register"} /\ ver["main"] = v
    /\ phase \in {"http", "serving"} => InitialVersions \subseteq Entries

\* A pass of the poller finds nothing to load and nothing to unload.
Confirming ==
    /\ phase \in {"list", "load"} => poll = "off"
    /\ poll = "compare" => seen = disk
    /\ poll = "loads" => seen \subseteq disk \ Entries /\ missing = {}

StartUp == Calm => Starting /\ Progressing /\ Confirming

LEMMA InitStartUp == Init => StartUp
<1> SUFFICES ASSUME Init PROVE Starting /\ Progressing /\ Confirming
  BY DEF StartUp
<1>1. \A t \in Threads : pc[t] = "idle"
  BY DEF Init
<1>2. Entries = {} /\ held = {} /\ phase = "list" /\ poll = "off"
  BY DEF Init, Entries
<1> QED BY <1>1, <1>2, MainThread DEF Starting, Progressing, Confirming

LEMMA InitialOnDisk == InitialVersions \subseteq disk
BY DEF InitialVersions

\* _load_initial_models and _poll_repository read a strategy alike.
LEMMA StrategiesAgree ==
    ASSUME config.listed, NEW v \in disk, PollWants(v, disk)
    PROVE  v \in InitialVersions
BY DEF PollWants, InitialVersions

LEMMA CalmBefore ==
    ASSUME Typed, [Next]_vars, Calm'
    PROVE  /\ Calm /\ changes' = changes /\ config' = config /\ disk' = disk
           /\ InitialVersions' = InitialVersions
<1>1. changes \in Nat /\ phase \in Early \cup {"acquire", "workers", "unload", "close", "rest",
                                           "exiting", "joining", "exited", "locked"}
  BY ServerAssumption DEF Typed, PollTyped, MainTyped, Early
<1>2. ~ \E v \in Versions : ChangeDisk(v)
  BY <1>1 DEF ChangeDisk, Calm
<1>3. ~ \E t \in Callers, v \in Versions, op \in {"load", "unload"} : Command(t, v, op)
  BY <1>1 DEF Command, Calm
<1>4. ASSUME NEW t \in Threads, ManagerStep(t)
      PROVE  UNCHANGED <<changes, config, disk>> /\ (phase' = phase \/ phase' = "exiting")
  <2>1. CASE LoadEnter(t) \/ LoadPublish(t) \/ LoadFinish(t) \/ UnloadTerminate(t)
    BY <2>1 DEF LoadEnter, LoadPublish, LoadFinish, UnloadTerminate, mainVars, boundVars
  <2>2. CASE LoadRegister(t) \/ LoadLaunch(t) \/ LoadFails(t) \/ UnloadSection(t)
    BY <2>2 DEF LoadRegister, LoadLaunch, LoadFails, UnloadSection, Raise, mainVars, boundVars
  <2> QED BY <1>4, <2>1, <2>2 DEF ManagerStep
<1>5. ASSUME Main
      PROVE  UNCHANGED <<changes, config, disk>> /\ (phase' \in Early => phase \in Early)
  BY <1>5 DEF Main, ListInitial, StartServices, StartHttp, SetDone, ListLoaded, ReapWorkers,
              CloseManager, FinishShutdown, Finalize, Exit, LoadInitial, UnloadListed,
              TerminateHttpWorker, boundVars, Early
<1>6. ASSUME Signal
      PROVE  UNCHANGED <<changes, config, disk>> /\ (phase' \in Early => phase \in Early)
  <2>1. UNCHANGED <<changes, config, disk>> /\ phase' \in {phase, "acquire", "locked", "exiting", "exited"}
    BY <1>6 DEF Signal
  <2> QED BY <2>1 DEF Early
<1>7. ASSUME \/ StopServing \/ Poll \/ WorkerUp \/ WorkerEnds
             \/ \E w \in HttpWorkers : HttpWorkerEnds(w)
      PROVE  UNCHANGED <<changes, config, disk>> /\ (phase' \in Early => phase \in Early)
  BY <1>7 DEF StopServing, Poll, PollSleep, PollScan, PollCompare, PollDone, PollLoad, PollUnload,
              WorkerUp, WorkerEnds, HttpWorkerEnds, mainVars, boundVars, Early
<1>8. UNCHANGED <<changes, config, disk>> /\ (phase' \in Early => phase \in Early)
  <2>1. CASE UNCHANGED vars
    BY <2>1 DEF vars, mainVars, boundVars
  <2>2. CASE \E t \in Threads : phase # "exited" /\ ManagerStep(t)
    BY <1>4, <2>2 DEF Early
  <2> QED BY <1>2, <1>3, <1>5, <1>6, <1>7, <2>1, <2>2 DEF Next
<1>9. InitialVersions' = InitialVersions
  BY <1>8 DEF InitialVersions, Newest
<1> QED BY <1>8, <1>9 DEF Calm

\* Steps that touch nothing of this.
LEMMA StartUpFrame ==
    ASSUME Starting, Progressing, Confirming, InitialVersions' = InitialVersions,
           UNCHANGED <<disk, entry, held, pc, ver, phase, todo, poll, seen, missing>>
    PROVE  (Starting /\ Progressing /\ Confirming)'
<1>1. Entries' = Entries
  BY DEF Entries
<1> QED BY <1>1 DEF Starting, Progressing, Confirming

\* The loads of start-up.
LEMMA StartUpLoad ==
    ASSUME Typed, Calm, Calm', Starting, Progressing, Confirming,
           InitialVersions' = InitialVersions, disk' = disk,
           NEW t \in Threads, ManagerStep(t)
    PROVE  (Starting /\ Progressing /\ Confirming)'
<1>1. /\ entry \in [Versions -> {"absent", "LOADING", "READY", "ERROR"}]
      /\ pc \in [Threads -> Steps] /\ ver \in [Threads -> Versions \cup {NoVersion}]
      /\ held \subseteq Versions
  BY DEF Typed, StoreTyped, LoadTyped
<1>2. t = "main" /\ pc["main"] # "idle"
  <2>1. pc[t] # "idle"
    BY DEF ManagerStep, LoadEnter, LoadRegister, LoadLaunch, LoadPublish, LoadFinish, LoadFails,
           UnloadSection, UnloadTerminate
  <2> QED BY <2>1 DEF Starting, Threads
<1> DEFINE m == "main"
           v == ver[m]
<1>3. /\ phase = "load" /\ v \in InitialVersions /\ v \in Versions /\ v \in disk
      /\ pc[m] \notin {"unload", "terminate"} /\ poll = "off" /\ m \in Threads
      /\ \A s \in Callers \cup {"poller"} : s # m /\ s \in Threads
  BY <1>1, <1>2, InitialOnDisk, ServerAssumption DEF Starting, Confirming, Threads, Typed, LoadTyped
<1>4. phase' # "exiting" /\ phase' \in Early
  BY DEF Calm, Early
<1>5. ASSUME NEW V, Entries' = Entries \cup V, V \subseteq {v},
             \A w \in held' : w \in Entries' \/ (pc'[m] = "register" /\ ver'[m] = w),
             UNCHANGED <<phase, todo, poll>>,
             \/ Return(m)
             \/ pc[m] = "load" /\ Goto(m, "register")
             \/ v \in Entries' /\ \E step \in {"launch", "publish", "wait"} : Goto(m, step),
             v \in Entries' \/ pc'[m] = "register"
      PROVE  (Starting /\ Progressing /\ Confirming)'
  <2>1. /\ \A s \in Threads : s # m => pc'[s] = pc[s]
        /\ pc'[m] \in {"idle", "register", "launch", "publish", "wait"}
        /\ pc'[m] # "idle" => ver'[m] = v
        /\ pc'[m] \in {"launch", "publish", "wait"} => v \in Entries'
    BY <1>1, <1>3, <1>5 DEF Return, Enter, Goto
  <2>2. Starting'
    BY <1>3, <1>5, <2>1 DEF Starting
  <2>3. Progressing'
    BY <1>3, <1>5, <2>1 DEF Progressing
  <2>4. Confirming'
    BY <1>3, <1>5 DEF Confirming
  <2> QED BY <2>2, <2>3, <2>4
<1>6. CASE LoadEnter(m)
  <2>1. /\ pc[m] = "load" /\ UNCHANGED <<entry, phase, todo, poll>>
        /\ \/ v \in held /\ Return(m) /\ held' = held
           \/ Goto(m, "register") /\ held' = held \cup {v}
    BY <1>6 DEF LoadEnter, mainVars, pollVars
  <2>2. Entries' = Entries \cup {}
    BY <2>1 DEF Entries
  <2>3. \A w \in held : w \in Entries
    BY <2>1 DEF Starting
  <2>4. Goto(m, "register") => pc'[m] = "register" /\ ver'[m] = v
    BY <1>1, <1>3 DEF Goto
  <2>5. \A w \in held' : w \in Entries' \/ (pc'[m] = "register" /\ ver'[m] = w)
    BY <2>1, <2>2, <2>3, <2>4
  <2>6. v \in Entries' \/ pc'[m] = "register"
    BY <2>1, <2>2, <2>3, <2>4
  <2> QED BY <1>5, <2>1, <2>2, <2>5, <2>6
<1>7. CASE LoadRegister(m)
  <2>1. ~ Raise(m)
    BY <1>4 DEF Raise
  <2>2. /\ pc[m] = "register" /\ Goto(m, "launch") /\ held' = held
        /\ entry' = [entry EXCEPT ![v] = "LOADING"] /\ UNCHANGED <<phase, todo, poll>>
    BY <1>3, <1>7, <2>1 DEF LoadRegister, mainVars, pollVars
  <2>3. Entries' = Entries \cup {v}
    BY <1>1, <1>3, <2>2 DEF Entries
  <2>4. \A w \in held' : w \in Entries'
    BY <2>2, <2>3 DEF Starting
  <2> QED BY <1>5, <2>2, <2>3, <2>4
<1>8. ASSUME pc[m] \in {"launch", "publish", "wait"}, Entries' = Entries,
             held' \subseteq held \cup {v}, UNCHANGED <<phase, todo, poll>>,
             Return(m) \/ \E step \in {"launch", "publish", "wait"} : Goto(m, step)
      PROVE  (Starting /\ Progressing /\ Confirming)'
  <2>1. v \in Entries /\ \A w \in held : w \in Entries
    BY <1>8 DEF Starting
  <2>2. Entries' = Entries \cup {}
    BY <1>8
  <2>3. \A w \in held' : w \in Entries'
    BY <1>8, <2>1
  <2>4. v \in Entries'
    BY <1>8, <2>1
  <2> QED BY <1>5, <1>8, <2>2, <2>3, <2>4
<1>9. ASSUME NEW s, SetStatus(v, s), s # "absent" PROVE Entries' = Entries
  BY <1>1, <1>3, <1>9 DEF SetStatus, Entries
<1>10. CASE LoadLaunch(m)
  <2>1. ~ Raise(m)
    BY <1>4 DEF Raise
  <2>2. /\ pc[m] = "launch" /\ UNCHANGED <<phase, todo, poll>> /\ held' \subseteq held
        /\ entry' = entry \/ SetStatus(v, "ERROR")
        /\ Return(m) \/ Goto(m, "publish")
    BY <1>10, <2>1 DEF LoadLaunch, mainVars, pollVars
  <2>3. Entries' = Entries
    <3>1. CASE entry' = entry
      BY <3>1 DEF Entries
    <3> QED BY <1>9, <2>2, <3>1
  <2> QED BY <1>8, <2>2, <2>3
<1>11. CASE LoadPublish(m)
  <2>1. /\ pc[m] = "publish" /\ UNCHANGED <<entry, phase, todo, poll>> /\ held' \subseteq held \cup {v}
        /\ Return(m) \/ Goto(m, "wait")
    BY <1>11 DEF LoadPublish, mainVars, pollVars
  <2>2. Entries' = Entries
    BY <2>1 DEF Entries
  <2> QED BY <1>8, <2>1, <2>2
<1>12. CASE LoadFinish(m)
  <2>1. PICK reg : reg = IF entry[v] = "absent" THEN entry ELSE [entry EXCEPT ![v] = "READY"]
    OBVIOUS
  <2>2. PICK ready : ready = {w \in Versions : reg[w] = "READY"}
    OBVIOUS
  <2>3. PICK out : out = Evicted(ready)
    OBVIOUS
  <2>4. /\ UNCHANGED <<phase, todo, poll>> /\ Forget(out) /\ pc[m] = "wait" /\ Return(m)
        /\ entry' = [w \in Versions |-> IF w \in out THEN "absent" ELSE reg[w]]
    BY <1>12, <2>1, <2>2, <2>3 DEF LoadFinish, mainVars, pollVars
\* The limit is not exceeded, whatever is READY.
  <2>5. out = {}
    <3>1. ready \subseteq Versions /\ IsFiniteSet(Versions)
      BY <2>2, ServerAssumption
    <3>2. IsFiniteSet(ready) /\ Cardinality(ready) <= Cardinality(Versions)
      BY <3>1, FS_Subset
    <3>3. Cardinality(ready) \in Nat /\ Cardinality(Versions) \in Nat
      BY <3>1, <3>2, FS_CardinalityType
    <3>4. config.max \in Nat /\ config.max >= Cardinality(Versions)
      BY ConfigTyped DEF Calm, Typed, StoreTyped
    <3>5. Cardinality(ready) <= config.max
      BY <3>2, <3>3, <3>4
    <3> QED BY <2>3, <3>5 DEF Evicted
  <2>6. Entries' = Entries
    <3>1. \A w \in Versions : reg[w] = "absent" <=> entry[w] = "absent"
      BY <1>1, <1>3, <2>1
    <3>2. \A w \in Versions : entry'[w] = reg[w]
      BY <2>4, <2>5
    <3> QED BY <3>1, <3>2 DEF Entries
  <2>7. held' \subseteq held
    BY <2>4 DEF Forget
  <2> QED BY <1>8, <2>4, <2>6, <2>7
<1>13. CASE LoadFails(m)
  <2>1. ~ Raise(m)
    BY <1>4 DEF Raise
  <2>2. /\ pc[m] = "wait" /\ UNCHANGED <<phase, todo, poll, held>> /\ SetStatus(v, "ERROR")
        /\ Return(m)
    BY <1>13, <2>1 DEF LoadFails, mainVars, pollVars
  <2>3. Entries' = Entries
    BY <1>9, <2>2
  <2> QED BY <1>8, <2>2, <2>3
<1>14. ~ UnloadSection(m) /\ ~ UnloadTerminate(m)
  BY <1>3 DEF UnloadSection, UnloadTerminate
<1> QED BY <1>2, <1>6, <1>7, <1>10, <1>11, <1>12, <1>13, <1>14 DEF ManagerStep

LEMMA StartUpMain ==
    ASSUME Typed, Calm, Calm', Starting, Progressing, Confirming,
           InitialVersions' = InitialVersions, disk' = disk, Main
    PROVE  (Starting /\ Progressing /\ Confirming)'
<1>1. pc \in [Threads -> Steps] /\ ver \in [Threads -> Versions \cup {NoVersion}] /\ "main" \in Threads
  BY MainThread DEF Typed, LoadTyped
<1>2. phase \in Early /\ phase' \in Early
  BY DEF Calm
<1>3. CASE ListInitial
  <2>1. /\ phase = "list" /\ phase' = "load" /\ todo' = InitialVersions
        /\ UNCHANGED <<entry, held, pc, ver, poll, seen, missing>>
    BY <1>3 DEF ListInitial, storeVars, loadVars, pollVars
  <2>2. Entries' = Entries
    BY <2>1 DEF Entries
  <2> QED BY <2>1, <2>2 DEF Starting, Progressing, Confirming
<1>4. ASSUME NEW v \in Versions, LoadInitial(v)
      PROVE  (Starting /\ Progressing /\ Confirming)'
  <2>1. /\ phase = "load" /\ pc["main"] = "idle" /\ v \in todo /\ todo' = todo \ {v}
        /\ pc' = [pc EXCEPT !["main"] = "load"] /\ ver' = [ver EXCEPT !["main"] = v]
        /\ UNCHANGED <<entry, held, phase, poll, seen, missing>>
    BY <1>4 DEF LoadInitial, Enter, storeVars, pollVars
  <2>2. /\ pc'["main"] = "load" /\ ver'["main"] = v
        /\ \A s \in Threads : s # "main" => pc'[s] = pc[s]
    BY <1>1, <2>1
  <2>3. Entries' = Entries
    BY <2>1 DEF Entries
  <2>4. \A s \in Callers \cup {"poller"} : s # "main" /\ s \in Threads
    BY ServerAssumption DEF Threads
  <2>5. v \in InitialVersions
    BY <2>1 DEF Progressing
  <2>6. Starting'
    BY <2>1, <2>2, <2>3, <2>4, <2>5 DEF Starting
  <2>7. Progressing'
    BY <2>1, <2>2, <2>3 DEF Progressing
  <2>8. Confirming'
    BY <2>1, <2>3 DEF Confirming
  <2> QED BY <2>6, <2>7, <2>8
<1>5. CASE StartServices
  <2>1. /\ phase = "load" /\ pc["main"] = "idle" /\ todo = {} /\ phase' = "http"
        /\ poll' \in {"sleep", "off"}
        /\ UNCHANGED <<entry, held, pc, ver>>
    BY <1>5 DEF StartServices, loadVars
  <2>2. Entries' = Entries
    BY <2>1 DEF Entries
  <2> QED BY <2>1, <2>2 DEF Starting, Progressing, Confirming
<1>6. CASE StartHttp
  <2>1. /\ phase = "http" /\ phase' = "serving"
        /\ UNCHANGED <<entry, held, pc, ver, poll, seen, missing>>
    BY <1>6 DEF StartHttp, storeVars, loadVars, pollVars
  <2>2. Entries' = Entries
    BY <2>1 DEF Entries
  <2> QED BY <2>1, <2>2 DEF Starting, Progressing, Confirming
<1>7. /\ ~ SetDone /\ ~ ListLoaded /\ ~ ReapWorkers /\ ~ CloseManager /\ ~ FinishShutdown
      /\ ~ Finalize /\ ~ Exit
      /\ \A v \in Versions : ~ UnloadListed(v)
      /\ \A w \in HttpWorkers : ~ TerminateHttpWorker(w)
  BY <1>2 DEF Early, SetDone, ListLoaded, ReapWorkers, CloseManager, FinishShutdown, Finalize, Exit,
              UnloadListed, TerminateHttpWorker
<1> QED BY <1>3, <1>4, <1>5, <1>6, <1>7 DEF Main

LEMMA StartUpPoll ==
    ASSUME Typed, Calm, Starting, Progressing, Confirming,
           InitialVersions' = InitialVersions, disk' = disk, Poll
    PROVE  (Starting /\ Progressing /\ Confirming)'
<1>1. ASSUME UNCHANGED <<entry, held, pc, ver, phase, todo>>, Confirming'
      PROVE  (Starting /\ Progressing /\ Confirming)'
  <2>1. Entries' = Entries
    BY <1>1 DEF Entries
  <2> QED BY <1>1, <2>1 DEF Starting, Progressing
<1>2. ASSUME UNCHANGED <<entry, phase>>
      PROVE  Entries' = Entries /\ Entries \subseteq disk
  BY <1>2, InitialOnDisk DEF Entries, Starting
<1>3. CASE PollSleep
  <2>1. /\ poll = "sleep" /\ poll' \in {"stopped", "scan"}
        /\ UNCHANGED <<entry, held, pc, ver, phase, todo, seen, missing>>
    BY <1>3 DEF PollSleep, storeVars, loadVars, mainVars
  <2> QED BY <1>1, <2>1 DEF Confirming
<1>4. CASE PollScan
  <2>1. /\ poll = "scan" /\ poll' = "compare" /\ seen' = disk
        /\ UNCHANGED <<entry, held, pc, ver, phase, todo>>
    BY <1>4 DEF PollScan, storeVars, loadVars, mainVars
  <2> QED BY <1>1, <2>1 DEF Confirming
<1>5. CASE PollCompare
  <2>1. /\ poll = "compare" /\ poll' \in {"loads", "dead"}
        /\ seen' = seen \ Entries /\ missing' = Entries \ seen
        /\ UNCHANGED <<entry, held, pc, ver, phase, todo>>
    BY <1>5 DEF PollCompare, storeVars, loadVars, mainVars
  <2>2. seen = disk /\ Entries' = Entries /\ Entries \subseteq disk
    BY <1>2, <2>1 DEF Confirming
  <2>3. seen' \subseteq disk \ Entries /\ missing' = {}
    BY <2>1, <2>2
  <2> QED BY <1>1, <2>1, <2>2, <2>3 DEF Confirming
<1>6. ASSUME NEW v \in Versions, PollLoad(v) PROVE (Starting /\ Progressing /\ Confirming)'
  <2>1. poll = "loads" /\ v \in seen
    BY <1>6 DEF PollLoad
  <2>2. v \in disk \ Entries /\ InitialVersions \subseteq Entries
    BY <2>1 DEF Confirming, Progressing, Calm, Early
  <2>3. ~ PollWants(v, disk)
    BY <2>2, StrategiesAgree DEF Calm
  <2>4. /\ UNCHANGED <<entry, held, pc, ver, phase, todo, missing>>
        /\ seen' = seen \ {v} /\ poll' \in {poll, "dead"}
    BY <1>6, <2>3 DEF PollLoad, storeVars, mainVars
  <2>5. Entries' = Entries
    BY <2>4 DEF Entries
  <2> QED BY <1>1, <2>1, <2>4, <2>5 DEF Confirming
<1>7. ASSUME NEW v \in Versions, PollUnload(v) PROVE (Starting /\ Progressing /\ Confirming)'
  BY <1>7 DEF PollUnload, Confirming
<1>8. CASE PollDone
  <2>1. /\ poll = "loads" /\ poll' = "sleep"
        /\ UNCHANGED <<entry, held, pc, ver, phase, todo, seen, missing>>
    BY <1>8 DEF PollDone, storeVars, loadVars, mainVars
  <2> QED BY <1>1, <2>1 DEF Confirming
<1> QED BY <1>3, <1>4, <1>5, <1>6, <1>7, <1>8 DEF Poll

LEMMA StartUpStep == Typed /\ StartUp /\ [Next]_vars => StartUp'
<1> SUFFICES ASSUME Typed, StartUp, [Next]_vars, Calm'
             PROVE  (Starting /\ Progressing /\ Confirming)'
  BY DEF StartUp
<1>1. /\ Calm /\ changes' = changes /\ disk' = disk /\ InitialVersions' = InitialVersions
      /\ Starting /\ Progressing /\ Confirming
  BY CalmBefore DEF StartUp
<1>2. CASE UNCHANGED <<entry, held, pc, ver, phase, todo, poll, seen, missing>>
  BY <1>1, <1>2, StartUpFrame
<1>3. ASSUME Signal PROVE UNCHANGED <<entry, held, pc, ver, phase, todo, poll, seen, missing>>
  <2>1. phase \in Early /\ phase' \in Early
    BY <1>1 DEF Calm
  <2>2. /\ phase \notin {"acquire", "exiting", "joining"} /\ ~ ShuttingDown
        /\ phase' = IF uvicorn THEN IF phase = "serving" THEN "acquire" ELSE phase
                    ELSE CASE phase = "acquire" -> "locked"
                           [] ShuttingDown \/ phase = "exiting" -> "exiting"
                           [] phase = "joining" -> "exited"
                           [] OTHER -> "acquire"
    BY <1>3, <2>1 DEF Signal, Early, ShuttingDown
  <2>3. uvicorn /\ phase' = IF phase = "serving" THEN "acquire" ELSE phase
    <3>1. ~ uvicorn => phase' = "acquire"
      BY <2>2
    <3> QED BY <2>1, <2>2, <3>1 DEF Early
  <2>4. phase' = phase
    BY <2>1, <2>3 DEF Early
  <2> QED BY <1>3, <2>3, <2>4 DEF Signal, storeVars, loadVars, pollVars
<1>4. ~ StopServing
  BY DEF StopServing, Calm, Early
<1>5. ASSUME WorkerUp \/ WorkerEnds \/ \E w \in HttpWorkers : HttpWorkerEnds(w)
      PROVE  UNCHANGED <<entry, held, pc, ver, phase, todo, poll, seen, missing>>
  BY <1>5 DEF WorkerUp, WorkerEnds, HttpWorkerEnds, storeVars, loadVars, mainVars, pollVars
<1>6. CASE UNCHANGED vars
  BY <1>2, <1>6 DEF vars, storeVars, loadVars, mainVars, pollVars
<1>7. changes \in Nat
  BY ServerAssumption DEF Typed, PollTyped
<1>8. /\ ~ \E v \in Versions : ChangeDisk(v)
      /\ ~ \E t \in Callers, v \in Versions, op \in {"load", "unload"} : Command(t, v, op)
  BY <1>1, <1>7 DEF ChangeDisk, Command
<1> QED BY <1>1, <1>2, <1>3, <1>4, <1>5, <1>6, <1>8, StartUpLoad, StartUpMain, StartUpPoll DEF Next

\* As long as nobody changes anything, the first passes of the poller load and unload
\* nothing: _load_initial_models and _poll_repository, written apart, read a strategy
\* alike, in whatever configuration lists the model and does not exceed its limit.
THEOREM PollerConfirmsStartUp == Spec => []PollAgreesWithStartup
<1>1. StartUp => PollAgreesWithStartup
  BY DEF StartUp, Calm, Early, Starting, PollAgreesWithStartup
<1>2. Spec => []StartUp
  BY InitStartUp, StartUpStep, TypedInvariance, PTL DEF Spec
<1> QED BY <1>1, <1>2, PTL
================================================================================
