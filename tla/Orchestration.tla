----------------------------- MODULE Orchestration -----------------------------
(***************************************************************************)
(* The strategies of models in orchestration.yaml, as the web UI changes   *)
(* them (http/state.py, webui/routes.py, the admin loop of core/server.py, *)
(* ModelManager.get_orchestration and set_orchestration) while the poller  *)
(* reads them.                                                             *)
(*                                                                         *)
(* An app that is embedded in the server's process changes the file by     *)
(* itself, in one event loop; an HTTP worker process sends a command to    *)
(* the admin loop.                                                         *)
(***************************************************************************)
EXTENDS Naturals, FiniteSets

CONSTANTS
    Models,
    Strategies, \* what the file says of a model
    NoStrategy,
    MaxUpdates  \* bound: updates

ASSUME OrchestrationAssumption == NoStrategy \notin Strategies /\ MaxUpdates \in Nat

VARIABLES
    embedded,   \* is _model_manager set in the HTTPState?
    entries,    \* per model: its item of "models" in the file
    cut,        \* the file has been truncated and not been written since
    drafted,    \* what is being written
    update,     \* model and strategy of the update that is made, or NoUpdate
    updates,    \* bound
    poller,     \* the thread: "run" or "dead"
    view,       \* the strategies it has read last
    strategies, \* history: per model, the last strategy that was acknowledged
    failures    \* history: a write has failed, or a file could not be read

orchestrationVars == <<embedded, entries, cut, drafted, update, updates, poller, view,
                       strategies, failures>>

NoStrategies == [m \in Models |-> NoStrategy]

NoUpdate == <<>>

OrchestrationInit ==
    /\ embedded \in BOOLEAN
    /\ entries \in [Models -> Strategies \cup {NoStrategy}]
    /\ cut = FALSE
    /\ drafted = NoStrategies /\ update = NoUpdate /\ updates = 0
    /\ poller = "run" /\ view = NoStrategies
    /\ strategies = entries
    /\ failures = FALSE

-----------------------------------------------------------------------------
\* get_orchestration: an empty file is read as {}, a part of one as what there
\* is of it; or it cannot be parsed, and Unreadable.
Parts(f) == {[m \in Models |-> IF m \in S THEN f[m] ELSE NoStrategy] : S \in SUBSET Models}

GetOrchestration == IF cut THEN Parts(drafted) ELSE {entries}

Unreadable == cut

\* Variant with a bug: the other models are left out.
Merged_Alone(orch, m, s) == [NoStrategies EXCEPT ![m] = s]

\* The list of models without the model, and its strategy appended.
Merged(orch, m, s) == [orch EXCEPT ![m] = s]

\* set_orchestration opens the file, and so truncates it.
SetOrchestration(orch, m, s) ==
    /\ drafted' = orch /\ update' = <<m, s>> /\ cut' = TRUE
    /\ UNCHANGED failures

\* set_model_config: embedded, the file is read and merged; otherwise the
\* strategy is sent as it is, and has no item "models".
SetModelConfig(m, s) ==
    /\ update = NoUpdate /\ updates < MaxUpdates
    /\ updates' = updates + 1
    /\ \/ /\ embedded
          /\ \E orch \in GetOrchestration : SetOrchestration(Merged(orch, m, s), m, s)
       \/ /\ embedded /\ Unreadable
          /\ failures' = TRUE
          /\ UNCHANGED <<drafted, update, cut>>
       \/ ~embedded /\ SetOrchestration(NoStrategies, m, s)
    /\ UNCHANGED <<embedded, entries, poller, view, strategies>>

\* The new contents are written, the file is closed, and success is answered.
Written ==
    /\ update # NoUpdate
    /\ entries' = drafted /\ cut' = FALSE
    /\ strategies' = [strategies EXCEPT ![update[1]] = update[2]]
    /\ update' = NoUpdate
    /\ UNCHANGED <<embedded, drafted, updates, poller, view, failures>>

\* The dump raises: the answer is False, and the file stays as it is by then.
WriteFails ==
    /\ update # NoUpdate
    /\ update' = NoUpdate
    /\ failures' = TRUE
    /\ UNCHANGED <<embedded, entries, cut, drafted, updates, poller, view, strategies>>

\* _poll_repository reads the strategies; what is raised ends the thread.
PollReads ==
    /\ poller = "run"
    /\ \/ view' \in GetOrchestration /\ UNCHANGED poller
       \/ Unreadable /\ poller' = "dead" /\ UNCHANGED view
    /\ UNCHANGED <<embedded, entries, cut, drafted, update, updates, strategies, failures>>

OrchestrationNext ==
    \/ \E m \in Models, s \in Strategies : SetModelConfig(m, s)
    \/ Written \/ WriteFails \/ PollReads

OrchestrationSpec == OrchestrationInit /\ [][OrchestrationNext]_orchestrationVars

-----------------------------------------------------------------------------
(* Properties                                                              *)

OrchestrationTypeOK ==
    /\ {embedded, cut, failures} \subseteq BOOLEAN
    /\ {entries, drafted, view, strategies} \subseteq [Models -> Strategies \cup {NoStrategy}]
    /\ update = NoUpdate \/ update \in Models \X Strategies
    /\ updates \in 0 .. MaxUpdates
    /\ poller \in {"run", "dead"}

\* Through an embedded app, and as long as no write has failed: the file says of
\* every model what was last acknowledged, so that an update loses no other
\* model's; and while an update is made, it changes this model's strategy only
\* (set_model_config).
StrategiesKept ==
    embedded /\ ~failures =>
        /\ ~cut => entries = strategies
        /\ cut => \A m \in Models : m # update[1] => drafted[m] = strategies[m]
=============================================================================
