------------------------------- MODULE Ensemble -------------------------------
(***************************************************************************)
(* Ensembles (core/ensemble.py): the parser's validation of the DAG of     *)
(* steps, its layers, and the executor that runs a request through them.   *)
(*                                                                         *)
(* The steps of a layer run as coroutines of one event loop.  Each finds   *)
(* its sub-model ready or has it loaded, submits an inference request,     *)
(* registers an item for the response and waits for it.                    *)
(***************************************************************************)
EXTENDS Naturals, Sequences, FiniteSets, SequencesExt

CONSTANTS
    Steps,      \* names of the steps
    Unknown     \* a name that is no step's

\* parse refuses an ensemble without steps.
ASSUME EnsembleAssumption == IsFiniteSet(Steps) /\ Steps # {} /\ Unknown \notin Steps

VARIABLES
    sources,    \* config.yaml: the steps that each step refers to
    course,     \* of the request: see TypeOK
    left,       \* steps of the layers that have not ended
    layer,      \* steps of the layer that runs
    context,    \* steps whose result is in the context
    at,         \* per step: position of its coroutine
    items,      \* response buffer: steps with an item
    replies     \* per step: response stored in its item

execVars == <<course, left, layer, context>>
stepVars == <<at, items, replies>>
ensembleVars == <<sources, execVars, stepVars>>

-----------------------------------------------------------------------------
(* EnsembleParser                                                          *)

DegreesAtFirst == [s \in Steps |-> Cardinality(sources[s])]

\* One round of Kahn's algorithm: a step leaves the queue, and those that
\* depended on nothing else enter it.
KahnRound(k) ==
    LET node == Head(k.queue)
        degree == [s \in Steps |-> IF node \in sources[s] THEN k.degree[s] - 1 ELSE k.degree[s]]
        freed == {s \in Steps : node \in sources[s] /\ degree[s] = 0}
    IN [queue |-> Tail(k.queue) \o SetToSeq(freed), degree |-> degree, visited |-> k.visited + 1]

Kahn[n \in 0 .. Cardinality(Steps)] ==
    IF n = 0 THEN [queue |-> SetToSeq({s \in Steps : DegreesAtFirst[s] = 0}),
                   degree |-> DegreesAtFirst, visited |-> 0]
    ELSE IF Kahn[n - 1].queue = <<>> THEN Kahn[n - 1] ELSE KahnRound(Kahn[n - 1])

\* Variant with a bug: references are resolved, cycles are not looked for.
Valid_CyclesPass == \A s \in Steps : Unknown \notin sources[s]

\* _validate_dag: every reference resolves, and the rounds visit every step.
Valid ==
    /\ \A s \in Steps : Unknown \notin sources[s]
    /\ Kahn[Cardinality(Steps)].visited = Cardinality(Steps)

\* topological_layers: the next layer, when the steps R are left.
NextLayer(R) == {s \in R : sources[s] \cap R = {}}

-----------------------------------------------------------------------------
EnsembleInit ==
    /\ sources \in [Steps -> SUBSET (Steps \cup {Unknown})]
    /\ course = "parse"
    /\ left = {} /\ layer = {} /\ context = {}
    /\ at = [s \in Steps |-> "new"]
    /\ items = {}
    /\ replies = [s \in Steps |-> "none"]

Running == {s \in Steps : at[s] \notin {"new", "done", "failed", "cancelled"}}

MoveTo(s, position) == at' = [at EXCEPT ![s] = position]

\* The layer R is started: gather makes a task of every step.
Gather(R) ==
    /\ layer' = R
    /\ at' = [s \in Steps |-> IF s \in R THEN "started" ELSE at[s]]

\* The version is loaded, or refused with EnsembleParserError.
Parse ==
    /\ course = "parse"
    /\ course' = IF Valid THEN "loaded" ELSE "refused"
    /\ UNCHANGED <<sources, left, layer, context, stepVars>>

\* execute: a request comes.  Without a layer to begin with it would fail.
Execute ==
    /\ course = "loaded"
    /\ \/ /\ NextLayer(Steps) # {}
          /\ course' = "running" /\ left' = Steps
          /\ Gather(NextLayer(Steps))
       \/ /\ NextLayer(Steps) = {}
          /\ course' = "failed" /\ UNCHANGED <<left, layer, at>>
    /\ UNCHANGED <<sources, context, items, replies>>

\* submit_infer refuses (not ready, queue full) or queues the request.
SubmitStep(s) ==
    \/ MoveTo(s, "failed") /\ UNCHANGED items
    \/ MoveTo(s, "waiting") /\ items' = items \cup {s}

\* The inputs resolve against the context, or a field is missing in a result.
\* The sub-model is ready, or its load is awaited.
StartStep(s) ==
    /\ at[s] = "started"
    /\ \/ SubmitStep(s)
       \/ MoveTo(s, "loading") /\ UNCHANGED items
    /\ UNCHANGED <<sources, execVars, replies>>

\* load_model returns True, and a sleep follows; or False, or it raises.
StepLoaded(s) ==
    /\ at[s] = "loading"
    /\ \/ MoveTo(s, "sleeping") /\ UNCHANGED items
       \/ SubmitStep(s)
    /\ UNCHANGED <<sources, execVars, replies>>

StepSlept(s) ==
    /\ at[s] = "sleeping"
    /\ SubmitStep(s)
    /\ UNCHANGED <<sources, execVars, replies>>

\* The response consumer finds the item.
StepReply(s) ==
    /\ s \in items /\ replies[s] = "none"
    /\ \E status \in {"OK", "ERROR"} : replies' = [replies EXCEPT ![s] = status]
    /\ UNCHANGED <<sources, execVars, at, items>>

\* The response buffer is full and drops the item, its oldest.
DropItem(s) ==
    /\ s \in items
    /\ items' = items \ {s}
    /\ UNCHANGED <<sources, execVars, at, replies>>

\* Variant with a bug: the item of an erroneous response is left.
StepWakes_ErrorLeaves(s) ==
    /\ at[s] = "waiting" /\ replies[s] # "none"
    /\ items' = IF replies[s] = "OK" THEN items \ {s} ELSE items
    /\ MoveTo(s, IF s \in items /\ replies[s] = "OK" THEN "done" ELSE "failed")
    /\ UNCHANGED <<sources, execVars, replies>>

\* The step takes its response; pop raises if the item has been dropped.
StepWakes(s) ==
    /\ at[s] = "waiting" /\ replies[s] # "none"
    /\ items' = items \ {s}
    /\ MoveTo(s, IF s \in items /\ replies[s] = "OK" THEN "done" ELSE "failed")
    /\ UNCHANGED <<sources, execVars, replies>>

StepTimesOut(s) ==
    /\ at[s] = "waiting" /\ replies[s] = "none"
    /\ items' = items \ {s}
    /\ MoveTo(s, "failed")
    /\ UNCHANGED <<sources, execVars, replies>>

\* gather returns when every step of the layer has ended, also if some failed.
\* Results go into the context; the result of the last step of the
\* configuration is the response.
EndLayer ==
    /\ course = "running" /\ layer \cap Running = {}
    /\ left' = left \ layer
    /\ IF \E s \in layer : at[s] = "failed"
       THEN course' = "failed" /\ UNCHANGED <<context, layer, at>>
       ELSE /\ context' = context \cup layer
            /\ IF left' = {} THEN course' = "answered" /\ UNCHANGED <<layer, at>>
               ELSE UNCHANGED course /\ Gather(NextLayer(left'))
    /\ UNCHANGED <<sources, items, replies>>

\* The request's task is cancelled, and with it the steps that run; those that
\* wait for a response drop their items.
CancelRequest ==
    /\ course = "running"
    /\ course' = "cancelled"
    /\ at' = [s \in Steps |-> IF s \in Running THEN "cancelled" ELSE at[s]]
    /\ items' = items \ Running
    /\ UNCHANGED <<sources, left, layer, context, replies>>

EnsembleNext ==
    \/ Parse \/ Execute \/ EndLayer \/ CancelRequest
    \/ \E s \in Steps :
          \/ StartStep(s) \/ StepLoaded(s) \/ StepSlept(s)
          \/ StepReply(s) \/ DropItem(s) \/ StepWakes(s) \/ StepTimesOut(s)

EnsembleSpec == EnsembleInit /\ [][EnsembleNext]_ensembleVars

-----------------------------------------------------------------------------
(* Properties                                                              *)

EnsembleTypeOK ==
    /\ sources \in [Steps -> SUBSET (Steps \cup {Unknown})]
    /\ course \in {"parse", "refused", "loaded", "running", "answered", "failed", "cancelled"}
    /\ layer \subseteq Steps /\ left \subseteq Steps /\ context \subseteq Steps
    /\ at \in [Steps -> {"new", "started", "loading", "sleeping", "waiting", "done",
                         "failed", "cancelled"}]
    /\ items \subseteq Steps
    /\ replies \in [Steps -> {"none", "OK", "ERROR"}]

Acyclic == \A S \in (SUBSET Steps) \ {{}} : \E s \in S : sources[s] \cap S = {}

\* The parser refuses exactly the ensembles that cannot be run: a step refers
\* to an unknown step, or some steps all wait for one another.  What passes is
\* run without running out of layers; a step runs only when the results of all
\* its sources are in the context; a failure starts no further layer; and a
\* request that has ended, in whatever way, has no step that still runs and no
\* item in the buffer (_validate_dag, topological_layers, execute).
EnsembleSettles ==
    /\ course # "parse" =>
          (course = "refused" <=> (~Acyclic \/ \E s \in Steps : Unknown \in sources[s]))
    /\ course = "running" => layer # {}
    /\ \A s \in Steps : at[s] # "new" => sources[s] \subseteq context
    /\ course = "answered" => \A s \in Steps : at[s] = "done" /\ s \in context
    /\ course = "failed" => \E s \in Steps : at[s] = "failed"
    /\ course \in {"answered", "failed", "cancelled"} => Running = {} /\ items = {}
=============================================================================
