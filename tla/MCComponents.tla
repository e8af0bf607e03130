----------------------------- MODULE MCComponents -----------------------------
(***************************************************************************)
(* Seven components that share no state, on small instances, in one run:   *)
(* part says which of them a behaviour is about, the others stay in an     *)
(* initial state.                                                          *)
(***************************************************************************)
EXTENDS Ensemble, Artifacts, Benchmark, FrontEnd, Loader, Logging, Orchestration, TLC

CONSTANTS s1, s2, s3, v1, v2, k1, t1, t2, c1, c2, x1, x2, d1, d2, i1, i2, p1, h1, h2,
          m1, m2, high, low

VARIABLE part

\* Two versions of an artifact model, in path order.
MCFiles == <<v1, v2>>

\* A fixed run, a ramp that doubles, a ramp that starts above its maximum and is
\* cut down to it, a ramp without time, and a fixed run of streams.
MCPlans ==
    {[mode |-> "fixed", streaming |-> FALSE, concurrency |-> 2, max |-> 2, duration |-> 2],
     [mode |-> "ramp", streaming |-> FALSE, concurrency |-> 1, max |-> 2, duration |-> 2],
     [mode |-> "ramp", streaming |-> FALSE, concurrency |-> 2, max |-> 1, duration |-> 2],
     [mode |-> "ramp", streaming |-> FALSE, concurrency |-> 2, max |-> 2, duration |-> 0],
     [mode |-> "fixed", streaming |-> TRUE, concurrency |-> 1, max |-> 1, duration |-> 2]}

MCMaxLogged == (Parent :> 2) @@ (p1 :> 1)

\* Calls are alike: of two behaviours in which they are exchanged one is enough.
KindsInOrder ==
    LET order == <<"infer", "socket", "predict", "stream", "bidirectional">> IN
    \E i \in 1 .. 5 : \E j \in i .. 5 : kind[c1] = order[i] /\ kind[c2] = order[j]

Init ==
    /\ part \in {"ensemble", "artifacts", "benchmark", "frontend", "loader", "logging",
                 "orchestration"}
    /\ EnsembleInit /\ (part # "ensemble" => sources = [s \in Steps |-> {}])
    /\ ArtifactsInit
    /\ BenchmarkInit /\ (part # "benchmark" => plan = CHOOSE p \in Plans : TRUE)
    /\ FrontEndInit /\ KindsInOrder
                    /\ (part # "frontend" => /\ kind = [c \in Calls |-> "infer"]
                                              /\ asked = [c \in Calls |-> Anon])
    /\ LoaderInit
    /\ LoggingInit
    /\ OrchestrationInit /\ (part # "orchestration" => /\ embedded
                                                       /\ entries = NoStrategies)

Next ==
    \/ /\ part = "ensemble" /\ EnsembleNext
       /\ UNCHANGED <<part, artifactVars, benchmarkVars, frontEndVars, loaderVars, loggingVars,
                      orchestrationVars>>
    \/ /\ part = "artifacts" /\ ArtifactsNext
       /\ UNCHANGED <<part, ensembleVars, benchmarkVars, frontEndVars, loaderVars, loggingVars,
                      orchestrationVars>>
    \/ /\ part = "benchmark" /\ BenchmarkNext
       /\ UNCHANGED <<part, ensembleVars, artifactVars, frontEndVars, loaderVars, loggingVars,
                      orchestrationVars>>
    \/ /\ part = "frontend" /\ FrontEndNext
       /\ UNCHANGED <<part, ensembleVars, artifactVars, benchmarkVars, loaderVars, loggingVars,
                      orchestrationVars>>
    \/ /\ part = "loader" /\ LoaderNext
       /\ UNCHANGED <<part, ensembleVars, artifactVars, benchmarkVars, frontEndVars, loggingVars,
                      orchestrationVars>>
    \/ /\ part = "logging" /\ LoggingNext
       /\ UNCHANGED <<part, ensembleVars, artifactVars, benchmarkVars, frontEndVars, loaderVars,
                      orchestrationVars>>
    \/ /\ part = "orchestration" /\ OrchestrationNext
       /\ UNCHANGED <<part, ensembleVars, artifactVars, benchmarkVars, frontEndVars, loaderVars,
                      loggingVars>>

Spec ==
    Init /\ [][Next]_<<part, ensembleVars, artifactVars, benchmarkVars, frontEndVars, loaderVars,
                       loggingVars, orchestrationVars>>

-----------------------------------------------------------------------------
\* Every component stays within its types (all of the above).
TypeOK ==
    /\ part = "ensemble" => EnsembleTypeOK
    /\ part = "artifacts" => ArtifactsTypeOK
    /\ part = "benchmark" => BenchmarkTypeOK
    /\ part = "frontend" => FrontEndTypeOK
    /\ part = "loader" => LoaderTypeOK
    /\ part = "logging" => LoggingTypeOK
    /\ part = "orchestration" => OrchestrationTypeOK
=============================================================================
