--------------------------- MODULE Components_proofs ---------------------------
(***************************************************************************)
(* Proofs about the components that MCComponents checks together; they     *)
(* share no state.  Each has its inductive invariant, the steps that keep  *)
(* it, and the theorems; the last section puts them together.              *)
(***************************************************************************)
EXTENDS MCComponents, DataLemmas

-----------------------------------------------------------------------------
(* Ensemble                                                                *)

\* References resolve.
Resolved == sources \in [Steps -> SUBSET Steps]

\* The states of Kahn's algorithm, the first, and the rounds.
KahnStates == [queue : Seq(Steps), degree : [Steps -> Int], visited : Nat]

KahnStart ==
    [queue |-> SetToSeq({s \in Steps : DegreesAtFirst[s] = 0}), degree |-> DegreesAtFirst, visited |-> 0]

Round(k) == IF k.queue = <<>> THEN k ELSE KahnRound(k)

\* After n rounds, with the steps D visited: who waits in the queue has all its sources
\* visited, the degrees count the sources that are not, and no steps of D wait for one
\* another.
Visiting(n, k, D) ==
    /\ Distinct(k.queue) /\ ToSet(k.queue) \cap D = {}
    /\ k.visited = Cardinality(D)
    /\ k.queue = <<>> \/ k.visited = n
    /\ \A s \in Steps : k.degree[s] = Cardinality(sources[s] \ D)
    /\ \A s \in Steps : s \in D \cup ToSet(k.queue) <=> sources[s] \subseteq D
    /\ \A S \in SUBSET Steps : S \cap D # {} => \E s \in S : sources[s] \cap S = {}

LEMMA StepsFinite ==
    ASSUME NEW S \in SUBSET Steps
    PROVE  /\ IsFiniteSet(S) /\ Cardinality(S) \in Nat
           /\ Cardinality(S) = 0 <=> S = {}
           /\ Cardinality(S) = Cardinality(Steps) => S = Steps
BY EnsembleAssumption, FS_Subset, FS_CardinalityType, FS_EmptySet

\* The algorithm stays among its states.
LEMMA KahnStartTyped == Resolved => KahnStart \in KahnStates
<1> SUFFICES ASSUME Resolved PROVE KahnStart \in KahnStates
  OBVIOUS
<1>1. DegreesAtFirst \in [Steps -> Int]
  <2>1. \A s \in Steps : Cardinality(sources[s]) \in Int
    BY StepsFinite DEF Resolved
  <2> QED BY <2>1 DEF DegreesAtFirst
<1>2. PICK S \in SUBSET Steps : S = {s \in Steps : DegreesAtFirst[s] = 0}
  OBVIOUS
<1>3. SetToSeq(S) \in Seq(Steps)
  <2>1. SetToSeq(S) \in Seq(S)
    BY StepsFinite, SetToSeqOf
  <2> QED BY <2>1
<1> QED BY <1>1, <1>2, <1>3 DEF KahnStart, KahnStates

LEMMA KahnRoundTyped ==
    ASSUME Resolved, NEW k \in KahnStates, k.queue # <<>>
    PROVE  KahnRound(k) \in KahnStates
<1>1. k.queue \in Seq(Steps) /\ k.degree \in [Steps -> Int] /\ k.visited \in Nat
  BY DEF KahnStates
<1>2. PICK node, d, S : /\ node = Head(k.queue)
                        /\ d = [s \in Steps |-> IF node \in sources[s] THEN k.degree[s] - 1 ELSE k.degree[s]]
                        /\ S = {s \in Steps : node \in sources[s] /\ d[s] = 0}
  OBVIOUS
<1>3. d \in [Steps -> Int]
  BY <1>1, <1>2
<1>4. S \in SUBSET Steps
  BY <1>2
<1>5. SetToSeq(S) \in Seq(S)
  BY <1>4, StepsFinite, SetToSeqOf
<1>6. PICK t, f : t = Tail(k.queue) /\ f = SetToSeq(S)
  OBVIOUS
<1>7. t \in Seq(Steps) /\ f \in Seq(Steps)
  BY <1>1, <1>4, <1>5, <1>6, TailOf
<1>8. t \o f \in Seq(Steps)
  BY <1>7, ConcatSet
<1>9. KahnRound(k) = [queue |-> t \o f, degree |-> d, visited |-> k.visited + 1]
  BY <1>2, <1>6 DEF KahnRound
<1> QED BY <1>1, <1>3, <1>8, <1>9 DEF KahnStates

\* The recursive definition of Kahn has its value.
LEMMA KahnIterates ==
    ASSUME Resolved
    PROVE  /\ Kahn \in [0 .. Cardinality(Steps) -> KahnStates]
           /\ Kahn[0] = KahnStart
           /\ \A n \in 1 .. Cardinality(Steps) : Kahn[n] = Round(Kahn[n - 1])
<1>1. PICK N \in Nat : N = Cardinality(Steps)
  BY StepsFinite
<1>2. PICK R, x : R = [k \in KahnStates |-> Round(k)] /\ x = KahnStart
  OBVIOUS
<1>3. R \in [KahnStates -> KahnStates]
  BY <1>2, KahnRoundTyped DEF Round
<1>4. x \in KahnStates
  BY <1>2, KahnStartTyped
<1>5. PICK g : g \in [0 .. N -> KahnStates] /\ g[0] = x /\ \A i \in 1 .. N : g[i] = R[g[i - 1]]
  <2>1. \E g : Iterated(KahnStates, x, R, N, g)
    BY <1>3, <1>4, Iterates
  <2> QED BY <2>1 DEF Iterated
<1> DEFINE IsKahn(h) ==
             h = [n \in 0 .. Cardinality(Steps) |->
                    IF n = 0 THEN [queue |-> SetToSeq({s \in Steps : DegreesAtFirst[s] = 0}),
                                   degree |-> DegreesAtFirst, visited |-> 0]
                    ELSE IF h[n - 1].queue = <<>> THEN h[n - 1] ELSE KahnRound(h[n - 1])]
<1>6. Kahn = CHOOSE h : IsKahn(h)
  BY DEF Kahn
<1>7. \A i \in 1 .. N : i - 1 \in 0 .. N /\ i \in 0 .. N
  BY <1>1
<1>8. \A i \in 1 .. N : g[i] = Round(g[i - 1])
  BY <1>2, <1>5, <1>7
<1>9. IsKahn(g)
  <2>1. \A n \in 0 .. N : g[n] = IF n = 0 THEN KahnStart
                                 ELSE IF g[n - 1].queue = <<>> THEN g[n - 1] ELSE KahnRound(g[n - 1])
    <3>1. \A n \in 0 .. N : n # 0 => n \in 1 .. N
      BY <1>1
    <3> QED BY <1>2, <1>5, <1>8, <3>1 DEF Round
  <2>2. g = [n \in 0 .. N |-> g[n]]
    BY <1>5
  <2> QED BY <1>1, <2>1, <2>2 DEF KahnStart
<1>10. PICK h : h = Kahn
  OBVIOUS
<1>11. h = [n \in 0 .. N |->
             IF n = 0 THEN KahnStart ELSE IF h[n - 1].queue = <<>> THEN h[n - 1] ELSE KahnRound(h[n - 1])]
  <2>1. IsKahn(h)
    BY <1>6, <1>9, <1>10
  <2> QED BY <1>1, <2>1, SMTT(30) DEF KahnStart
<1>12. h[0] = KahnStart /\ \A n \in 1 .. N : h[n] = Round(h[n - 1])
  BY <1>1, <1>7, <1>11 DEF Round
<1>13. \A n \in 0 .. N : h[n] \in KahnStates
  <2>1. PICK T : T = {n \in Nat : n <= N => h[n] \in KahnStates}
    OBVIOUS
  <2>2. 0 \in T
    BY <1>2, <1>4, <1>12, <2>1
  <2>3. ASSUME NEW n \in Nat, n \in T PROVE n + 1 \in T
    <3> SUFFICES ASSUME n + 1 <= N PROVE h[n + 1] \in KahnStates
      BY <2>1
    <3>1. n <= N /\ n + 1 \in 1 .. N /\ (n + 1) - 1 = n
      BY <1>1
    <3>2. h[n] \in KahnStates /\ h[n + 1] = Round(h[n])
      BY <1>12, <2>1, <2>3, <3>1
    <3> QED BY <3>2, KahnRoundTyped DEF Round
  <2>4. Nat \subseteq T
    BY <2>2, <2>3, NatSetInduction
  <2> QED BY <1>1, <2>1, <2>4
<1>14. h \in [0 .. N -> KahnStates]
  BY <1>11, <1>13
<1> QED BY <1>1, <1>10, <1>12, <1>14

\* First the steps without sources are in the queue.
LEMMA VisitingStarts == Resolved => Visiting(0, KahnStart, {})
<1> SUFFICES ASSUME Resolved PROVE Visiting(0, KahnStart, {})
  OBVIOUS
<1>1. PICK S \in SUBSET Steps : S = {s \in Steps : DegreesAtFirst[s] = 0}
  OBVIOUS
<1>2. SetToSeq(S) \in Seq(S) /\ Distinct(SetToSeq(S)) /\ ToSet(SetToSeq(S)) = S
  BY StepsFinite, SetToSeqOf
<1>3. \A s \in Steps : DegreesAtFirst[s] = Cardinality(sources[s] \ {})
  BY DEF DegreesAtFirst
<1>4. \A s \in Steps : s \in S <=> sources[s] = {}
  BY <1>1, StepsFinite DEF DegreesAtFirst, Resolved
<1>5. /\ KahnStart.queue = SetToSeq(S) /\ KahnStart.degree = DegreesAtFirst
      /\ KahnStart.visited = 0
  BY <1>1 DEF KahnStart
<1>6. Cardinality({}) = 0
  BY FS_EmptySet
<1>7. \A s \in Steps : s \in {} \cup S <=> sources[s] \subseteq {}
  BY <1>4
<1> QED BY <1>2, <1>3, <1>5, <1>6, <1>7 DEF Visiting

\* A step leaves the queue: it and those before it are the ones visited.
LEMMA VisitingRound ==
    ASSUME Resolved, NEW n \in Nat, NEW k \in KahnStates, NEW D \in SUBSET Steps,
           Visiting(n, k, D)
    PROVE  \E E \in SUBSET Steps : Visiting(n + 1, Round(k), E)
<1>1. CASE k.queue = <<>>
  BY <1>1 DEF Round, Visiting
<1>2. CASE k.queue # <<>>
  <2>1. k.queue \in Seq(Steps) /\ k.degree \in [Steps -> Int] /\ k.visited \in Nat
    BY DEF KahnStates
  <2>2. PICK node, d, F, t, f :
           /\ node = Head(k.queue)
           /\ d = [s \in Steps |-> IF node \in sources[s] THEN k.degree[s] - 1 ELSE k.degree[s]]
           /\ F = {s \in Steps : node \in sources[s] /\ d[s] = 0}
           /\ t = Tail(k.queue) /\ f = SetToSeq(F)
    OBVIOUS
  <2>3. Round(k) = [queue |-> t \o f, degree |-> d, visited |-> k.visited + 1]
    BY <1>2, <2>2 DEF Round, KahnRound
  <2>4. F \in SUBSET Steps
    BY <2>2
  <2>5. f \in Seq(Steps) /\ Distinct(f) /\ ToSet(f) = F
    <3>1. f \in Seq(F) /\ Distinct(f) /\ ToSet(f) = F
      BY <2>2, <2>4, StepsFinite, SetToSeqOf
    <3> QED BY <2>4, <3>1
  <2>6. /\ t \in Seq(Steps) /\ ToSet(k.queue) = {node} \cup ToSet(t) /\ node \in Steps
        /\ Distinct(t) /\ node \notin ToSet(t)
    BY <1>2, <2>1, <2>2, TailSet DEF Visiting
  <2>7. PICK Q, P : Q = ToSet(k.queue) /\ P = ToSet(t)
    OBVIOUS
  <2>8. /\ Q \cap D = {} /\ Q = {node} \cup P /\ node \notin P
        /\ \A s \in Steps : s \in D \cup Q <=> sources[s] \subseteq D
        /\ \A s \in Steps : k.degree[s] = Cardinality(sources[s] \ D)
        /\ k.visited = Cardinality(D) /\ k.visited = n
        /\ \A S \in SUBSET Steps : S \cap D # {} => \E s \in S : sources[s] \cap S = {}
    BY <1>2, <2>6, <2>7 DEF Visiting
  <2>9. PICK E \in SUBSET Steps : E = D \cup {node}
    BY <2>6
  <2>10. node \notin D
    BY <2>8
  <2>11. Cardinality(E) = k.visited + 1
    <3>1. IsFiniteSet(D)
      BY StepsFinite
    <3>2. Cardinality(D \cup {node}) = Cardinality(D) + 1
      BY <2>10, <3>1, FS_AddElement
    <3> QED BY <2>8, <2>9, <3>2
  <2>12. \A s \in Steps : d[s] = Cardinality(sources[s] \ E)
    <3> SUFFICES ASSUME NEW s \in Steps PROVE d[s] = Cardinality(sources[s] \ E)
      OBVIOUS
    <3>1. PICK U \in SUBSET Steps : U = sources[s] \ D
      BY DEF Resolved
    <3>2. IsFiniteSet(U) /\ k.degree[s] = Cardinality(U) /\ sources[s] \ E = U \ {node}
      BY <2>8, <2>9, <3>1, StepsFinite
    <3>3. node \in U <=> node \in sources[s]
      BY <2>10, <3>1
    <3>4. Cardinality(U \ {node}) = IF node \in U THEN Cardinality(U) - 1 ELSE Cardinality(U)
      BY <3>2, FS_RemoveElement
    <3> QED BY <2>2, <3>2, <3>3, <3>4
  <2>13. \A s \in Steps : s \in F <=> node \in sources[s] /\ sources[s] \subseteq E
    <3> SUFFICES ASSUME NEW s \in Steps
                 PROVE  s \in F <=> node \in sources[s] /\ sources[s] \subseteq E
      OBVIOUS
    <3>1. sources[s] \ E \in SUBSET Steps
      BY DEF Resolved
    <3>2. d[s] = 0 <=> sources[s] \ E = {}
      <4>1. PICK U \in SUBSET Steps : U = sources[s] \ E
        BY <3>1
      <4> QED BY <2>12, <4>1, StepsFinite
    <3> QED BY <2>2, <3>2
  <2>14. \A s \in Steps : s \in E \cup (P \cup F) <=> sources[s] \subseteq E
    <3> SUFFICES ASSUME NEW s \in Steps PROVE s \in E \cup (P \cup F) <=> sources[s] \subseteq E
      OBVIOUS
    <3>1. s \in E \cup P <=> sources[s] \subseteq D
      BY <2>8, <2>9
    <3> QED BY <2>9, <2>13, <3>1
  <2>15. P \cap F = {} /\ (P \cup F) \cap E = {}
    <3>1. \A s \in F : s \in Steps /\ ~(sources[s] \subseteq D)
      BY <2>4, <2>10, <2>13
    <3>2. \A s \in F : s \notin D /\ s \notin Q
      BY <2>8, <3>1
    <3> QED BY <2>8, <2>9, <3>2
  <2>16. t \o f \in Seq(Steps) /\ ToSet(t \o f) = P \cup F /\ Distinct(t \o f)
    BY <2>5, <2>6, <2>7, <2>15, ConcatSet
  <2>17. ASSUME NEW S \in SUBSET Steps, S \cap E # {}
         PROVE  \E s \in S : sources[s] \cap S = {}
    <3>1. CASE S \cap D # {}
      BY <2>8, <3>1
    <3>2. CASE S \cap D = {}
      <4>1. node \in S /\ sources[node] \subseteq D
        BY <2>6, <2>8, <2>9, <2>17, <3>2
      <4> QED BY <3>2, <4>1
    <3> QED BY <3>1, <3>2
  <2>18. PICK r : r = Round(k)
    OBVIOUS
  <2>19. r.queue = t \o f /\ r.degree = d /\ r.visited = k.visited + 1
    BY <2>3, <2>18
  <2>20. Visiting(n + 1, r, E)
    <3>1. Distinct(r.queue) /\ ToSet(r.queue) \cap E = {}
      BY <2>15, <2>16, <2>19
    <3>2. r.visited = Cardinality(E) /\ r.visited = n + 1
      BY <2>8, <2>11, <2>19
    <3>3. \A s \in Steps : r.degree[s] = Cardinality(sources[s] \ E)
      BY <2>12, <2>19
    <3>4. \A s \in Steps : s \in E \cup ToSet(r.queue) <=> sources[s] \subseteq E
      BY <2>14, <2>16, <2>19
    <3> QED BY <2>17, <3>1, <3>2, <3>3, <3>4 DEF Visiting
  <2> QED BY <2>18, <2>20
<1> QED BY <1>1, <1>2

\* The parser's check is right: of references that resolve it refuses the cyclic
\* ones, and no others (_validate_dag).
LEMMA KahnIsCorrect ==
    ASSUME Resolved
    PROVE  Kahn[Cardinality(Steps)].visited = Cardinality(Steps) <=> Acyclic
<1>1. PICK N, g : N = Cardinality(Steps) /\ g = Kahn /\ N \in Nat
  BY StepsFinite
<1>2. /\ g \in [0 .. N -> KahnStates] /\ g[0] = KahnStart
      /\ \A n \in 1 .. N : g[n] = Round(g[n - 1])
  BY <1>1, KahnIterates
<1>3. \E D \in SUBSET Steps : Visiting(N, g[N], D)
  <2>1. PICK T : T = {n \in Nat : n <= N => \E D \in SUBSET Steps : Visiting(n, g[n], D)}
    OBVIOUS
  <2>2. 0 \in T
    BY <1>2, <2>1, VisitingStarts
  <2>3. ASSUME NEW n \in Nat, n \in T PROVE n + 1 \in T
    <3> SUFFICES ASSUME n + 1 <= N PROVE \E D \in SUBSET Steps : Visiting(n + 1, g[n + 1], D)
      BY <2>1
    <3>1. n <= N /\ n + 1 \in 1 .. N /\ (n + 1) - 1 = n /\ n \in 0 .. N
      BY <1>1
    <3>2. PICK k \in KahnStates : k = g[n] /\ g[n + 1] = Round(k)
      BY <1>2, <3>1
    <3>3. PICK D \in SUBSET Steps : Visiting(n, k, D)
      BY <2>1, <2>3, <3>1, <3>2
    <3> QED BY <3>2, <3>3, VisitingRound
  <2>4. Nat \subseteq T
    BY <2>2, <2>3, NatSetInduction
  <2> QED BY <1>1, <2>1, <2>4
<1>4. PICK k \in KahnStates : k = g[N]
  BY <1>1, <1>2
<1>5. PICK D \in SUBSET Steps : Visiting(N, k, D)
  BY <1>3, <1>4
<1>6. ASSUME k.visited = N PROVE Acyclic
  <2>1. D = Steps
    BY <1>1, <1>5, <1>6, StepsFinite DEF Visiting
  <2> SUFFICES ASSUME NEW S \in SUBSET Steps, S # {} PROVE \E s \in S : sources[s] \cap S = {}
    BY DEF Acyclic
  <2>2. S \cap D # {}
    BY <2>1
  <2> QED BY <1>5, <2>2 DEF Visiting
<1>7. ASSUME k.visited # N PROVE ~Acyclic
  <2>1. k.queue = <<>> /\ k.visited = Cardinality(D)
    BY <1>5, <1>7 DEF Visiting
  <2>2. D # Steps
    BY <1>1, <1>7, <2>1
  <2>3. PICK S \in SUBSET Steps : S = Steps \ D
    OBVIOUS
  <2>4. ToSet(k.queue) = {}
    BY <2>1 DEF ToSet
  <2>5. \A s \in S : ~(sources[s] \subseteq D) /\ sources[s] \subseteq Steps
    BY <1>5, <2>3, <2>4 DEF Visiting, Resolved
  <2>6. S # {} /\ \A s \in S : sources[s] \cap S # {}
    BY <2>2, <2>3, <2>5
  <2> QED BY <2>6 DEF Acyclic
<1> QED BY <1>1, <1>4, <1>6, <1>7

\* What has been refused, and what has passed.
Decided == course # "parse" => (course = "refused" <=> ~Valid)

\* EnsembleSettles is about single moments of a request.  It is inductive with what
\* holds between them: the context is what is not left, the layer that runs is the
\* next of what is left, the steps that have begun are in it or before it, and items
\* belong to steps that wait.
Layered ==
    /\ course \in {"parse", "refused", "loaded"} => context = {} /\ \A s \in Steps : at[s] = "new"
    /\ course = "running" =>
          /\ left # {} /\ layer = NextLayer(left) /\ context = Steps \ left
          /\ \A s \in Steps : /\ at[s] # "cancelled"
                              /\ at[s] = "new" <=> s \in left \ layer
                              /\ s \in context => at[s] = "done"
    /\ course # "running" => Running = {}
    /\ \A s \in items : at[s] = "waiting"
    /\ \A s \in Steps : at[s] # "new" => sources[s] \subseteq context
    /\ course = "answered" => \A s \in Steps : at[s] = "done" /\ s \in context
    /\ course = "failed" => \E s \in Steps : at[s] = "failed"

EnsembleInv == EnsembleTypeOK /\ Decided /\ Layered

\* What has passed the parser's check.
LEMMA ValidIs ==
    ASSUME EnsembleTypeOK
    PROVE  Valid <=> Acyclic /\ \A s \in Steps : Unknown \notin sources[s]
<1>1. CASE \A s \in Steps : Unknown \notin sources[s]
  <2>1. Resolved
    BY <1>1 DEF EnsembleTypeOK, Resolved
  <2> QED BY <1>1, <2>1, KahnIsCorrect DEF Valid
<1>2. CASE ~(\A s \in Steps : Unknown \notin sources[s])
  BY <1>2 DEF Valid
<1> QED BY <1>1, <1>2

\* Then there is always a next layer, and its steps have all that they refer to.
LEMMA NextLayerOf ==
    ASSUME EnsembleTypeOK, Valid, NEW R \in SUBSET Steps
    PROVE  /\ NextLayer(R) \subseteq R
           /\ R # {} => NextLayer(R) # {}
           /\ \A s \in NextLayer(R) : sources[s] \subseteq Steps \ R
<1>1. Acyclic /\ \A s \in Steps : sources[s] \subseteq Steps
  BY ValidIs DEF EnsembleTypeOK
<1>2. R # {} => NextLayer(R) # {}
  BY <1>1 DEF Acyclic, NextLayer
<1> QED BY <1>1, <1>2 DEF NextLayer

LEMMA EnsembleStarts == EnsembleInit => EnsembleInv
<1> SUFFICES ASSUME EnsembleInit PROVE EnsembleInv
  OBVIOUS
<1>1. EnsembleTypeOK
  BY DEF EnsembleInit, EnsembleTypeOK
<1>2. Decided
  BY DEF EnsembleInit, Decided
<1>3. Layered
  BY DEF EnsembleInit, Layered, Running
<1> QED BY <1>1, <1>2, <1>3 DEF EnsembleInv

LEMMA EnsembleTypeStep ==
    ASSUME EnsembleTypeOK, [EnsembleNext]_ensembleVars
    PROVE  EnsembleTypeOK'
<1>1. CASE UNCHANGED ensembleVars
  BY <1>1 DEF ensembleVars, execVars, stepVars, EnsembleTypeOK
<1>2. CASE Parse
  BY <1>2 DEF Parse, stepVars, EnsembleTypeOK
<1>3. CASE Execute
  BY <1>3 DEF Execute, Gather, NextLayer, EnsembleTypeOK
<1>4. CASE EndLayer
  <2>1. layer' \subseteq Steps /\ left' \subseteq Steps /\ context' \subseteq Steps
    BY <1>4 DEF EndLayer, Gather, NextLayer, EnsembleTypeOK
  <2>2. at' \in [Steps -> {"new", "started", "loading", "sleeping", "waiting", "done",
                           "failed", "cancelled"}]
    BY <1>4 DEF EndLayer, Gather, EnsembleTypeOK
  <2>3. course' \in {"failed", "answered", course} /\ UNCHANGED <<sources, items, replies>>
    BY <1>4 DEF EndLayer
  <2> QED BY <2>1, <2>2, <2>3 DEF EnsembleTypeOK
<1>5. CASE CancelRequest
  BY <1>5 DEF CancelRequest, EnsembleTypeOK
<1>6. ASSUME NEW s \in Steps,
             \/ StartStep(s) \/ StepLoaded(s) \/ StepSlept(s) \/ DropItem(s)
             \/ StepWakes(s) \/ StepTimesOut(s)
      PROVE  EnsembleTypeOK'
  <2>1. UNCHANGED <<sources, execVars, replies>>
    BY <1>6 DEF StartStep, StepLoaded, StepSlept, DropItem, StepWakes, StepTimesOut
  <2>2. at' = at \/ \E p \in {"loading", "sleeping", "waiting", "done", "failed"} :
                       at' = [at EXCEPT ![s] = p]
    BY <1>6 DEF StartStep, StepLoaded, StepSlept, DropItem, StepWakes, StepTimesOut, SubmitStep, MoveTo
  <2>3. items' \subseteq items \cup {s}
    BY <1>6 DEF StartStep, StepLoaded, StepSlept, DropItem, StepWakes, StepTimesOut, SubmitStep, MoveTo
  <2> QED BY <2>1, <2>2, <2>3 DEF EnsembleTypeOK, execVars
<1>7. ASSUME NEW s \in Steps, StepReply(s) PROVE EnsembleTypeOK'
  BY <1>7 DEF StepReply, execVars, EnsembleTypeOK
<1> QED BY <1>1, <1>2, <1>3, <1>4, <1>5, <1>6, <1>7 DEF EnsembleNext

\* The coroutine of a step goes on: it does not start another, and has an item only
\* while it waits for it.
LEMMA CoroutineStep ==
    ASSUME EnsembleTypeOK, \A u \in items : at[u] = "waiting", NEW s \in Steps,
           \/ StartStep(s) \/ StepLoaded(s) \/ StepSlept(s) \/ StepReply(s) \/ DropItem(s)
           \/ StepWakes(s) \/ StepTimesOut(s)
    PROVE  /\ UNCHANGED <<sources, course, left, layer, context>>
           /\ \/ at' = at
              \/ /\ s \in Running /\ at'[s] \notin {"new", "cancelled"}
                 /\ \A u \in Steps : u # s => at'[u] = at[u]
           /\ \A u \in items' : at'[u] = "waiting"
<1>1. UNCHANGED <<sources, course, left, layer, context>>
  BY DEF StartStep, StepLoaded, StepSlept, StepReply, DropItem, StepWakes, StepTimesOut, execVars
<1>2. CASE StartStep(s) \/ StepLoaded(s) \/ StepSlept(s)
  <2>1. at[s] \in {"started", "loading", "sleeping"}
    BY <1>2 DEF StartStep, StepLoaded, StepSlept
  <2>2. \/ at' = [at EXCEPT ![s] = "waiting"] /\ items' = items \cup {s}
        \/ \E p \in {"loading", "sleeping", "failed"} : at' = [at EXCEPT ![s] = p] /\ items' = items
    BY <1>2 DEF StartStep, StepLoaded, StepSlept, SubmitStep, MoveTo
  <2> QED BY <1>1, <2>1, <2>2 DEF EnsembleTypeOK, Running
<1>3. CASE StepReply(s) \/ DropItem(s)
  <2>1. at' = at /\ items' \subseteq items
    BY <1>3 DEF StepReply, DropItem
  <2> QED BY <1>1, <2>1
<1>4. CASE StepWakes(s) \/ StepTimesOut(s)
  <2>1. at[s] = "waiting" /\ items' = items \ {s}
        /\ \E p \in {"done", "failed"} : at' = [at EXCEPT ![s] = p]
    BY <1>4 DEF StepWakes, StepTimesOut, MoveTo
  <2> QED BY <1>1, <2>1 DEF EnsembleTypeOK, Running
<1> QED BY <1>2, <1>3, <1>4

LEMMA ValidIff ==
    EnsembleTypeOK => (Valid <=> (Acyclic /\ \A s \in Steps : Unknown \notin sources[s]))
BY ValidIs

\* The sources are fixed, and with them what is valid.
LEMMA ValidKept ==
    ASSUME EnsembleTypeOK, EnsembleTypeOK', sources' = sources
    PROVE  Valid' <=> Valid
<1>1. (EnsembleTypeOK => (Valid <=> (Acyclic /\ \A s \in Steps : Unknown \notin sources[s])))'
  BY ValidIff, PTL
<1>2. Valid' <=> (Acyclic' /\ \A s \in Steps : Unknown \notin sources'[s])
  BY <1>1
<1>3. Acyclic' <=> Acyclic
  BY DEF Acyclic
<1> QED BY <1>2, <1>3, ValidIff

LEMMA DecidedStep ==
    ASSUME EnsembleInv, [EnsembleNext]_ensembleVars
    PROVE  Decided' /\ sources' = sources
<1>1. sources' = sources
  BY DEF ensembleVars, EnsembleNext, Parse, Execute, EndLayer, CancelRequest, StartStep, StepLoaded,
         StepSlept, StepReply, DropItem, StepWakes, StepTimesOut
<1>2. Valid' <=> Valid
  BY <1>1, EnsembleTypeStep, ValidKept DEF EnsembleInv
<1>3. CASE Parse
  BY <1>1, <1>2, <1>3 DEF Parse, Decided
<1>4. CASE ~Parse
  <2>1. /\ course' = "parse" <=> course = "parse"
        /\ course' = "refused" <=> course = "refused"
    <3>1. CASE Execute \/ EndLayer \/ CancelRequest
      BY <3>1 DEF Execute, EndLayer, CancelRequest
    <3>2. CASE course' = course
      BY <3>2
    <3>3. CASE UNCHANGED ensembleVars
      BY <3>2, <3>3 DEF ensembleVars, execVars
    <3>4. ASSUME NEW s \in Steps,
                 \/ StartStep(s) \/ StepLoaded(s) \/ StepSlept(s)
                 \/ StepReply(s) \/ DropItem(s) \/ StepWakes(s) \/ StepTimesOut(s)
          PROVE  course' = course
      BY <3>4 DEF execVars, StartStep, StepLoaded, StepSlept, StepReply, DropItem, StepWakes,
                  StepTimesOut
    <3> QED BY <1>4, <3>1, <3>2, <3>3, <3>4 DEF EnsembleNext
  <2> QED BY <1>1, <1>2, <2>1 DEF EnsembleInv, Decided
<1> QED BY <1>1, <1>3, <1>4

LEMMA LayeredStep ==
    ASSUME EnsembleInv, [EnsembleNext]_ensembleVars
    PROVE  Layered'
<1> USE DEF EnsembleInv
<1>0. sources' = sources /\ sources \in [Steps -> SUBSET (Steps \cup {Unknown})]
  BY DecidedStep DEF EnsembleTypeOK
<1>1. CASE UNCHANGED ensembleVars
  BY <1>1 DEF ensembleVars, execVars, stepVars, Layered, NextLayer, Running
<1>2. CASE Parse
  BY <1>2 DEF Parse, stepVars, Layered, Running, NextLayer
<1>3. CASE Execute
  <2>1. course = "loaded" /\ context = {} /\ items = {} /\ \A s \in Steps : at[s] = "new"
    BY <1>3 DEF Execute, Layered, EnsembleTypeOK
  <2>2. Valid
    BY <2>1 DEF Decided
  <2>3. PICK L \in SUBSET Steps : L = NextLayer(Steps)
    BY DEF NextLayer
  <2>4. L # {} /\ \A s \in L : sources[s] = {}
    BY <2>2, <2>3, EnsembleAssumption, NextLayerOf
  <2>5. /\ course' = "running" /\ left' = Steps /\ layer' = L /\ context' = context /\ items' = items
        /\ at' = [s \in Steps |-> IF s \in L THEN "started" ELSE at[s]]
    BY <1>3, <2>3, <2>4 DEF Execute, Gather
  <2>6. layer' = NextLayer(left)'
    BY <1>0, <2>3, <2>5 DEF NextLayer
  <2>7. \A s \in Steps : at'[s] = IF s \in L THEN "started" ELSE "new"
    BY <2>1, <2>5
  <2> QED BY <1>0, <2>1, <2>4, <2>5, <2>6, <2>7, EnsembleAssumption DEF Layered
<1>4. CASE EndLayer
  <2>1. /\ course = "running" /\ layer = NextLayer(left) /\ context = Steps \ left /\ left # {}
        /\ layer \cap Running = {} /\ left' = left \ layer
        /\ UNCHANGED <<items, replies>>
    BY <1>4 DEF EndLayer, Layered
  <2>2. Valid /\ layer \subseteq left /\ left \in SUBSET Steps
    BY <2>1, NextLayerOf DEF Decided, EnsembleTypeOK
  \* No step of the layer runs, and no other did.
  <2>3. ASSUME NEW s \in Steps PROVE at[s] \in {"new", "done", "failed"}
    <3>1. at[s] # "cancelled" /\ (at[s] = "new" <=> s \in left \ layer)
          /\ (s \in context => at[s] = "done")
      BY <2>1 DEF Layered
    <3>2. CASE s \in layer
      BY <2>1, <3>1, <3>2 DEF Running
    <3>3. CASE s \notin layer
      BY <2>1, <3>1, <3>3
    <3> QED BY <3>2, <3>3
  <2>4. Running = {} /\ items = {}
    BY <2>3 DEF Running, Layered, EnsembleTypeOK
  <2>5. CASE \E s \in layer : at[s] = "failed"
    <3>1. course' = "failed" /\ UNCHANGED <<context, layer, at>>
      BY <1>4, <2>5 DEF EndLayer
    <3>2. Running' = {}
      BY <2>4, <3>1 DEF Running
    <3> QED BY <1>0, <2>1, <2>2, <2>4, <2>5, <3>1, <3>2 DEF Layered
  <2>6. CASE ~(\E s \in layer : at[s] = "failed")
    <3>1. \A s \in Steps : s \in context \cup layer => at[s] = "done"
      <4>1. \A s \in layer : at[s] # "new"
        BY <2>1, <2>2 DEF Layered
      <4>2. \A s \in context : at[s] = "done"
        BY <2>1 DEF Layered
      <4> QED BY <2>2, <2>3, <2>6, <4>1, <4>2
    <3>2. context' = context \cup layer /\ context' = Steps \ left'
      <4>1. context' = context \cup layer
        BY <1>4, <2>6 DEF EndLayer
      <4> QED BY <2>1, <2>2, <4>1
    <3>3. CASE left' = {}
      <4>1. course' = "answered" /\ UNCHANGED <<layer, at>>
        BY <1>4, <2>6, <3>3 DEF EndLayer
      <4>2. \A s \in Steps : s \in context \cup layer
        BY <3>2, <3>3
      <4>3. Running' = {}
        BY <2>4, <4>1 DEF Running
      <4>4. \A s \in Steps : at'[s] = "done" /\ s \in context' /\ sources'[s] \subseteq context'
        <5>1. \A s \in Steps : sources[s] \subseteq Steps
          BY <2>2, ValidIs DEF EnsembleTypeOK
        <5> QED BY <1>0, <3>1, <3>2, <3>3, <4>1, <4>2, <5>1
      <4>5. items' = {}
        BY <2>1, <2>4
      <4> QED BY <4>1, <4>3, <4>4, <4>5 DEF Layered
    <3>4. CASE left' # {}
      <4>1. course' = "running" /\ layer' = NextLayer(left')
            /\ at' = [s \in Steps |-> IF s \in layer' THEN "started" ELSE at[s]]
        BY <1>4, <2>1, <2>6, <3>4 DEF EndLayer, Gather
      <4>2. layer' = NextLayer(left)'
        BY <1>0, <4>1 DEF NextLayer
      <4>3. PICK R \in SUBSET Steps : R = left'
        BY <2>1, <2>2
      <4>4. layer' \subseteq left' /\ \A s \in layer' : sources[s] \subseteq context'
        BY <2>2, <3>2, <4>1, <4>3, NextLayerOf
      <4>5. \A s \in Steps : at'[s] = IF s \in layer' THEN "started" ELSE at[s]
        BY <4>1
      <4>6. \A s \in Steps : /\ at'[s] # "cancelled"
                             /\ at'[s] = "new" <=> s \in left' \ layer'
                             /\ s \in context' => at'[s] = "done"
        <5> SUFFICES ASSUME NEW s \in Steps
                     PROVE  /\ at'[s] # "cancelled"
                            /\ at'[s] = "new" <=> s \in left' \ layer'
                            /\ s \in context' => at'[s] = "done"
          OBVIOUS
        <5>1. s \in context' <=> s \notin left'
          BY <3>2
        <5>2. at[s] = "new" <=> s \in left'
          BY <2>1 DEF Layered
        <5> QED BY <2>3, <3>1, <3>2, <4>4, <4>5, <5>1, <5>2
      <4>7. \A s \in Steps : at'[s] # "new" => sources'[s] \subseteq context'
        BY <1>0, <3>2, <4>4, <4>5 DEF Layered
      <4>8. items' = {}
        BY <2>1, <2>4
      <4> QED BY <3>2, <3>4, <4>1, <4>2, <4>6, <4>7, <4>8 DEF Layered
    <3> QED BY <3>3, <3>4
  <2> QED BY <2>5, <2>6
<1>5. CASE CancelRequest
  <2>1. /\ course = "running" /\ course' = "cancelled" /\ UNCHANGED <<left, layer, context>>
        /\ at' = [s \in Steps |-> IF s \in Running THEN "cancelled" ELSE at[s]]
        /\ items' = items \ Running
    BY <1>5 DEF CancelRequest
  <2>2. Running' = {}
    BY <2>1 DEF Running
  <2>3. items' = {}
    BY <2>1 DEF Layered, Running, EnsembleTypeOK
  <2>4. \A s \in Steps : at'[s] # "new" => sources'[s] \subseteq context'
    BY <1>0, <2>1 DEF Layered, Running
  <2> QED BY <2>1, <2>2, <2>3, <2>4 DEF Layered
<1>6. ASSUME NEW s \in Steps,
             \/ StartStep(s) \/ StepLoaded(s) \/ StepSlept(s) \/ StepReply(s) \/ DropItem(s)
             \/ StepWakes(s) \/ StepTimesOut(s)
      PROVE  Layered'
  <2>1. /\ UNCHANGED <<course, left, layer, context>>
        /\ \/ at' = at
           \/ /\ s \in Running /\ at'[s] \notin {"new", "cancelled"}
              /\ \A u \in Steps : u # s => at'[u] = at[u]
        /\ \A u \in items' : at'[u] = "waiting"
    BY <1>6, CoroutineStep DEF Layered
  <2>2. NextLayer(left)' = NextLayer(left)
    BY <1>0, <2>1 DEF NextLayer
  <2>3. CASE at' = at
    BY <1>0, <2>1, <2>2, <2>3 DEF Layered, Running
  <2>4. CASE at' # at
    <3>1. s \in Running /\ course = "running" /\ s \notin context
      BY <2>1, <2>4 DEF Layered, Running
    <3>2. at[s] # "new"
      BY <3>1 DEF Running
    <3>3. \A u \in Steps : /\ at'[u] # "cancelled"
                           /\ at'[u] = "new" <=> u \in left \ layer
                           /\ u \in context => at'[u] = "done"
                           /\ at'[u] # "new" => sources[u] \subseteq context
      BY <2>1, <2>4, <3>1, <3>2 DEF Layered
    <3> QED BY <1>0, <2>1, <2>2, <3>1, <3>3 DEF Layered
  <2> QED BY <2>3, <2>4
<1> QED BY <1>1, <1>2, <1>3, <1>4, <1>5, <1>6 DEF EnsembleNext

LEMMA EnsembleInvariant == EnsembleSpec => []EnsembleInv
<1>1. EnsembleInv /\ [EnsembleNext]_ensembleVars => EnsembleInv'
  BY EnsembleTypeStep, DecidedStep, LayeredStep DEF EnsembleInv
<1> QED BY <1>1, EnsembleStarts, PTL DEF EnsembleSpec

\* Every reachable state of the parser and the executor is type-correct, for any ensemble.
THEOREM EnsembleTypeCorrect == EnsembleSpec => []EnsembleTypeOK
<1>1. EnsembleInv => EnsembleTypeOK
  BY DEF EnsembleInv
<1> QED BY <1>1, EnsembleInvariant, PTL

\* For every graph of steps: the parser refuses exactly those with a cycle or an unknown
\* reference; of the others every request runs layer after layer, each step after its
\* sources, and ends, in whatever way, with no step that runs and no item in the buffer
\* (_validate_dag, topological_layers, execute).
THEOREM EnsemblesAreRun == EnsembleSpec => []EnsembleSettles
<1>1. ASSUME EnsembleInv PROVE EnsembleSettles
  <2>1. course # "parse" =>
           (course = "refused" <=> (~Acyclic \/ \E s \in Steps : Unknown \in sources[s]))
    BY <1>1, ValidIs DEF EnsembleInv, Decided
  <2>2. course = "running" => layer # {}
    <3> SUFFICES ASSUME course = "running" PROVE layer # {}
      OBVIOUS
    <3>1. Valid /\ left # {} /\ layer = NextLayer(left)
      BY <1>1 DEF EnsembleInv, Decided, Layered
    <3>2. PICK R \in SUBSET Steps : R = left
      BY <1>1 DEF EnsembleInv, EnsembleTypeOK
    <3> QED BY <1>1, <3>1, <3>2, NextLayerOf DEF EnsembleInv
  <2>3. course \in {"answered", "failed", "cancelled"} => Running = {} /\ items = {}
    BY <1>1 DEF EnsembleInv, Layered, Running, EnsembleTypeOK
  <2> QED BY <1>1, <2>1, <2>2, <2>3 DEF EnsembleInv, Layered, EnsembleSettles
<1> QED BY <1>1, EnsembleInvariant, PTL

-----------------------------------------------------------------------------
(* Orchestration                                                           *)

\* StrategiesKept says nothing of the strategy that the update itself writes, nor
\* of a file that is cut without an update.  While there is an update, and only
\* then, the file is cut, and what is being written is what was acknowledged with
\* this one change.
Drafting ==
    embedded /\ ~failures =>
        /\ cut <=> update # NoUpdate
        /\ cut => drafted = [strategies EXCEPT ![update[1]] = update[2]]
        /\ ~cut => entries = strategies

OrchestrationInv == OrchestrationTypeOK /\ Drafting

LEMMA UpdateIsPair == \A m, s : <<m, s>> # NoUpdate /\ <<m, s>>[1] = m /\ <<m, s>>[2] = s
BY DEF NoUpdate

LEMMA OrchestrationTypeInit == OrchestrationInit => OrchestrationTypeOK
<1> SUFFICES ASSUME OrchestrationInit PROVE OrchestrationTypeOK
  OBVIOUS
<1>1. embedded \in BOOLEAN /\ cut \in BOOLEAN /\ failures \in BOOLEAN
  BY DEF OrchestrationInit
<1>2. /\ {entries, drafted, view, strategies} \subseteq [Models -> Strategies \cup {NoStrategy}]
      /\ updates \in 0 .. MaxUpdates
  BY OrchestrationAssumption DEF OrchestrationInit, NoStrategies
<1>3. update = NoUpdate /\ poller = "run"
  BY DEF OrchestrationInit
<1> QED BY <1>1, <1>2, <1>3 DEF OrchestrationTypeOK

\* A part of a file is a file.
LEMMA ReadTyped ==
    ASSUME OrchestrationTypeOK, NEW orch \in GetOrchestration
    PROVE  orch \in [Models -> Strategies \cup {NoStrategy}]
<1>1. CASE cut
  <2>1. PICK S \in SUBSET Models :
            orch = [m \in Models |-> IF m \in S THEN drafted[m] ELSE NoStrategy]
    BY <1>1 DEF GetOrchestration, Parts
  <2> QED BY <2>1 DEF OrchestrationTypeOK
<1>2. CASE ~cut
  BY <1>2 DEF GetOrchestration, OrchestrationTypeOK
<1> QED BY <1>1, <1>2

LEMMA OrchestrationTypeNext ==
    OrchestrationTypeOK /\ [OrchestrationNext]_orchestrationVars => OrchestrationTypeOK'
<1> SUFFICES ASSUME OrchestrationTypeOK, [OrchestrationNext]_orchestrationVars
             PROVE  OrchestrationTypeOK'
  OBVIOUS
<1>1. ASSUME NEW m \in Models, NEW s \in Strategies, SetModelConfig(m, s)
      PROVE  OrchestrationTypeOK'
  <2>1. updates' \in 0 .. MaxUpdates
    BY <1>1, OrchestrationAssumption DEF SetModelConfig, OrchestrationTypeOK
  <2>2. CASE \E orch \in GetOrchestration : SetOrchestration(Merged(orch, m, s), m, s)
    <3>1. PICK orch \in GetOrchestration : SetOrchestration(Merged(orch, m, s), m, s)
      BY <2>2
    <3>2. Merged(orch, m, s) \in [Models -> Strategies \cup {NoStrategy}]
      BY <3>1, ReadTyped DEF Merged
    <3> QED BY <1>1, <2>1, <3>1, <3>2
             DEF SetModelConfig, SetOrchestration, OrchestrationTypeOK
  <2>3. CASE failures' = TRUE /\ UNCHANGED <<drafted, update, cut>>
    BY <1>1, <2>1, <2>3 DEF SetModelConfig, OrchestrationTypeOK
  <2>4. CASE SetOrchestration(NoStrategies, m, s)
    BY <1>1, <2>1, <2>4 DEF SetModelConfig, SetOrchestration, NoStrategies, OrchestrationTypeOK
  <2> QED BY <1>1, <2>2, <2>3, <2>4 DEF SetModelConfig
<1>2. ASSUME Written PROVE OrchestrationTypeOK'
  BY <1>2 DEF Written, OrchestrationTypeOK
<1>3. ASSUME WriteFails PROVE OrchestrationTypeOK'
  BY <1>3 DEF WriteFails, OrchestrationTypeOK
<1>4. ASSUME PollReads PROVE OrchestrationTypeOK'
  BY <1>4, ReadTyped DEF PollReads, OrchestrationTypeOK
<1>5. CASE UNCHANGED orchestrationVars
  BY <1>5 DEF orchestrationVars, OrchestrationTypeOK
<1> QED BY <1>1, <1>2, <1>3, <1>4, <1>5 DEF OrchestrationNext

LEMMA DraftingInit == OrchestrationInit => Drafting
BY DEF OrchestrationInit, Drafting

LEMMA DraftingNext == OrchestrationInv /\ [OrchestrationNext]_orchestrationVars => Drafting'
<1> SUFFICES ASSUME OrchestrationTypeOK, Drafting, [OrchestrationNext]_orchestrationVars
             PROVE  Drafting'
  BY DEF OrchestrationInv
<1>1. ASSUME NEW m \in Models, NEW s \in Strategies, SetModelConfig(m, s)
      PROVE  Drafting'
  <2> SUFFICES ASSUME embedded, ~failures'
               PROVE  /\ cut' /\ update' # NoUpdate
                      /\ drafted' = [strategies' EXCEPT ![update'[1]] = update'[2]]
    BY <1>1 DEF Drafting, SetModelConfig
  <2>1. PICK orch \in GetOrchestration : SetOrchestration(Merged(orch, m, s), m, s)
    BY <1>1 DEF SetModelConfig
  <2>2. update' = <<m, s>> /\ cut' /\ drafted' = Merged(orch, m, s) /\ ~failures
    BY <2>1 DEF SetOrchestration
  <2>3. orch = strategies
    BY <1>1, <2>2 DEF SetModelConfig, Drafting, GetOrchestration
  <2> QED BY <1>1, <2>2, <2>3, UpdateIsPair DEF Merged, SetModelConfig
<1>2. ASSUME Written PROVE Drafting'
  BY <1>2 DEF Written, Drafting
<1>3. ASSUME WriteFails PROVE Drafting'
  BY <1>3 DEF WriteFails, Drafting
<1>4. CASE UNCHANGED <<embedded, failures, cut, update, drafted, strategies, entries>>
  BY <1>4 DEF Drafting
<1> QED BY <1>1, <1>2, <1>3, <1>4 DEF OrchestrationNext, PollReads, orchestrationVars

\* An update of the orchestration file leaves it within its types (ModelManager.
\* set_orchestration, HTTPState.set_model_config).
THEOREM OrchestrationTypeCorrect == OrchestrationSpec => []OrchestrationTypeOK
<1>1. OrchestrationInit => OrchestrationInv
  BY OrchestrationTypeInit, DraftingInit DEF OrchestrationInv
<1>2. OrchestrationInv /\ [OrchestrationNext]_orchestrationVars => OrchestrationInv'
  BY OrchestrationTypeNext, DraftingNext DEF OrchestrationInv
<1>3. OrchestrationInv => OrchestrationTypeOK
  BY DEF OrchestrationInv
<1> QED BY <1>1, <1>2, <1>3, PTL DEF OrchestrationSpec

\* Through an embedded app, and as long as no write has failed, the file keeps for
\* every model the strategy that was acknowledged last: an update loses no other
\* model's (set_model_config, ModelManager.set_orchestration).
THEOREM UpdatesKeepStrategies == OrchestrationSpec => []StrategiesKept
<1>1. OrchestrationInv => StrategiesKept
  <2> SUFFICES ASSUME OrchestrationTypeOK, Drafting, embedded, ~failures, cut,
                      NEW m \in Models, m # update[1]
               PROVE  drafted[m] = strategies[m]
    BY DEF OrchestrationInv, Drafting, StrategiesKept
  <2> QED BY DEF OrchestrationTypeOK, Drafting
<1>2. OrchestrationInit => OrchestrationInv
  BY OrchestrationTypeInit, DraftingInit DEF OrchestrationInv
<1>3. OrchestrationInv /\ [OrchestrationNext]_orchestrationVars => OrchestrationInv'
  BY OrchestrationTypeNext, DraftingNext DEF OrchestrationInv
<1> QED BY <1>1, <1>2, <1>3, PTL DEF OrchestrationSpec

-----------------------------------------------------------------------------
(* Artifacts                                                               *)

\* CacheServesWhole is about times when nothing is being extracted.  In between, a
\* directory that is being extracted is not complete, and the one scan that does so
\* has written, of the archive it has, all but what it has yet to write.
Complete(k) == k \in exists /\ \A t \in Extracting : job[t].key # k

\* What is hashed or packed goes by a manifest that there has been.
Archived ==
    /\ packer # "idle" => draft.key \in Keys /\ draft \in hashed
    /\ lma \in [key : Keys \cup {NoKey}, sums : [Versions -> Editions \cup {None}],
                contents : [Versions -> Editions \cup {None}]]
    /\ lma.key # NoKey => [key |-> lma.key, sums |-> lma.sums] \in hashed

\* A scan has a key, and versions of the archive to write.
Jobs ==
    /\ job \in [Scanners -> [key : Keys \cup {NoKey}, todo : Seq(Versions)]]
    /\ \A t \in Scanning : job[t].key \in Keys

\* Undisturbed, a scan that extracts is the only one, and it reads the archive
\* that was there when it began.
Unpacking ==
    \A t \in Scanning :
        /\ scan[t] = "list" => Complete(job[t].key)
        /\ scan[t] # "list" => Scanning = {t} /\ lma.key = job[t].key /\ lma.sums = lma.contents
        /\ scan[t] = "clear" => job[t].key \notin exists /\ job[t].todo = Files
        /\ scan[t] = "write" =>
              /\ job[t].key \in exists \/ job[t].todo = Files
              /\ \A v \in Versions \ ToSet(job[t].todo) : cache[job[t].key][v] = lma.contents[v]
              /\ Genuine(job[t].key) = Versions

\* A complete directory is what some manifest says, but for what an operator has
\* deleted or configured in it.
Agrees(k) ==
    /\ \E m \in hashed : m.key = k /\ \A v \in Genuine(k) : cache[k][v] = m.sums[v]
    /\ \A v \in Versions \ Genuine(k) : cache[k][v] \in {None, Part, Edited}

Extracted == \A k \in exists : Complete(k) => Agrees(k)

\* A scan that finds the model finds all of it but that.
Listed == \A t \in Scanners : listed[t] # {} => \E k \in exists : Genuine(k) \subseteq listed[t]

\* What is being loaded, or is loaded, is complete.
Held(v, k) == IF v \in Genuine(k) THEN cache[k][v] = loaded[v] ELSE cache[k][v] # None

InUse ==
    /\ path # NoKey => Complete(path) \/ Versions = {}
    /\ \A v \in Versions : loading[v] # NoKey => Complete(loading[v])
    /\ \A v \in Versions : loaded[v] # None => \E k \in exists : Complete(k) /\ Held(v, k)

Sound == Unpacking /\ Extracted /\ Listed /\ InUse

\* The types, a group of variables at a time.
PackTyped ==
    /\ tree \in [Versions -> Editions]
    /\ packer \in {"idle", "hashed", "packed"}
    /\ draft \in [key : Keys \cup {NoKey}, sums : [Versions -> Editions \cup {None}]]
    /\ hashed \subseteq [key : Keys, sums : [Versions -> Editions]]

CacheTyped ==
    /\ cache \in [Keys -> [Versions -> Editions \cup {None, Part, Edited}]]
    /\ exists \subseteq Keys /\ altered \subseteq Keys \X Versions

ScanTyped ==
    /\ scan \in [Scanners -> {"idle", "clear", "write", "list"}]
    /\ listed \in [Scanners -> SUBSET Versions]

LoadTyped ==
    /\ path \in Keys \cup {NoKey}
    /\ loading \in [Versions -> Keys \cup {NoKey}]
    /\ loaded \in [Versions -> Editions \cup {None, Part, Edited}]
    /\ deleting \subseteq Versions

AllTyped == PackTyped /\ CacheTyped /\ ScanTyped /\ LoadTyped /\ disturbed \in BOOLEAN

ArtifactsInv == AllTyped /\ Archived /\ Jobs /\ (~disturbed => Sound)

LEMMA EditionsApart ==
    /\ MaxEdits \in Nat /\ None \in Nat /\ Part \in Nat /\ Edited \in Nat /\ 0 \in Editions
    /\ None \notin Editions /\ None # Part /\ None # Edited
    /\ NoKey \notin Keys
    /\ Files \in Seq(Versions) /\ ToSet(Files) = Versions
<1>1. MaxEdits \in Nat /\ NoKey \notin Keys /\ Files \in Seq(Versions)
  BY ArtifactsAssumption
<1>2. ToSet(Files) = Versions
  BY DEF ToSet, Versions, Range
<1>3. /\ None \in Nat /\ Part \in Nat /\ Edited \in Nat /\ 0 \in Editions
      /\ None \notin Editions /\ None # Part /\ None # Edited
  BY <1>1 DEF None, Part, Edited, Editions
<1> QED BY <1>1, <1>2, <1>3

LEMMA ArtifactsStarts == ArtifactsInit => ArtifactsInv
<1> SUFFICES ASSUME ArtifactsInit PROVE ArtifactsInv
  OBVIOUS
<1>1. PackTyped
  <2>1. tree \in [Versions -> Editions]
    BY EditionsApart DEF ArtifactsInit
  <2> QED BY <2>1 DEF ArtifactsInit, PackTyped, NoDraft, Nothing
<1>2. CacheTyped
  <2>1. cache = [k \in Keys |-> [v \in Versions |-> None]] /\ exists = {} /\ altered = {}
    BY DEF ArtifactsInit, Nothing
  <2> QED BY <2>1 DEF CacheTyped
<1>3. ScanTyped
  BY DEF ArtifactsInit, ScanTyped
<1>4. LoadTyped
  BY DEF ArtifactsInit, LoadTyped, NoLoads, Nothing
<1>5. Archived
  BY DEF ArtifactsInit, Archived, NoLma, Nothing
<1>6. Scanning = {} /\ Extracting = {}
  BY DEF ArtifactsInit, Scanning, Extracting
<1>7. Jobs
  <2>1. <<>> \in Seq(Versions)
    BY EmptySeq
  <2> QED BY <1>6, <2>1 DEF ArtifactsInit, Jobs
<1>8. Sound
  <2>1. exists = {} /\ path = NoKey /\ listed = [t \in Scanners |-> {}]
        /\ loading = [v \in Versions |-> NoKey] /\ loaded = [v \in Versions |-> None]
    BY DEF ArtifactsInit, NoLoads, Nothing
  <2> QED BY <1>6, <2>1 DEF Sound, Unpacking, Extracted, Listed, InUse
<1>9. disturbed \in BOOLEAN
  BY DEF ArtifactsInit
<1> QED BY <1>1, <1>2, <1>3, <1>4, <1>5, <1>7, <1>8, <1>9 DEF ArtifactsInv, AllTyped

\* One step has one of these forms, each with what it changes.
LEMMA PackStep ==
    ASSUME AllTyped, Archived, [ArtifactsNext]_artifactVars
    PROVE  PackTyped' /\ Archived'
<1>1. CASE UNCHANGED <<packVars, lma>>
  BY <1>1 DEF AllTyped, PackTyped, Archived, packVars
<1>2. ASSUME NEW v \in Versions, Edit(v) PROVE PackTyped' /\ Archived'
  <2>1. tree[v] + 1 \in Editions
    BY <1>2, EditionsApart DEF Edit, AllTyped, PackTyped, Editions
  <2>2. tree' \in [Versions -> Editions]
    BY <1>2, <2>1 DEF Edit, AllTyped, PackTyped
  <2> QED BY <1>2, <2>2 DEF Edit, AllTyped, PackTyped, Archived
<1>3. ASSUME NEW k \in Keys, Hash(k) PROVE PackTyped' /\ Archived'
  <2>1. /\ draft' = [key |-> k, sums |-> tree] /\ hashed' = hashed \cup {draft'}
        /\ packer' = "hashed" /\ UNCHANGED <<tree, lma>>
    BY <1>3 DEF Hash
  <2>2. draft' \in [key : Keys, sums : [Versions -> Editions]]
    BY <2>1 DEF AllTyped, PackTyped
  <2> QED BY <2>1, <2>2 DEF AllTyped, PackTyped, Archived
<1>4. ASSUME Pack PROVE PackTyped' /\ Archived'
  <2>1. /\ packer # "idle" /\ packer' = "packed" /\ UNCHANGED <<tree, draft, hashed>>
        /\ lma' = [key |-> draft.key, sums |-> draft.sums, contents |-> tree]
    BY <1>4 DEF Pack
  <2>2. draft = [key |-> draft.key, sums |-> draft.sums]
    BY DEF AllTyped, PackTyped
  <2>3. PackTyped'
    BY <2>1 DEF AllTyped, PackTyped
  <2>4. draft.key \in Keys /\ draft \in hashed
    BY <2>1 DEF Archived
  <2>5. /\ draft.key \in Keys \cup {NoKey} /\ tree \in [Versions -> Editions \cup {None}]
        /\ draft.sums \in [Versions -> Editions \cup {None}]
    BY DEF AllTyped, PackTyped
  <2>6. lma'.key = draft.key /\ lma'.sums = draft.sums
    BY <2>1
  <2>7. lma' \in [key : Keys \cup {NoKey}, sums : [Versions -> Editions \cup {None}],
                  contents : [Versions -> Editions \cup {None}]]
    BY <2>1, <2>5
  <2>8. [key |-> lma'.key, sums |-> lma'.sums] \in hashed
    BY <2>2, <2>4, <2>6, Zenon
  <2> QED BY <2>1, <2>3, <2>4, <2>7, <2>8 DEF Archived
<1>5. ASSUME ArtifactsNext, ~UNCHANGED <<packVars, lma>>
      PROVE  Pack \/ (\E v \in Versions : Edit(v)) \/ (\E k \in Keys : Hash(k))
  BY <1>5, Zenon DEF ArtifactsNext, Resolve, Register, UnloadArtifact, DeleteVersion,
              RemoveVersion, SetVersionConfig, Validate, Clear, Write, ListModel, ScanFails, Crash
<1>6. CASE UNCHANGED artifactVars
  BY <1>1, <1>6 DEF artifactVars
<1> QED BY <1>1, <1>2, <1>3, <1>4, <1>5, <1>6

\* The scans: each step moves one of them, or restarts them all.
LEMMA ScanStep ==
    ASSUME AllTyped, Archived, Jobs, [ArtifactsNext]_artifactVars
    PROVE  ScanTyped' /\ Jobs'
<1> DEFINE Typed == ScanTyped' /\ Jobs'
<1>0. NoKey \in Keys \cup {NoKey} /\ <<>> \in Seq(Versions)
  BY EmptySeq
<1>1. CASE UNCHANGED scanVars
  BY <1>1 DEF AllTyped, ScanTyped, Jobs, Scanning, scanVars
<1>2. ASSUME NEW t \in Scanners, scan' = [scan EXCEPT ![t] = "idle"],
             job' = [job EXCEPT ![t] = [key |-> NoKey, todo |-> <<>>]],
             NEW vs \in SUBSET Versions, listed' = [listed EXCEPT ![t] = vs]
      PROVE  Typed
  <2>1. ScanTyped'
    BY <1>2 DEF AllTyped, ScanTyped
  <2>2. job' \in [Scanners -> [key : Keys \cup {NoKey}, todo : Seq(Versions)]]
    BY <1>0, <1>2 DEF Jobs
  <2>3. \A u \in Scanning' : u # t /\ u \in Scanning /\ job'[u] = job[u]
    BY <1>2 DEF Scanning, AllTyped, ScanTyped, Jobs
  <2> QED BY <2>1, <2>2, <2>3 DEF Jobs
<1>3. ASSUME NEW t \in Scanners, Validate(t) PROVE Typed
  <2>1. CASE Corrupted
    <3>1. listed' = [listed EXCEPT ![t] = {}] /\ UNCHANGED <<scan, job>>
      BY <1>3, <2>1 DEF Validate
    <3> QED BY <3>1 DEF AllTyped, ScanTyped, Jobs, Scanning
  <2>2. CASE ~Corrupted
    <3>1. /\ scan' = [scan EXCEPT ![t] = IF lma.key \in exists THEN "list" ELSE "clear"]
          /\ job' = [job EXCEPT ![t] = [key |-> lma.key, todo |-> Files]]
          /\ UNCHANGED listed
      BY <1>3, <2>2 DEF Validate
    <3>2. lma.key \in Keys /\ Files \in Seq(Versions)
      BY <2>2, EditionsApart DEF Corrupted, Archived
    <3>3. ScanTyped'
      BY <3>1 DEF AllTyped, ScanTyped
    <3>4. job' \in [Scanners -> [key : Keys \cup {NoKey}, todo : Seq(Versions)]]
      BY <3>1, <3>2 DEF Jobs
    <3>5. \A u \in Scanning' : job'[u].key \in Keys
      BY <3>1, <3>2 DEF Scanning, AllTyped, ScanTyped, Jobs
    <3> QED BY <3>3, <3>4, <3>5 DEF Jobs
  <2> QED BY <2>1, <2>2
<1>4. ASSUME NEW t \in Scanners, Clear(t) PROVE Typed
  <2>1. scan[t] = "clear" /\ scan' = [scan EXCEPT ![t] = "write"] /\ UNCHANGED <<job, listed>>
    BY <1>4 DEF Clear
  <2>2. ScanTyped' /\ Scanning' = Scanning
    BY <2>1 DEF AllTyped, ScanTyped, Scanning
  <2> QED BY <2>1, <2>2 DEF Jobs
<1>5. ASSUME NEW t \in Scanners, Write(t) PROVE Typed
  <2>1. /\ job[t].todo # <<>> /\ job' = [job EXCEPT ![t].todo = Tail(@)]
        /\ UNCHANGED <<scan, listed>>
    BY <1>5 DEF Write
  <2>2. Tail(job[t].todo) \in Seq(Versions)
    BY <2>1, TailSet DEF Jobs
  <2>3. job' \in [Scanners -> [key : Keys \cup {NoKey}, todo : Seq(Versions)]]
        /\ \A u \in Scanners : job'[u].key = job[u].key
    BY <2>1, <2>2 DEF Jobs
  <2> QED BY <2>1, <2>3 DEF Jobs, AllTyped, ScanTyped, Scanning
<1>6. ASSUME NEW t \in Scanners, ListModel(t) PROVE Typed
  <2>1. {v \in Versions : cache[job[t].key][v] # None} \in SUBSET Versions
    OBVIOUS
  <2> QED BY <1>2, <1>6, <2>1 DEF ListModel
<1>7. ASSUME NEW t \in Scanners, ScanFails(t) PROVE Typed
  <2>1. {} \in SUBSET Versions
    OBVIOUS
  <2> QED BY <1>2, <1>7, <2>1 DEF ScanFails
<1>8. ASSUME scan' = scan, job' = job, listed' = [t \in Scanners |-> {}] PROVE Typed
  BY <1>8 DEF AllTyped, ScanTyped, Jobs, Scanning
<1>9. ASSUME NEW v \in Versions, UnloadArtifact(v) \/ DeleteVersion(v) PROVE Typed
  <2>1. Unload(v) \/ listed' = listed
    BY <1>9, Zenon DEF UnloadArtifact, DeleteVersion
  <2>2. listed' = listed \/ listed' = [t \in Scanners |-> {}]
    BY <2>1 DEF Unload, Purge
  <2>3. scan' = scan /\ job' = job
    BY <1>9 DEF UnloadArtifact, DeleteVersion
  <2> QED BY <1>1, <1>8, <2>2, <2>3 DEF scanVars
<1>10. ASSUME Crash PROVE Typed
  <2>1. /\ scan' = [t \in Scanners |-> "idle"] /\ listed' = [t \in Scanners |-> {}]
        /\ job' = [t \in Scanners |-> [key |-> NoKey, todo |-> <<>>]]
    BY <1>10 DEF Crash
  <2>2. Scanning' = {}
    BY <2>1 DEF Scanning
  <2> QED BY <1>0, <2>1, <2>2 DEF ScanTyped, Jobs
<1>11. ASSUME ArtifactsNext, ~UNCHANGED scanVars
      PROVE  \/ Crash
             \/ \E v \in Versions : UnloadArtifact(v) \/ DeleteVersion(v)
             \/ \E t \in Scanners : Validate(t) \/ Clear(t) \/ Write(t) \/ ListModel(t) \/ ScanFails(t)
  BY <1>11 DEF ArtifactsNext, Pack, Edit, Hash, Resolve, Register, RemoveVersion, SetVersionConfig
<1>12. CASE UNCHANGED artifactVars
  BY <1>1, <1>12 DEF artifactVars
<1> QED BY <1>1, <1>3, <1>4, <1>5, <1>6, <1>7, <1>9, <1>10, <1>11, <1>12

\* The directories of the cache.
LEMMA CacheStep ==
    ASSUME AllTyped, Archived, Jobs, [ArtifactsNext]_artifactVars
    PROVE  CacheTyped'
<1>1. CASE UNCHANGED cacheVars
  BY <1>1 DEF AllTyped, CacheTyped, cacheVars
<1>2. ASSUME NEW t \in Scanners, Clear(t) PROVE CacheTyped'
  <2>1. /\ exists' = exists \ {job[t].key} /\ cache' = [cache EXCEPT ![job[t].key] = Nothing]
        /\ altered' \subseteq altered
    BY <1>2 DEF Clear
  <2>2. Nothing \in [Versions -> Editions \cup {None, Part, Edited}]
    BY DEF Nothing
  <2> QED BY <2>1, <2>2 DEF AllTyped, CacheTyped
<1>3. ASSUME NEW t \in Scanners, Write(t) PROVE CacheTyped'
  <2>1. PICK k : k = job[t].key
    OBVIOUS
  <2>2. PICK v : v = Head(job[t].todo)
    OBVIOUS
  <2>3. /\ scan[t] = "write" /\ job[t].todo # <<>>
        /\ exists' = exists \cup {k} /\ cache' = [cache EXCEPT ![k][v] = lma.contents[v]]
        /\ altered' = altered
    BY <1>3, <2>1, <2>2 DEF Write
  <2>4. k \in Keys
    BY <2>1, <2>3 DEF Jobs, Scanning
  <2>5. v \in Versions
    BY <2>2, <2>3, TailSet DEF Jobs
  <2>6. lma.contents[v] \in Editions \cup {None, Part}
    BY <2>5 DEF Archived
  <2> QED BY <2>3, <2>4, <2>5, <2>6 DEF AllTyped, CacheTyped
<1>4. ASSUME NEW v \in Versions, UnloadArtifact(v) \/ DeleteVersion(v) PROVE CacheTyped'
  <2>1. Purge \/ UNCHANGED cacheVars
    BY <1>4, Zenon DEF UnloadArtifact, DeleteVersion, Unload
  <2>2. CASE Purge
    <3>1. exists' = {} /\ altered' = {} /\ cache' = [k \in Keys |-> [w \in Versions |-> None]]
      BY <2>2 DEF Purge, Nothing
    <3> QED BY <3>1 DEF CacheTyped
  <2> QED BY <1>1, <2>1, <2>2
<1>5. ASSUME Crash PROVE CacheTyped'
  <2> DEFINE broken == {t \in Scanners : scan[t] = "write" /\ job[t].todo # <<>>}
  <2>1. PICK S \in SUBSET broken :
            /\ exists' = exists \cup {job[t].key : t \in S}
            /\ cache' = [k \in Keys |-> [v \in Versions |->
                           IF \E t \in S : job[t].key = k /\ Head(job[t].todo) = v
                           THEN Part ELSE cache[k][v]]]
            /\ altered' = altered
    BY <1>5 DEF Crash
  <2>2. {job[t].key : t \in S} \subseteq Keys
    BY DEF Jobs, Scanning
  <2> HIDE DEF broken
  <2> QED BY <2>1, <2>2 DEF AllTyped, CacheTyped
<1>6. ASSUME ArtifactsNext, ~UNCHANGED cacheVars
      PROVE  \/ Crash
             \/ \E v \in Versions : \/ UnloadArtifact(v) \/ DeleteVersion(v)
                                    \/ RemoveVersion(v) \/ SetVersionConfig(v)
             \/ \E t \in Scanners : Clear(t) \/ Write(t)
  BY <1>6 DEF ArtifactsNext, Pack, Edit, Hash, Resolve, Register, Validate, ListModel, ScanFails
<1>7. CASE UNCHANGED artifactVars
  BY <1>1, <1>7 DEF artifactVars
<1>8. ASSUME NEW v \in Versions, RemoveVersion(v) \/ SetVersionConfig(v) PROVE CacheTyped'
  <2>1. CASE path = NoKey
    BY <1>1, <1>8, <2>1 DEF RemoveVersion, SetVersionConfig, cacheVars
  <2>2. CASE path # NoKey
    <3>1. path \in Keys
      BY <2>2 DEF AllTyped, LoadTyped
    <3>2. /\ exists' \in {exists, exists \cup {path}}
          /\ altered' \in {altered, altered \cup {<<path, v>>}}
          /\ \E x \in {cache[path][v], None, Part, Edited} : cache' = [cache EXCEPT ![path][v] = x]
      <4>1. CASE RemoveVersion(v) /\ cache[path][v] = None
        <5>1. cache = [cache EXCEPT ![path][v] = cache[path][v]]
          BY <3>1 DEF AllTyped, CacheTyped
        <5> QED BY <2>2, <4>1, <5>1 DEF RemoveVersion
      <4>2. CASE RemoveVersion(v) /\ cache[path][v] # None
        BY <2>2, <4>2 DEF RemoveVersion
      <4>3. CASE SetVersionConfig(v)
        <5>1. cache' = [cache EXCEPT ![path][v] = IF cache[path][v] = None THEN None ELSE Edited]
          BY <3>1, <4>3 DEF SetVersionConfig, AllTyped, CacheTyped
        <5> QED BY <4>3, <5>1 DEF SetVersionConfig
      <4> QED BY <1>8, <4>1, <4>2, <4>3
    <3>3. PICK x \in {cache[path][v], None, Part, Edited} : cache' = [cache EXCEPT ![path][v] = x]
      BY <3>2
    <3>4. x \in Editions \cup {None, Part, Edited}
      BY <3>1 DEF AllTyped, CacheTyped
    <3>5. cache' \in [Keys -> [Versions -> Editions \cup {None, Part, Edited}]]
      BY <3>1, <3>3, <3>4 DEF AllTyped, CacheTyped
    <3> QED BY <3>1, <3>2, <3>5 DEF AllTyped, CacheTyped
  <2> QED BY <2>1, <2>2
<1> QED BY <1>1, <1>2, <1>3, <1>4, <1>5, <1>6, <1>7, <1>8

\* What is loaded from it.
LEMMA LoadStep ==
    ASSUME AllTyped, Archived, Jobs, [ArtifactsNext]_artifactVars
    PROVE  LoadTyped' /\ disturbed' \in BOOLEAN
<1>0. disturbed' \in BOOLEAN
  <2>1. CASE UNCHANGED disturbed
    BY <2>1 DEF AllTyped
  <2>2. ASSUME Purge PROVE disturbed' \in BOOLEAN
    BY <2>2 DEF Purge
  <2>3. ASSUME Pack PROVE disturbed' \in BOOLEAN
    BY <2>3 DEF Pack, Disturb
  <2>4. ASSUME Crash PROVE disturbed' \in BOOLEAN
    BY <2>4 DEF Crash, Disturb
  <2>5. ASSUME NEW t \in Scanners, Validate(t) PROVE disturbed' \in BOOLEAN
    BY <2>5, <2>1 DEF Validate, Disturb
  <2>6. ASSUME NEW t \in Scanners, ScanFails(t) PROVE disturbed' \in BOOLEAN
    BY <2>6 DEF ScanFails, Disturb
  <2>7. ASSUME NEW v \in Versions, UnloadArtifact(v) \/ DeleteVersion(v)
        PROVE  disturbed' \in BOOLEAN
    <3>1. Purge \/ UNCHANGED disturbed
      BY <2>7, Zenon DEF UnloadArtifact, DeleteVersion, Unload
    <3> QED BY <2>1, <2>2, <3>1
  <2>8. ASSUME NEW v \in Versions, RemoveVersion(v) PROVE disturbed' \in BOOLEAN
    BY <2>1, <2>8 DEF RemoveVersion, Disturb
  <2> QED BY <2>1, <2>3, <2>4, <2>5, <2>6, <2>7, <2>8
          DEF ArtifactsNext, artifactVars, Edit, Hash, Resolve, Register, SetVersionConfig, Clear,
              Write, ListModel
<1>1. CASE UNCHANGED loadVars
  BY <1>0, <1>1 DEF AllTyped, LoadTyped, loadVars
<1>2. ASSUME NEW t \in Scanners, ListModel(t) PROVE LoadTyped'
  <2>1. /\ path' = (IF t \in Main THEN job[t].key ELSE path)
        /\ UNCHANGED <<loading, loaded, deleting>>
    BY <1>2 DEF ListModel
  <2>2. job[t].key \in Keys \cup {NoKey}
    BY DEF Jobs
  <2> QED BY <2>1, <2>2 DEF AllTyped, LoadTyped
<1>3. ASSUME NEW v \in Versions, Resolve(v) PROVE LoadTyped'
  BY <1>3 DEF Resolve, AllTyped, LoadTyped
<1>4. ASSUME NEW v \in Versions, Register(v) PROVE LoadTyped'
  <2>1. /\ loading[v] \in Keys /\ path' = path /\ deleting' = deleting
        /\ loading' = [loading EXCEPT ![v] = NoKey]
        /\ loaded' = [loaded EXCEPT ![v] = cache[loading[v]][v]]
    BY <1>4 DEF Register, AllTyped, LoadTyped
  <2>2. cache[loading[v]][v] \in Editions \cup {None, Part, Edited}
    BY <2>1 DEF AllTyped, CacheTyped
  <2> QED BY <2>1, <2>2 DEF AllTyped, LoadTyped
<1>5. ASSUME NEW v \in Versions, UnloadArtifact(v) \/ DeleteVersion(v) \/ RemoveVersion(v)
      PROVE  LoadTyped'
  <2>1. Unload(v) \/ UNCHANGED <<path, loaded>>
    BY <1>5, Zenon DEF UnloadArtifact, DeleteVersion, RemoveVersion
  <2>2. path' \in {path, NoKey} /\ (loaded' = loaded \/ loaded' = [loaded EXCEPT ![v] = None])
    BY <2>1 DEF Unload, Purge
  <2>3. loading' = loading /\ deleting' \in {deleting, deleting \cup {v}, deleting \ {v}}
    BY <1>5 DEF UnloadArtifact, DeleteVersion, RemoveVersion
  <2> QED BY <2>2, <2>3 DEF AllTyped, LoadTyped
<1>6. ASSUME Crash PROVE LoadTyped'
  <2>1. path' = NoKey /\ loading' = NoLoads /\ loaded' = Nothing /\ deleting' = {}
    BY <1>6 DEF Crash
  <2>2. NoLoads \in [Versions -> Keys \cup {NoKey}]
    BY DEF NoLoads
  <2>3. Nothing \in [Versions -> Editions \cup {None, Part, Edited}]
    BY Zenon DEF Nothing
  <2> QED BY <2>1, <2>2, <2>3 DEF LoadTyped
<1>7. ASSUME ArtifactsNext, ~UNCHANGED loadVars
      PROVE  \/ Crash
             \/ \E v \in Versions : \/ Resolve(v) \/ Register(v) \/ UnloadArtifact(v)
                                    \/ DeleteVersion(v) \/ RemoveVersion(v)
             \/ \E t \in Scanners : ListModel(t)
  BY <1>7, Zenon DEF ArtifactsNext, Pack, Edit, Hash, SetVersionConfig, Validate, Clear, Write,
                     ScanFails
<1>8. CASE UNCHANGED artifactVars
  BY <1>0, <1>1, <1>8 DEF artifactVars
<1> QED BY <1>0, <1>1, <1>2, <1>3, <1>4, <1>5, <1>6, <1>7, <1>8

\* What the parts of Sound need of a step that does not concern them.
LEMMA CompleteKept ==
    ASSUME NEW k, Complete(k), k \in exists',
           \A u \in Extracting' : job'[u].key # k \/ (u \in Extracting /\ job'[u].key = job[u].key)
    PROVE  Complete(k)'
BY DEF Complete

LEMMA GenuineKept ==
    ASSUME altered' = altered
    PROVE  \A k : Genuine(k)' = Genuine(k)
BY DEF Genuine

LEMMA HeldKept ==
    ASSUME NEW v, NEW k, Held(v, k), cache'[k] = cache[k], Genuine(k)' = Genuine(k),
           loaded'[v] = loaded[v]
    PROVE  Held(v, k)'
BY DEF Held

LEMMA InUseKept ==
    ASSUME InUse, UNCHANGED loadVars,
           \A k \in exists : Complete(k) => /\ k \in exists' /\ Complete(k)'
                                          /\ cache'[k] = cache[k] /\ Genuine(k)' = Genuine(k)
    PROVE  InUse'
<1>1. \A k : Complete(k) => Complete(k)'
  BY DEF Complete
<1>2. path' = path /\ loading' = loading /\ loaded' = loaded
  BY DEF loadVars
<1>3. (path # NoKey => Complete(path) \/ Versions = {})'
  BY <1>1, <1>2 DEF InUse, Complete
<1>4. (\A v \in Versions : loading[v] # NoKey => Complete(loading[v]))'
  BY <1>1, <1>2 DEF InUse, Complete
<1>5. ASSUME NEW v \in Versions, loaded[v] # None
      PROVE  \E k \in exists' : Complete(k)' /\ Held(v, k)'
  <2>1. PICK k \in exists : Complete(k) /\ Held(v, k)
    BY <1>5 DEF InUse
  <2>2. Held(v, k)'
    BY <1>2, <2>1, HeldKept
  <2> QED BY <2>1, <2>2
<1> QED BY <1>2, <1>3, <1>4, <1>5 DEF InUse

LEMMA ExtractedKept ==
    ASSUME Extracted, hashed \subseteq hashed',
           \A k \in exists' : Complete(k)' => /\ k \in exists /\ Complete(k)
                                            /\ cache'[k] = cache[k] /\ Genuine(k)' = Genuine(k)
    PROVE  Extracted'
<1>1. ASSUME NEW k \in exists', Complete(k)' PROVE Agrees(k)'
  <2>1. Agrees(k) /\ cache'[k] = cache[k] /\ Genuine(k)' = Genuine(k)
    BY <1>1 DEF Extracted
  <2> QED BY <2>1 DEF Agrees
<1> QED BY <1>1 DEF Extracted

LEMMA ListedKept ==
    ASSUME Listed, listed' = listed,
           \A k \in exists : k \in exists' /\ Genuine(k)' \subseteq Genuine(k)
    PROVE  Listed'
<1>1. ASSUME NEW t \in Scanners, listed[t] # {}
      PROVE  \E k \in exists' : Genuine(k)' \subseteq listed[t]
  <2>1. PICK k \in exists : Genuine(k) \subseteq listed[t]
    BY <1>1 DEF Listed
  <2>2. k \in exists' /\ Genuine(k)' \subseteq listed[t]
    BY <2>1
  <2> QED BY <2>2
<1> QED BY <1>1 DEF Listed

\* What is complete is what a manifest says, so no file of it is missing but what an
\* operator has deleted.
LEMMA CompleteIsWhole ==
    ASSUME AllTyped, Extracted, NEW k \in exists, Complete(k)
    PROVE  \A v \in Genuine(k) : cache[k][v] # None
<1>1. PICK m \in hashed : m.key = k /\ \A v \in Genuine(k) : cache[k][v] = m.sums[v]
  BY DEF Extracted, Agrees
<1>2. m.sums \in [Versions -> Editions]
  BY DEF AllTyped, PackTyped
<1>3. Genuine(k) \subseteq Versions
  BY DEF Genuine
<1> QED BY <1>1, <1>2, <1>3, EditionsApart

\* Steps of the packer.
LEMMA PackingSound ==
    ASSUME AllTyped, Sound, UNCHANGED <<cacheVars, scanVars, loadVars>>, hashed \subseteq hashed',
           lma' = lma \/ Extracting = {}
    PROVE  Sound'
<1>1. /\ cache' = cache /\ exists' = exists /\ scan' = scan /\ job' = job /\ listed' = listed
      /\ UNCHANGED loadVars /\ \A k : Genuine(k)' = Genuine(k)
  BY GenuineKept DEF cacheVars, scanVars
<1>2. Scanning' = Scanning /\ Extracting' = Extracting
  BY <1>1 DEF Scanning, Extracting
<1>3. \A k : Complete(k)' <=> Complete(k)
  BY <1>1, <1>2 DEF Complete
<1>4. Extracted' /\ Listed' /\ InUse'
  BY <1>1, <1>3, ExtractedKept, InUseKept, ListedKept DEF Sound
<1>5. ASSUME NEW t \in Scanning
      PROVE /\ scan[t] = "list" => Complete(job[t].key)'
            /\ scan[t] # "list" => Scanning = {t} /\ lma'.key = job[t].key /\ lma'.sums = lma'.contents
            /\ scan[t] = "clear" => job[t].key \notin exists /\ job[t].todo = Files
            /\ scan[t] = "write" =>
              /\ job[t].key \in exists \/ job[t].todo = Files
              /\ \A v \in Versions \ ToSet(job[t].todo) : cache[job[t].key][v] = lma'.contents[v]
              /\ Genuine(job[t].key) = Versions
  <2>1. CASE lma' = lma
    BY <1>1, <1>2, <2>1 DEF Sound, Unpacking, Complete
  <2>2. CASE Extracting = {}
    <3>1. scan[t] = "list"
      BY <2>2 DEF Extracting, Scanning, AllTyped, ScanTyped
    <3>2. job'[t] = job[t] /\ Complete(job[t].key)
      BY <1>1, <3>1 DEF Sound, Unpacking
    <3> QED BY <1>1, <1>2, <3>1, <3>2 DEF Complete
  <2> QED BY <2>1, <2>2
<1>6. Unpacking'
  BY <1>1, <1>2, <1>5 DEF Unpacking
<1> QED BY <1>4, <1>6 DEF Sound

\* A scan that finds the directory lists it; otherwise it begins to extract.
LEMMA ValidateSound ==
    ASSUME ArtifactsInv, Sound, NEW t \in Scanners, Validate(t), ~disturbed'
    PROVE  Sound'
<1>1. /\ scan[t] = "idle" /\ UNCHANGED <<packVars, lma, cacheVars, loadVars>>
      /\ t \notin Scanning /\ t \notin Extracting
  BY DEF Validate, Scanning, Extracting
<1>2. /\ cache' = cache /\ exists' = exists /\ hashed' = hashed /\ lma' = lma
      /\ \A k : Genuine(k)' = Genuine(k)
  BY <1>1, GenuineKept DEF cacheVars, packVars
<1>3. CASE Corrupted
  <2>1. listed' = [listed EXCEPT ![t] = {}] /\ UNCHANGED <<scan, job>>
    BY <1>3 DEF Validate
  <2>2. Scanning' = Scanning /\ Extracting' = Extracting
    BY <2>1 DEF Scanning, Extracting
  <2>3. \A k : Complete(k)' <=> Complete(k)
    BY <1>2, <2>1, <2>2 DEF Complete
  <2>4. Extracted' /\ InUse'
    BY <1>1, <1>2, <2>3, ExtractedKept, InUseKept DEF Sound
  <2>5. Listed'
    BY <1>2, <2>1 DEF Sound, Listed, ArtifactsInv, AllTyped, ScanTyped
  <2>6. Unpacking'
    BY <1>2, <2>1, <2>2 DEF Sound, Unpacking, Complete
  <2> QED BY <2>4, <2>5, <2>6 DEF Sound
<1>4. CASE ~Corrupted /\ lma.key \in exists
  <2>1. /\ scan' = [scan EXCEPT ![t] = "list"] /\ listed' = listed
        /\ job' = [job EXCEPT ![t] = [key |-> lma.key, todo |-> Files]]
        /\ Extracting = {}
    BY <1>4 DEF Validate, Disturb
  <2>2. Extracting' = {} /\ Scanning' = Scanning \cup {t}
    BY <1>1, <2>1 DEF Extracting, Scanning, ArtifactsInv, AllTyped, ScanTyped
  <2>3. \A k : (Complete(k)' <=> k \in exists) /\ (Complete(k) <=> k \in exists)
    BY <1>2, <2>1, <2>2 DEF Complete
  <2>4. Extracted' /\ InUse' /\ Listed'
    BY <1>1, <1>2, <2>1, <2>3, ExtractedKept, InUseKept, ListedKept DEF Sound
  <2>5. ASSUME NEW u \in Scanning' PROVE scan'[u] = "list" /\ job'[u].key \in exists'
    <3>1. CASE u = t
      BY <1>2, <1>4, <2>1, <3>1 DEF ArtifactsInv, AllTyped, ScanTyped, Jobs
    <3>2. CASE u # t
      <4>1. /\ u \in Scanning /\ u \notin Extracting /\ u \in Scanners
            /\ scan'[u] = scan[u] /\ job'[u] = job[u]
        BY <2>1, <2>2, <3>2 DEF ArtifactsInv, AllTyped, ScanTyped, Jobs, Scanning
      <4>2. scan[u] = "list"
        BY <4>1 DEF Extracting, Scanning, ArtifactsInv, AllTyped, ScanTyped
      <4> QED BY <1>2, <4>1, <4>2 DEF Sound, Unpacking, Complete
    <3> QED BY <3>1, <3>2
  <2>6. Unpacking'
    BY <2>2, <2>5 DEF Unpacking, Complete
  <2> QED BY <2>4, <2>6 DEF Sound
<1>5. CASE ~Corrupted /\ lma.key \notin exists
  <2>1. /\ scan' = [scan EXCEPT ![t] = "clear"] /\ listed' = listed
        /\ job' = [job EXCEPT ![t] = [key |-> lma.key, todo |-> Files]]
        /\ Scanning = {}
    BY <1>5 DEF Validate, Disturb
  <2>2. Extracting' = {t} /\ Scanning' = {t}
    BY <1>1, <2>1 DEF Extracting, Scanning, ArtifactsInv, AllTyped, ScanTyped
  <2>3. Extracting = {}
    BY <2>1 DEF Extracting, Scanning
  <2>4. scan'[t] = "clear" /\ job'[t].key = lma.key /\ job'[t].todo = Files
    BY <2>1 DEF ArtifactsInv, AllTyped, ScanTyped, Jobs
  <2>5. \A k : (Complete(k)' <=> k \in exists) /\ (Complete(k) <=> k \in exists)
    BY <1>2, <1>5, <2>2, <2>3, <2>4 DEF Complete
  <2>6. Extracted' /\ InUse' /\ Listed'
    BY <1>1, <1>2, <2>1, <2>5, ExtractedKept, InUseKept, ListedKept DEF Sound
  <2>7. lma.sums = lma.contents
    BY <1>5 DEF Corrupted
  <2>8. Unpacking'
    BY <1>2, <1>5, <2>2, <2>4, <2>7 DEF Unpacking
  <2> QED BY <2>6, <2>8 DEF Sound
<1> QED BY <1>3, <1>4, <1>5

\* While a scan extracts there is no other, and it is its archive that there is.
LEMMA AloneSound ==
    ASSUME Sound, NEW t \in Scanning, scan[t] # "list"
    PROVE  /\ Scanning = {t} /\ lma.key = job[t].key /\ lma.sums = lma.contents
           /\ scan[t] = "clear" => job[t].key \notin exists /\ job[t].todo = Files
           /\ scan[t] = "write" =>
              /\ job[t].key \in exists \/ job[t].todo = Files
              /\ \A v \in Versions \ ToSet(job[t].todo) : cache[job[t].key][v] = lma.contents[v]
              /\ Genuine(job[t].key) = Versions
BY DEF Sound, Unpacking

\* Removing what is not there changes nothing that is.
LEMMA ClearSound ==
    ASSUME ArtifactsInv, Sound, NEW t \in Scanners, Clear(t)
    PROVE  Sound'
<1>1. PICK k : k = job[t].key
  OBVIOUS
<1>2. /\ scan[t] = "clear" /\ exists' = exists \ {k} /\ cache' = [cache EXCEPT ![k] = Nothing]
      /\ scan' = [scan EXCEPT ![t] = "write"] /\ job' = job /\ listed' = listed
      /\ UNCHANGED loadVars /\ hashed' = hashed /\ lma' = lma
      /\ altered' = {a \in altered : a[1] # k}
  BY <1>1 DEF Clear, packVars
<1>3. /\ t \in Scanning /\ scan[t] # "list"
  BY <1>2 DEF Scanning
<1>4. /\ Scanning = {t} /\ lma.key = k /\ lma.sums = lma.contents /\ k \notin exists
      /\ job[t].todo = Files
  BY <1>1, <1>2, <1>3, AloneSound
<1>5. Extracting = {t} /\ Extracting' = {t} /\ Scanning' = {t}
  BY <1>2, <1>4 DEF Extracting, Scanning, ArtifactsInv, AllTyped, ScanTyped
<1>6. exists' = exists /\ \A j \in exists : cache'[j] = cache[j] /\ Genuine(j)' = Genuine(j)
  <2>1. exists' = exists /\ \A j \in exists : cache'[j] = cache[j] /\ j # k
    BY <1>2, <1>4 DEF ArtifactsInv, AllTyped, CacheTyped
  <2>2. \A j : j # k => \A w : <<j, w>> \in altered' <=> <<j, w>> \in altered
    BY <1>2
  <2> QED BY <2>1, <2>2 DEF Genuine
<1>7. \A j : Complete(j)' <=> Complete(j)
  BY <1>2, <1>5, <1>6 DEF Complete
<1>8. Extracted' /\ InUse' /\ Listed'
  BY <1>2, <1>6, <1>7, ExtractedKept, InUseKept, ListedKept DEF Sound
<1>9. Unpacking'
  <2>1. scan'[t] = "write"
    BY <1>2 DEF ArtifactsInv, AllTyped, ScanTyped
  <2>2. Versions \ ToSet(Files) = {}
    BY EditionsApart
  <2>3. Genuine(k)' = Versions
    BY <1>2 DEF Genuine
  <2> QED BY <1>1, <1>2, <1>4, <1>5, <2>1, <2>2, <2>3 DEF Unpacking
<1> QED BY <1>8, <1>9 DEF Sound

\* One more version is written.
LEMMA WriteSound ==
    ASSUME ArtifactsInv, Sound, NEW t \in Scanners, Write(t)
    PROVE  Sound'
<1>1. PICK k : k = job[t].key
  OBVIOUS
<1>2. PICK v : v = Head(job[t].todo)
  OBVIOUS
<1>3. /\ scan[t] = "write" /\ job[t].todo # <<>> /\ exists' = exists \cup {k}
      /\ cache' = [cache EXCEPT ![k][v] = lma.contents[v]]
      /\ job' = [job EXCEPT ![t].todo = Tail(@)] /\ scan' = scan /\ listed' = listed
      /\ UNCHANGED loadVars /\ hashed' = hashed /\ lma' = lma
      /\ \A j : Genuine(j)' = Genuine(j)
  BY <1>1, <1>2, GenuineKept DEF Write, packVars
<1>4. /\ t \in Scanning /\ scan[t] # "list"
  BY <1>3 DEF Scanning
<1>5. /\ Scanning = {t} /\ lma.key = k /\ lma.sums = lma.contents
      /\ \A w \in Versions \ ToSet(job[t].todo) : cache[k][w] = lma.contents[w]
      /\ Genuine(k) = Versions
  BY <1>1, <1>3, <1>4, AloneSound
<1>6. Extracting = {t} /\ Extracting' = {t} /\ Scanning' = {t}
  BY <1>3, <1>5 DEF Extracting, Scanning
<1>7. /\ k \in Keys /\ job'[t].key = k /\ job'[t].todo = Tail(job[t].todo)
      /\ job[t].todo \in Seq(Versions)
  BY <1>1, <1>3, <1>4 DEF ArtifactsInv, Jobs
<1>8. /\ v \in Versions /\ ToSet(job[t].todo) = {v} \cup ToSet(Tail(job[t].todo))
  BY <1>2, <1>3, <1>7, TailSet
<1>9. /\ cache'[k][v] = lma.contents[v]
      /\ \A w \in Versions : w # v => cache'[k][w] = cache[k][w]
      /\ \A j \in Keys : j # k => cache'[j] = cache[j]
  BY <1>3, <1>7, <1>8 DEF ArtifactsInv, AllTyped, CacheTyped
<1>10. \A j : (Complete(j)' <=> j \in exists /\ j # k) /\ (Complete(j) <=> j \in exists /\ j # k)
  BY <1>1, <1>3, <1>6, <1>7 DEF Complete
<1>11. \A j \in exists : j \in Keys
  BY DEF ArtifactsInv, AllTyped, CacheTyped
<1>12. Extracted' /\ InUse' /\ Listed'
  BY <1>3, <1>9, <1>10, <1>11, ExtractedKept, InUseKept, ListedKept DEF Sound
<1>13. \A w \in Versions \ ToSet(job'[t].todo) : cache'[k][w] = lma.contents[w]
  BY <1>5, <1>7, <1>8, <1>9
<1>14. Unpacking'
  BY <1>3, <1>5, <1>6, <1>7, <1>13 DEF Unpacking
<1> QED BY <1>12, <1>14 DEF Sound

\* An extraction ends: its directory is complete, and is what the manifest says.
LEMMA ListSound ==
    ASSUME ArtifactsInv, Sound, NEW t \in Scanners, ListModel(t)
    PROVE  Sound'
<1>1. PICK k : k = job[t].key
  OBVIOUS
<1>2. /\ scan[t] = "list" \/ (scan[t] = "write" /\ job[t].todo = <<>>)
      /\ path' = (IF t \in Main THEN k ELSE path)
      /\ listed' = [listed EXCEPT ![t] = {v \in Versions : cache[k][v] # None}]
      /\ scan' = [scan EXCEPT ![t] = "idle"]
      /\ job' = [job EXCEPT ![t] = [key |-> NoKey, todo |-> <<>>]]
      /\ cache' = cache /\ exists' = exists /\ hashed' = hashed /\ lma' = lma
      /\ loading' = loading /\ loaded' = loaded /\ \A j : Genuine(j)' = Genuine(j)
  BY <1>1, GenuineKept DEF ListModel, packVars, cacheVars
<1>3. t \in Scanning /\ k \in Keys
  BY <1>1, <1>2 DEF Scanning, ArtifactsInv, Jobs
<1>4. /\ Scanning' = Scanning \ {t} /\ Extracting' = Extracting \ {t}
      /\ \A u \in Scanning' : scan'[u] = scan[u] /\ job'[u] = job[u]
  BY <1>2, <1>3 DEF Scanning, Extracting, ArtifactsInv, AllTyped, ScanTyped, Jobs
\* Whatever is being extracted is extracted by t.
<1>5. Extracting' = {}
  <2>1. CASE scan[t] = "list"
    <3>1. ASSUME NEW u \in Extracting PROVE FALSE
      <4>1. u \in Scanning /\ scan[u] # "list"
        BY DEF Extracting, Scanning
      <4> QED BY <1>3, <2>1, <4>1, AloneSound
    <3> QED BY <1>4, <3>1
  <2>2. CASE scan[t] = "write"
    <3>1. Scanning = {t}
      BY <1>3, <2>2, AloneSound
    <3> QED BY <1>4, <3>1 DEF Extracting, Scanning
  <2> QED BY <1>2, <2>1, <2>2
<1>6. \A j : Complete(j)' <=> j \in exists
  BY <1>2, <1>5 DEF Complete
\* Every other directory was complete before.
<1>7. \A j \in exists : j # k => Complete(j)
  <2>1. CASE scan[t] = "list"
    <3>1. Extracting = {}
      BY <1>4, <1>5, <2>1 DEF Extracting
    <3> QED BY <3>1 DEF Complete
  <2>2. CASE scan[t] = "write"
    <3>1. Scanning = {t}
      BY <1>3, <2>2, AloneSound
    <3> QED BY <1>1, <3>1 DEF Complete, Extracting, Scanning
  <2> QED BY <1>2, <2>1, <2>2
<1>8. /\ k \in exists \/ Versions = {}
      /\ k \in exists => Agrees(k) /\ Genuine(k) \subseteq {v \in Versions : cache[k][v] # None}
  <2>1. CASE scan[t] = "list"
    <3>1. k \in exists /\ Complete(k)
      BY <1>1, <1>3, <2>1 DEF Sound, Unpacking, Complete
    <3>2. Agrees(k)
      BY <3>1 DEF Sound, Extracted
    <3>3. \A v \in Genuine(k) : v \in Versions /\ cache[k][v] # None
      BY <3>1, CompleteIsWhole DEF Sound, ArtifactsInv, Genuine
    <3> QED BY <3>1, <3>2, <3>3
  <2>2. CASE scan[t] = "write" /\ job[t].todo = <<>>
    <3>1. /\ lma.key = k /\ lma.sums = lma.contents
          /\ k \in exists \/ <<>> = Files
          /\ \A v \in Versions \ ToSet(<<>>) : cache[k][v] = lma.contents[v]
          /\ Genuine(k) = Versions
      BY <1>1, <1>3, <2>2, AloneSound
    <3>2. ToSet(<<>>) = {}
      BY DEF ToSet
    <3>3. k \in exists \/ Versions = {}
      BY <3>1, <3>2, EditionsApart
    <3>4. lma.key # NoKey
      BY <1>3, <3>1, EditionsApart
    <3>5. [key |-> k, sums |-> lma.sums] \in hashed
      BY <3>1, <3>4 DEF ArtifactsInv, Archived
    <3>6. [key |-> k, sums |-> lma.sums] \in [key : Keys, sums : [Versions -> Editions]]
      BY <3>5 DEF ArtifactsInv, AllTyped, PackTyped
    <3>7. lma.sums \in [Versions -> Editions]
      BY <3>6
    <3>8. \A v \in Versions : cache[k][v] = lma.sums[v] /\ cache[k][v] # None
      BY <3>1, <3>2, <3>7, EditionsApart
    <3>9. PICK m \in hashed : m = [key |-> k, sums |-> lma.sums]
      BY <3>5
    <3>10. m.key = k /\ m.sums = lma.sums
      BY <3>9
    <3>11. Agrees(k)
      BY <3>1, <3>8, <3>10 DEF Agrees
    <3> QED BY <3>1, <3>3, <3>8, <3>11
  <2> QED BY <1>2, <2>1, <2>2
<1>9. Extracted'
  <2>1. \A j \in exists : Agrees(j)
    BY <1>7, <1>8 DEF Sound, Extracted
  <2>2. \A j : Agrees(j) => Agrees(j)'
    BY <1>2 DEF Agrees
  <2> QED BY <1>2, <2>1, <2>2 DEF Extracted
<1>10. Listed'
  <2>1. ASSUME NEW u \in Scanners, listed'[u] # {}
        PROVE  \E j \in exists : Genuine(j) \subseteq listed'[u]
    <3>1. CASE u = t
      <4>1. listed'[t] = {v \in Versions : cache[k][v] # None}
        BY <1>2 DEF ArtifactsInv, AllTyped, ScanTyped
      <4>2. k \in exists
        BY <1>8, <2>1, <3>1, <4>1
      <4> QED BY <1>8, <3>1, <4>1, <4>2
    <3>2. CASE u # t
      BY <1>2, <2>1, <3>2 DEF Sound, Listed, ArtifactsInv, AllTyped, ScanTyped
    <3> QED BY <3>1, <3>2
  <2> QED BY <1>2, <2>1 DEF Listed
<1>11. InUse'
  <2>1. (path # NoKey => Complete(path) \/ Versions = {})'
    <3>1. CASE path' = k
      BY <1>2, <1>5, <1>8, <3>1 DEF Complete
    <3>2. CASE path' = path
      BY <1>2, <1>5, <3>2 DEF Sound, InUse, Complete
    <3> QED BY <1>2, <3>1, <3>2
  <2>2. \A v \in Versions : loading[v] # NoKey => loading[v] \in exists
    BY DEF Sound, InUse, Complete
  <2>3. \A v \in Versions : loaded[v] # None => \E j \in exists : Held(v, j)
    BY DEF Sound, InUse
  <2>4. \A v \in Versions, j \in exists : Held(v, j) => Held(v, j)'
    BY <1>2 DEF Held
  <2>5. (\A v \in Versions : loaded[v] # None => \E j \in exists : Complete(j) /\ Held(v, j))'
    BY <1>2, <1>6, <2>3, <2>4
  <2> QED BY <1>2, <1>5, <2>1, <2>2, <2>5 DEF InUse, Complete
<1>12. Unpacking'
  <2>1. ASSUME NEW u \in Scanning' PROVE scan'[u] = "list" /\ job'[u].key \in exists'
    <3>1. u \in Scanning /\ u # t /\ u \notin Extracting' /\ u \in Scanners
      BY <1>4, <1>5 DEF Scanning
    <3>2. scan[u] = "list"
      BY <1>4, <3>1 DEF Extracting, Scanning, ArtifactsInv, AllTyped, ScanTyped
    <3> QED BY <1>2, <1>4, <3>1, <3>2 DEF Sound, Unpacking, Complete
  <2> QED BY <1>5, <2>1 DEF Unpacking, Complete
<1> QED BY <1>9, <1>10, <1>11, <1>12 DEF Sound

\* What a load has resolved, or registered, is complete.
LEMMA LoadSound ==
    ASSUME ArtifactsInv, Sound, NEW v \in Versions, Resolve(v) \/ Register(v)
    PROVE  Sound'
<1>1. UNCHANGED <<packVars, lma, cacheVars, scanVars, path>>
  BY DEF Resolve, Register
<1>2. /\ cache' = cache /\ exists' = exists /\ hashed' = hashed /\ lma' = lma /\ scan' = scan
      /\ job' = job /\ listed' = listed /\ path' = path /\ \A j : Genuine(j)' = Genuine(j)
  BY <1>1, GenuineKept DEF packVars, cacheVars, scanVars
<1>3. Scanning' = Scanning /\ Extracting' = Extracting
  BY <1>2 DEF Scanning, Extracting
<1>4. \A j : (Complete(j)' <=> Complete(j)) /\ (Agrees(j)' <=> Agrees(j))
  BY <1>2, <1>3 DEF Complete, Agrees
<1>5. Unpacking' /\ Extracted' /\ Listed'
  BY <1>2, <1>3, <1>4 DEF Sound, Unpacking, Extracted, Listed, Complete
<1>6. (path # NoKey => Complete(path) \/ Versions = {})'
  BY <1>2, <1>4 DEF Sound, InUse, Complete
<1>7. CASE Resolve(v)
  <2>1. path # NoKey /\ Complete(path) /\ loading' = [loading EXCEPT ![v] = path] /\ loaded' = loaded
    BY <1>7 DEF Resolve, Sound, InUse
  <2>2. \A w \in Versions : loading'[w] = loading[w] \/ loading'[w] = path
    BY <2>1 DEF ArtifactsInv, AllTyped, LoadTyped
  <2>3. \A w \in Versions : loading'[w] # NoKey => Complete(loading'[w])
    BY <2>1, <2>2 DEF Sound, InUse
  <2>4. \A w, j : Held(w, j)' <=> Held(w, j)
    BY <1>2, <2>1 DEF Held
  <2>5. (\A w \in Versions : loading[w] # NoKey => Complete(loading[w]))'
    BY <1>2, <1>3, <2>3 DEF Complete
  <2>6. (\A w \in Versions : loaded[w] # None => \E j \in exists : Complete(j) /\ Held(w, j))'
    BY <1>2, <1>4, <2>1, <2>4 DEF Sound, InUse
  <2> QED BY <1>5, <1>6, <2>5, <2>6 DEF Sound, InUse
<1>8. CASE Register(v)
  <2>1. PICK k : k = loading[v]
    OBVIOUS
  <2>2. /\ k # NoKey /\ loading' = [loading EXCEPT ![v] = NoKey]
        /\ loaded' = [loaded EXCEPT ![v] = cache[k][v]]
    BY <1>8, <2>1 DEF Register
  <2>3. k \in exists /\ Complete(k)
    BY <2>1, <2>2 DEF Sound, InUse, Complete
  <2>4. \A w \in Versions : loading'[w] # NoKey => loading'[w] = loading[w]
    BY <2>2 DEF ArtifactsInv, AllTyped, LoadTyped
  <2>5. loaded'[v] = cache[k][v] /\ \A w \in Versions : w # v => loaded'[w] = loaded[w]
    BY <2>2 DEF ArtifactsInv, AllTyped, LoadTyped
  <2>6. ASSUME NEW w \in Versions, loaded'[w] # None
        PROVE  \E j \in exists : Complete(j) /\ Held(w, j)'
    <3>1. CASE w # v
      <4>1. PICK j \in exists : Complete(j) /\ Held(w, j)
        BY <2>5, <2>6, <3>1 DEF Sound, InUse
      <4>2. Held(w, j)'
        BY <1>2, <2>5, <3>1, <4>1, HeldKept
      <4> QED BY <4>1, <4>2
    <3>2. CASE w = v
      <4>1. Held(v, k)'
        BY <1>2, <2>5, <2>6, <3>2 DEF Held
      <4> QED BY <2>3, <3>2, <4>1
    <3> QED BY <3>1, <3>2
  <2>7. \A w \in Versions : loading'[w] # NoKey => Complete(loading'[w])
    BY <2>4 DEF Sound, InUse
  <2>8. (\A w \in Versions : loading[w] # NoKey => Complete(loading[w]))'
    BY <1>2, <1>3, <2>7 DEF Complete
  <2>9. (\A w \in Versions : loaded[w] # None => \E j \in exists : Complete(j) /\ Held(w, j))'
    BY <1>2, <1>4, <2>6
  <2> QED BY <1>5, <1>6, <2>8, <2>9 DEF Sound, InUse
<1> QED BY <1>7, <1>8

\* With the last version everything goes, whatever there was before.
LEMMA UnloadSound ==
    ASSUME ArtifactsInv, NEW v \in Versions, Unload(v), UNCHANGED <<packVars, lma, scan, job, loading>>,
           ~disturbed'
    PROVE  Sound'
<1>1. CASE path # NoKey /\ loaded' = Nothing
  <2>1. Purge /\ scan' = scan /\ loading' = loading
    BY <1>1, Zenon DEF Unload
  <2>2. /\ exists' = {} /\ path' = NoKey /\ listed' = [t \in Scanners |-> {}]
        /\ loading' = [w \in Versions |-> NoKey] /\ loaded' = [w \in Versions |-> None]
        /\ Scanning = {}
    BY <1>1, <2>1 DEF Purge, Nothing, NoLoads
  <2>3. Scanning' = {} /\ Extracting' = {}
    BY <2>1, <2>2 DEF Scanning, Extracting
  <2> QED BY <2>2, <2>3 DEF Sound, Unpacking, Extracted, Listed, InUse
<1>2. CASE ~(path # NoKey /\ loaded' = Nothing)
  <2>1. /\ UNCHANGED <<path, cacheVars, listed, disturbed>> /\ loaded' = [loaded EXCEPT ![v] = None]
        /\ UNCHANGED <<packVars, lma, scan, job, loading>>
    BY <1>2, Zenon DEF Unload
  <2>2. /\ cache' = cache /\ exists' = exists /\ hashed' = hashed /\ lma' = lma /\ scan' = scan
        /\ job' = job /\ listed' = listed /\ path' = path /\ loading' = loading
        /\ \A j : Genuine(j)' = Genuine(j)
    BY <2>1, GenuineKept DEF packVars, cacheVars
  <2>3. Sound
    BY <2>1 DEF ArtifactsInv
  <2>4. Scanning' = Scanning /\ Extracting' = Extracting
    BY <2>2 DEF Scanning, Extracting
  <2>5. \A j : (Complete(j)' <=> Complete(j)) /\ (Agrees(j)' <=> Agrees(j))
    BY <2>2, <2>4 DEF Complete, Agrees
  <2>6. Unpacking' /\ Extracted' /\ Listed'
    BY <2>2, <2>3, <2>4, <2>5 DEF Sound, Unpacking, Extracted, Listed, Complete
  <2>7. ASSUME NEW w \in Versions, loaded'[w] # None
        PROVE  \E j \in exists : Complete(j) /\ Held(w, j)'
    <3>1. loaded'[w] = loaded[w]
      BY <2>1, <2>7 DEF ArtifactsInv, AllTyped, LoadTyped
    <3>2. PICK j \in exists : Complete(j) /\ Held(w, j)
      BY <2>3, <2>7, <3>1 DEF Sound, InUse
    <3>3. Held(w, j)'
      BY <2>2, <3>1, <3>2, HeldKept
    <3> QED BY <3>2, <3>3
  <2>8. (path # NoKey => Complete(path) \/ Versions = {})'
    BY <2>2, <2>3, <2>4 DEF Sound, InUse, Complete
  <2>9. (\A w \in Versions : loading[w] # NoKey => Complete(loading[w]))'
    BY <2>2, <2>3, <2>4 DEF Sound, InUse, Complete
  <2>10. (\A w \in Versions : loaded[w] # None => \E j \in exists : Complete(j) /\ Held(w, j))'
    BY <2>2, <2>5, <2>7
  <2> QED BY <2>6, <2>8, <2>9, <2>10 DEF Sound, InUse
<1> QED BY <1>1, <1>2

\* A deletion or a configuration changes one version of a complete directory, which
\* is not genuine from then on; only a version that is not loaded is removed.
LEMMA AlterSound ==
    ASSUME ArtifactsInv, Sound, NEW k \in Keys, NEW v \in Versions, NEW x \in {None, Part, Edited},
           path = k, Complete(k), UNCHANGED <<packVars, lma, exists, scanVars, path, loading, loaded>>,
           cache' = [cache EXCEPT ![k][v] = x], altered' = altered \cup {<<k, v>>},
           loaded[v] # None /\ cache[k][v] # None => x # None
    PROVE  Sound'
<1>1. /\ exists' = exists /\ hashed' = hashed /\ lma' = lma /\ scan' = scan /\ job' = job
      /\ listed' = listed /\ path' = path /\ loading' = loading /\ loaded' = loaded
  BY DEF packVars, scanVars
<1>2. Scanning' = Scanning /\ Extracting' = Extracting
  BY <1>1 DEF Scanning, Extracting
<1>3. \A j : Complete(j)' <=> Complete(j)
  BY <1>1, <1>2 DEF Complete
<1>4. exists \subseteq Keys /\ cache \in [Keys -> [Versions -> Editions \cup {None, Part, Edited}]]
  BY DEF ArtifactsInv, AllTyped, CacheTyped
<1>5. /\ cache'[k][v] = x
      /\ \A w \in Versions : w # v => cache'[k][w] = cache[k][w]
      /\ \A j \in Keys : j # k => cache'[j] = cache[j]
  BY <1>4
<1>6. Genuine(k)' = Genuine(k) \ {v} /\ \A j : j # k => Genuine(j)' = Genuine(j)
  <2>1. \A j, w : <<j, w>> \in altered' <=> (<<j, w>> \in altered \/ (j = k /\ w = v))
    OBVIOUS
  <2> QED BY <2>1 DEF Genuine
<1>7. Genuine(k) \subseteq Versions
  BY DEF Genuine
<1>8. Extracted'
  <2>1. ASSUME NEW j \in exists, Complete(j) PROVE Agrees(j)'
    <3>1. Agrees(j)
      BY <2>1 DEF Sound, Extracted
    <3>2. CASE j # k
      BY <1>1, <1>4, <1>5, <1>6, <3>1, <3>2 DEF Agrees
    <3>3. CASE j = k
      <4>1. PICK m \in hashed : m.key = k /\ \A w \in Genuine(k) : cache[k][w] = m.sums[w]
        BY <3>1, <3>3 DEF Agrees
      <4>2. \A w \in Genuine(k)' : cache'[k][w] = m.sums[w]
        BY <1>5, <1>6, <1>7, <4>1
      <4>3. \A w \in Versions \ Genuine(k)' : cache'[k][w] \in {None, Part, Edited}
        BY <1>5, <1>6, <3>1, <3>3 DEF Agrees
      <4> QED BY <1>1, <3>3, <4>1, <4>2, <4>3 DEF Agrees
    <3> QED BY <3>2, <3>3
  <2> QED BY <1>1, <1>3, <2>1 DEF Extracted
<1>9. Listed'
  BY <1>1, <1>6, ListedKept DEF Sound
<1>10. InUse'
  <2>1. ASSUME NEW w \in Versions, loaded[w] # None
        PROVE  \E j \in exists : Complete(j) /\ Held(w, j)'
    <3>1. PICK j \in exists : Complete(j) /\ Held(w, j)
      BY <2>1 DEF Sound, InUse
    <3>2. CASE j # k
      BY <1>1, <1>4, <1>5, <1>6, <3>1, <3>2, HeldKept
    <3>3. CASE j = k /\ w # v
      <4>1. cache'[k][w] = cache[k][w] /\ (w \in Genuine(k)' <=> w \in Genuine(k))
        BY <1>5, <1>6, <3>3
      <4> QED BY <1>1, <3>1, <3>3, <4>1 DEF Held
    <3>4. CASE j = k /\ w = v
      <4>1. cache[k][v] # None
        BY <2>1, <3>1, <3>4 DEF Held
      <4>2. cache'[k][v] # None /\ v \notin Genuine(k)'
        BY <1>5, <1>6, <2>1, <3>4, <4>1
      <4> QED BY <3>1, <3>4, <4>2 DEF Held
    <3> QED BY <3>2, <3>3, <3>4
  <2>2. (\A w \in Versions : loaded[w] # None => \E j \in exists : Complete(j) /\ Held(w, j))'
    BY <1>1, <1>3, <2>1
  <2>3. (path # NoKey => Complete(path) \/ Versions = {})'
    BY <1>1, <1>2 DEF Sound, InUse, Complete
  <2>4. (\A w \in Versions : loading[w] # NoKey => Complete(loading[w]))'
    BY <1>1, <1>2 DEF Sound, InUse, Complete
  <2> QED BY <2>2, <2>3, <2>4 DEF InUse
\* What is being extracted is another directory.
<1>11. ASSUME NEW t \in Scanning, scan[t] = "write"
       PROVE  /\ cache'[job[t].key] = cache[job[t].key]
              /\ Genuine(job[t].key)' = Genuine(job[t].key)
  <2>1. job[t].key # k
    BY <1>11 DEF Complete, Extracting, Scanning
  <2>2. job[t].key \in Keys
    BY DEF ArtifactsInv, Jobs
  <2> QED BY <1>1, <1>5, <1>6, <2>1, <2>2
<1>12. Unpacking'
  <2>1. ASSUME NEW t \in Scanning
        PROVE  /\ scan[t] = "list" => Complete(job[t].key)'
               /\ scan[t] # "list" => Scanning = {t} /\ lma.key = job[t].key /\ lma.sums = lma.contents
               /\ scan[t] = "clear" => job[t].key \notin exists /\ job[t].todo = Files
               /\ scan[t] = "write" =>
                     /\ job[t].key \in exists \/ job[t].todo = Files
                     /\ \A w \in Versions \ ToSet(job[t].todo) : cache'[job[t].key][w] = lma.contents[w]
                     /\ Genuine(job[t].key)' = Versions
    <3>1. /\ scan[t] = "list" => Complete(job[t].key)
          /\ scan[t] # "list" => Scanning = {t} /\ lma.key = job[t].key /\ lma.sums = lma.contents
          /\ scan[t] = "clear" => job[t].key \notin exists /\ job[t].todo = Files
          /\ scan[t] = "write" =>
                /\ job[t].key \in exists \/ job[t].todo = Files
                /\ \A w \in Versions \ ToSet(job[t].todo) : cache[job[t].key][w] = lma.contents[w]
                /\ Genuine(job[t].key) = Versions
      BY Zenon DEF Sound, Unpacking
    <3>2. CASE scan[t] = "write"
      BY <1>11, <3>1, <3>2
    <3>3. CASE scan[t] # "write"
      <4>1. Complete(job[t].key) => Complete(job[t].key)'
        BY <1>1, <1>2 DEF Complete
      <4> QED BY <3>1, <3>3, <4>1
    <3> QED BY <3>2, <3>3
  <2> QED BY <1>1, <1>2, <2>1 DEF Unpacking
<1> QED BY <1>8, <1>9, <1>10, <1>12 DEF Sound

LEMMA PathComplete ==
    ASSUME ArtifactsInv, Sound, path # NoKey, NEW v \in Versions
    PROVE  path \in Keys /\ Complete(path) /\ path \in exists
BY DEF ArtifactsInv, AllTyped, LoadTyped, Sound, InUse, Complete

LEMMA RemoveSound ==
    ASSUME ArtifactsInv, Sound, NEW v \in Versions, RemoveVersion(v), ~disturbed'
    PROVE  Sound'
<1>1. UNCHANGED <<packVars, lma, exists, scanVars, path, loading, loaded>>
  BY DEF RemoveVersion
<1>2. CASE ~(path # NoKey /\ cache[path][v] # None)
  <2>1. cache' = cache /\ altered' = altered
    BY <1>2, Zenon DEF RemoveVersion
  <2>2. /\ exists' = exists /\ hashed' = hashed /\ lma' = lma /\ scan' = scan /\ job' = job
        /\ listed' = listed /\ path' = path /\ loading' = loading /\ loaded' = loaded
    BY <1>1 DEF packVars, scanVars
  <2>3. Unpacking' /\ Extracted' /\ Listed' /\ InUse'
    BY <2>1, <2>2 DEF Sound, Unpacking, Extracted, Listed, InUse, Complete, Agrees, Held, Genuine,
                      Scanning, Extracting
  <2> QED BY <2>3 DEF Sound
<1>3. CASE path # NoKey /\ cache[path][v] # None
  <2>1. /\ \E rest \in {None, Part} : cache' = [cache EXCEPT ![path][v] = rest]
        /\ altered' = altered \cup {<<path, v>>} /\ disturbed' = (disturbed \/ InWorkers(v))
    BY <1>3, Zenon DEF RemoveVersion, Disturb
  <2>2. loaded[v] = None
    BY <2>1 DEF InWorkers
  <2>3. PICK k \in Keys : k = path /\ Complete(k)
    BY <1>3, PathComplete
  <2>4. PICK rest \in {None, Part, Edited} : cache' = [cache EXCEPT ![k][v] = rest]
    BY <2>1, <2>3
  <2> QED BY <1>1, <2>1, <2>2, <2>3, <2>4, AlterSound
<1> QED BY <1>2, <1>3

LEMMA ConfigSound ==
    ASSUME ArtifactsInv, Sound, NEW v \in Versions, SetVersionConfig(v)
    PROVE  Sound'
<1>1. PICK k \in Keys : k = path /\ Complete(k) /\ k \in exists
  BY PathComplete DEF SetVersionConfig
<1>2. PICK x \in {None, Part, Edited} : x = IF cache[k][v] = None THEN None ELSE Edited
  OBVIOUS
<1>3. /\ exists' = exists /\ altered' = altered \cup {<<k, v>>}
      /\ UNCHANGED <<packVars, lma, scanVars, loadVars>>
  BY <1>1 DEF SetVersionConfig
<1>4. cache' = [cache EXCEPT ![k][v] = x]
  <2>1. cache' = [cache EXCEPT ![k][v] = IF @ = None THEN None ELSE Edited]
    BY <1>1 DEF SetVersionConfig
  <2> QED BY <1>1, <1>2, <2>1 DEF ArtifactsInv, AllTyped, CacheTyped
<1>5. loaded[v] # None /\ cache[k][v] # None => x # None
  BY <1>2, EditionsApart
<1>6. UNCHANGED <<packVars, lma, exists, scanVars, path, loading, loaded>>
  BY <1>3 DEF loadVars
<1> QED BY <1>1, <1>3, <1>4, <1>5, <1>6, AlterSound

\* A crash that cuts no extraction leaves the cache as it is.
LEMMA CrashSound ==
    ASSUME ArtifactsInv, Sound, Crash, ~disturbed'
    PROVE  Sound'
<1>1. Extracting = {}
  BY DEF Crash, Disturb
<1>2. {t \in Scanners : scan[t] = "write" /\ job[t].todo # <<>>} = {}
  BY <1>1 DEF Extracting
<1>3. /\ exists' = exists \cup {job[t].key : t \in {}}
      /\ cache' = [k \in Keys |-> [w \in Versions |->
                     IF \E t \in {} : job[t].key = k /\ Head(job[t].todo) = w
                     THEN Part ELSE cache[k][w]]]
  BY <1>2 DEF Crash
<1>4. exists' = exists /\ cache' = cache
  <2>1. cache' = [k \in Keys |-> [w \in Versions |-> cache[k][w]]]
    BY <1>3
  <2> QED BY <1>3, <2>1 DEF ArtifactsInv, AllTyped, CacheTyped
<1>5. /\ scan' = [t \in Scanners |-> "idle"] /\ listed' = [t \in Scanners |-> {}]
      /\ path' = NoKey /\ loading' = [w \in Versions |-> NoKey]
      /\ loaded' = [w \in Versions |-> None] /\ hashed' = hashed /\ altered' = altered
  BY DEF Crash, packVars, NoLoads, Nothing
<1>6. Scanning' = {} /\ Extracting' = {}
  BY <1>5 DEF Scanning, Extracting
<1>7. \A k \in exists : Agrees(k)
  BY <1>1 DEF Complete, Sound, Extracted
<1>8. Extracted'
  BY <1>4, <1>5, <1>7 DEF Extracted, Agrees, Genuine
<1> QED BY <1>5, <1>6, <1>8 DEF Sound, Unpacking, Listed, InUse

LEMMA SoundStep ==
    ASSUME ArtifactsInv, [ArtifactsNext]_artifactVars, ~disturbed'
    PROVE  Sound'
<1>1. ASSUME Sound, UNCHANGED <<cacheVars, scanVars, loadVars>>, hashed \subseteq hashed',
             lma' = lma \/ Extracting = {}
      PROVE  Sound'
  BY <1>1, PackingSound DEF ArtifactsInv
<1>2. CASE UNCHANGED artifactVars
  <2>1. Sound
    BY <1>2 DEF artifactVars, ArtifactsInv
  <2> QED BY <1>1, <1>2, <2>1 DEF artifactVars, packVars
<1>3. ASSUME NEW w \in Versions, Edit(w) PROVE Sound'
  <2>1. Sound
    BY <1>3 DEF Edit, ArtifactsInv
  <2> QED BY <1>1, <1>3, <2>1 DEF Edit
<1>4. ASSUME NEW k \in Keys, Hash(k) PROVE Sound'
  <2>1. Sound
    BY <1>4 DEF Hash, ArtifactsInv
  <2> QED BY <1>1, <1>4, <2>1 DEF Hash
<1>5. CASE Pack
  <2>1. ~disturbed /\ (lma' = lma \/ Extracting = {})
    BY <1>5 DEF Pack, Disturb
  <2>2. Sound
    BY <2>1 DEF ArtifactsInv
  <2> QED BY <1>1, <1>5, <2>1, <2>2 DEF Pack
<1>6. CASE Crash
  <2>1. Sound
    BY <1>6 DEF Crash, Disturb, ArtifactsInv
  <2> QED BY <1>6, <2>1, CrashSound
<1>7. ASSUME NEW w \in Versions, Resolve(w) \/ Register(w) PROVE Sound'
  <2>1. Sound
    BY <1>7 DEF Resolve, Register, ArtifactsInv
  <2> QED BY <1>7, <2>1, LoadSound
<1>8. ASSUME NEW t \in Scanners, Validate(t) PROVE Sound'
  <2>1. ~disturbed
    BY <1>8 DEF Validate, Disturb
  <2>2. Sound
    BY <2>1 DEF ArtifactsInv
  <2> QED BY <1>8, <2>2, ValidateSound
<1>9. ASSUME NEW t \in Scanners, Clear(t) PROVE Sound'
  <2>1. Sound
    BY <1>9 DEF Clear, ArtifactsInv
  <2> QED BY <1>9, <2>1, ClearSound
<1>10. ASSUME NEW t \in Scanners, Write(t) PROVE Sound'
  <2>1. Sound
    BY <1>10 DEF Write, ArtifactsInv
  <2> QED BY <1>10, <2>1, WriteSound
<1>11. ASSUME NEW t \in Scanners, ListModel(t) PROVE Sound'
  <2>1. Sound
    BY <1>11 DEF ListModel, ArtifactsInv
  <2> QED BY <1>11, <2>1, ListSound
<1>12. ASSUME NEW t \in Scanners, ScanFails(t) PROVE Sound'
  BY <1>12 DEF ScanFails, Disturb
<1>13. ASSUME NEW w \in Versions, UnloadArtifact(w) PROVE Sound'
  BY <1>13, UnloadSound DEF UnloadArtifact
<1>14. ASSUME NEW w \in Versions, DeleteVersion(w) PROVE Sound'
  <2>1. UNCHANGED <<packVars, lma, scan, job, loading>>
    BY <1>14 DEF DeleteVersion
  <2>2. CASE InWorkers(w)
    <3>1. Unload(w)
      BY <1>14, <2>2, Zenon DEF DeleteVersion
    <3> QED BY <2>1, <3>1, UnloadSound
  <2>3. CASE ~InWorkers(w)
    <3>1. UNCHANGED <<path, loaded, cacheVars, listed, disturbed>>
      BY <1>14, <2>3, Zenon DEF DeleteVersion
    <3>2. Sound
      BY <3>1 DEF ArtifactsInv
    <3>3. /\ cache' = cache /\ exists' = exists /\ hashed' = hashed /\ lma' = lma /\ scan' = scan
          /\ job' = job /\ listed' = listed /\ path' = path /\ loading' = loading
          /\ loaded' = loaded /\ altered' = altered
      BY <2>1, <3>1 DEF packVars, cacheVars
    <3>4. Unpacking' /\ Extracted' /\ Listed' /\ InUse'
      BY <3>2, <3>3 DEF Sound, Unpacking, Extracted, Listed, InUse, Complete, Agrees, Held, Genuine,
                        Scanning, Extracting
    <3> QED BY <3>4 DEF Sound
  <2> QED BY <2>2, <2>3
<1>15. ASSUME NEW w \in Versions, RemoveVersion(w) PROVE Sound'
  <2>1. disturbed' = (disturbed \/ InWorkers(w)) \/ disturbed' = disturbed
    BY <1>15, Zenon DEF RemoveVersion, Disturb
  <2>2. Sound
    BY <2>1 DEF ArtifactsInv
  <2> QED BY <1>15, <2>2, RemoveSound
<1>16. ASSUME NEW w \in Versions, SetVersionConfig(w) PROVE Sound'
  <2>1. Sound
    BY <1>16 DEF SetVersionConfig, ArtifactsInv
  <2> QED BY <1>16, <2>1, ConfigSound
<1> QED BY <1>2, <1>3, <1>4, <1>5, <1>6, <1>7, <1>8, <1>9, <1>10, <1>11, <1>12, <1>13, <1>14, <1>15,
           <1>16 DEF ArtifactsNext

LEMMA ArtifactsInvariant == ArtifactsSpec => []ArtifactsInv
<1>1. ASSUME ArtifactsInv, [ArtifactsNext]_artifactVars PROVE ArtifactsInv'
  <2>1. AllTyped /\ Archived /\ Jobs
    BY <1>1 DEF ArtifactsInv
  <2>2. /\ PackTyped' /\ Archived' /\ ScanTyped' /\ Jobs' /\ CacheTyped' /\ LoadTyped'
        /\ disturbed' \in BOOLEAN
    BY <1>1, <2>1, PackStep, ScanStep, CacheStep, LoadStep
  <2>3. ~disturbed' => Sound'
    BY <1>1, SoundStep
  <2> QED BY <2>2, <2>3 DEF ArtifactsInv, AllTyped
<1> QED BY <1>1, ArtifactsStarts, PTL DEF ArtifactsSpec

\* Every reachable state of the packer, the cache and its scans is type-correct, for
\* any versions, keys and scanners.
THEOREM ArtifactsTypeCorrect == ArtifactsSpec => []ArtifactsTypeOK
<1>1. ArtifactsInv => ArtifactsTypeOK
  BY DEF ArtifactsInv, AllTyped, PackTyped, CacheTyped, ScanTyped, LoadTyped, ArtifactsTypeOK
<1> QED BY <1>1, ArtifactsInvariant, PTL

\* Whatever the scans, loads, unloads, deletions, configurations and crashes, and
\* however the files change while they are packed: as long as nothing has come between
\* an extraction, a load or a deletion and its end since the cache was empty, a
\* directory of the cache is what one manifest says, whole but for the versions that
\* have been deleted from it or configured in it; a scan finds every version but
\* those; and what is loaded stays in the cache (get_or_extract, unpack, unload,
\* delete_version, set_version_config).
THEOREM UndisturbedCacheServesWhole == ArtifactsSpec => []CacheServesWhole
<1>1. ASSUME ArtifactsInv, ~disturbed
      PROVE  /\ Extracting = {} => \A k \in exists : Agrees(k)
             /\ Listed
             /\ \A v \in Versions : loaded[v] # None => \E k \in exists : Held(v, k)
  <2>1. Sound
    BY <1>1 DEF ArtifactsInv
  <2> QED BY <2>1 DEF Sound, Extracted, InUse, Complete
<1>2. ArtifactsInv => CacheServesWhole
  BY <1>1 DEF CacheServesWhole, Agrees, Listed, Held
<1> QED BY <1>2, ArtifactsInvariant, PTL

-----------------------------------------------------------------------------
(* Loader                                                                  *)

\* The types, and that whoever imports has a directory.
LoaderTyped ==
    /\ LoaderTypeOK
    /\ searched \in Seq(Dirs)
    /\ \A t \in Importing : dir[t] \in Dirs

\* The first part of ImportsSettle is inductive once the sets it counts are known to
\* be finite.
Counted ==
    \A d \in Dirs : /\ IsFiniteSet(Inserted(d))
                    /\ Cardinality(Positions(searched, d)) = Cardinality(Inserted(d))

\* An import that no other overlaps finds the register as it was, keeps it, and puts
\* it back.
ByOne ==
    /\ Importing = {} => register = "original"
    /\ metrics = {}
    /\ \A t \in Importers : verdict[t] \in {"none", "ok", "own error"}
    /\ \A t \in Importing :
          /\ Importing = {t} /\ t \in added
          /\ phase[t] \in {"insert", "save", "patch"} => register = "original"
          /\ phase[t] \in {"patch", "exec", "remove", "restore"} => saved[t] = "original"
          /\ phase[t] \in {"exec", "remove", "restore"} => register = "suppressed"

LoaderInv == LoaderTyped /\ Counted /\ (~overlapped => ByOne)

LEMMA LoaderStarts == LoaderInit => LoaderInv
<1> SUFFICES ASSUME LoaderInit PROVE LoaderInv
  OBVIOUS
<1>1. Importing = {}
  BY DEF LoaderInit, Importing
<1>2. searched = <<>> /\ <<>> \in Seq(Dirs) /\ Range(<<>>) = {} /\ ToSet(<<>>) = {}
  BY EmptySeq DEF LoaderInit, Range, ToSet
<1>3. imports \in 0 .. MaxImports
  BY LoaderAssumption DEF LoaderInit
<1>4. LoaderTyped
  BY <1>1, <1>2, <1>3 DEF LoaderTyped, LoaderTypeOK, LoaderInit
<1>5. Counted
  <2> SUFFICES ASSUME NEW d \in Dirs
               PROVE  /\ IsFiniteSet(Inserted(d))
                      /\ Cardinality(Positions(searched, d)) = Cardinality(Inserted(d))
    BY DEF Counted
  <2>1. Inserted(d) = {}
    BY DEF Inserted, LoaderInit
  <2>2. Cardinality(Positions(searched, d)) = 0
    BY <1>2, PositionsFinite
  <2> QED BY <2>1, <2>2, FS_EmptySet
<1>6. ByOne
  BY <1>1 DEF ByOne, LoaderInit
<1> QED BY <1>4, <1>5, <1>6 DEF LoaderInv

\* One importer's position changes.
LEMMA ImporterMoves ==
    ASSUME LoaderTyped, NEW t \in Importers, NEW s, Reach(t, s),
           s \in {"idle", "insert", "save", "patch", "exec", "remove", "restore"}
    PROVE  /\ phase' \in [Importers -> {"idle", "insert", "save", "patch", "exec", "remove", "restore"}]
           /\ phase'[t] = s
           /\ \A u \in Importers : u # t => phase'[u] = phase[u]
           /\ Importing' = IF s = "idle" THEN Importing \ {t} ELSE Importing \cup {t}
BY DEF LoaderTyped, LoaderTypeOK, Reach, Importing

\* The types are kept: sys.path is a sequence of directories.
LEMMA LoaderTypeStep ==
    ASSUME LoaderTyped, Counted, NEW t \in Importers,
           \/ \E d \in Dirs : BeginImport(t, d)
           \/ InsertPath(t) \/ SaveRegister(t) \/ PatchRegister(t) \/ Exec(t)
           \/ RemovePath(t) \/ RestoreRegister(t)
    PROVE  LoaderTyped'
<1>0. \A q \in Seq(Dirs) : Range(q) \subseteq Dirs
  BY RangeOfSeq
<1>1. ASSUME NEW d \in Dirs, BeginImport(t, d) PROVE LoaderTyped'
  <2>1. Reach(t, "insert") /\ searched' = searched
    BY <1>1 DEF BeginImport
  <2>2. imports' \in 0 .. MaxImports
    <3>1. imports \in 0 .. MaxImports /\ imports < MaxImports /\ imports' = imports + 1
      BY <1>1 DEF BeginImport, LoaderTyped, LoaderTypeOK
    <3> QED BY <3>1, LoaderAssumption
  <2>3. dir' \in [Importers -> Dirs \cup {NoDir}] /\ dir'[t] = d
        /\ \A u \in Importers : u # t => dir'[u] = dir[u]
    BY <1>1 DEF BeginImport, LoaderTyped, LoaderTypeOK
  <2>4. \A u \in Importing' : dir'[u] \in Dirs
    BY <2>1, <2>3, ImporterMoves DEF LoaderTyped, Importing
  <2>5. overlapped' \in BOOLEAN
    BY <1>1 DEF BeginImport
  <2>6. added' \subseteq Importers
    BY <1>1 DEF BeginImport, LoaderTyped, LoaderTypeOK
  <2>7. UNCHANGED <<searched, register, metrics, sibling, saved, verdict>>
    BY <1>1 DEF BeginImport
  <2> QED BY <2>1, <2>2, <2>3, <2>4, <2>5, <2>6, <2>7, ImporterMoves DEF LoaderTyped, LoaderTypeOK
<1>2. CASE InsertPath(t)
  <2>1. /\ Reach(t, "save") /\ phase[t] = "insert"
        /\ searched' = IF t \in added THEN <<dir[t]>> \o searched ELSE searched
        /\ UNCHANGED <<register, metrics, sibling, dir, added, saved, verdict, imports, overlapped>>
    BY <1>2 DEF InsertPath
  <2>2. t \in Importing /\ dir[t] \in Dirs
    BY <2>1 DEF Importing, LoaderTyped
  <2>3. searched' \in Seq(Dirs)
    BY <2>1, <2>2, CountPrepend DEF LoaderTyped
  <2>4. Range(searched') \subseteq Dirs
    BY <1>0, <2>3
  <2>5. \A u \in Importing' : dir'[u] \in Dirs
    BY <2>1, <2>2, ImporterMoves DEF LoaderTyped
  <2>6. UNCHANGED <<register, metrics, sibling, dir, added, saved, verdict, imports, overlapped>>
    BY <2>1
  <2> QED BY <2>1, <2>3, <2>4, <2>5, <2>6, ImporterMoves DEF LoaderTyped, LoaderTypeOK
<1>3. CASE SaveRegister(t)
  BY <1>3, ImporterMoves DEF SaveRegister, LoaderTyped, LoaderTypeOK, Importing
<1>4. CASE PatchRegister(t)
  BY <1>4, ImporterMoves DEF PatchRegister, LoaderTyped, LoaderTypeOK, Importing
<1>5. CASE Exec(t)
  <2>1. /\ phase[t] = "exec" /\ Reach(t, "remove")
        /\ UNCHANGED <<searched, register, dir, added, saved, imports, overlapped>>
    BY <1>5 DEF Exec
  <2>2. t \in Importing /\ dir[t] \in Dirs
    BY <2>1 DEF Importing, LoaderTyped
  <2>3. metrics' \subseteq Dirs
    BY <1>5, <2>2 DEF Exec, LoaderTyped, LoaderTypeOK
  <2>4. sibling' \in Dirs \cup {NoDir}
    <3>1. searched # <<>> => Head(searched) \in Dirs
      BY HeadTailProperties DEF LoaderTyped
    <3> QED BY <1>5, <3>1 DEF Exec, LoaderTyped, LoaderTypeOK
  <2>5. PICK v \in {"ok", "no sibling", "duplicate", "own error"} : verdict' = [verdict EXCEPT ![t] = v]
    BY <1>5 DEF Exec
  <2>6. verdict' \in [Importers -> {"none", "ok", "no sibling", "duplicate", "own error"}]
    BY <2>5 DEF LoaderTyped, LoaderTypeOK
  <2>7. \A u \in Importing' : dir'[u] \in Dirs
    BY <2>1, <2>2, ImporterMoves DEF LoaderTyped
  <2> QED BY <2>1, <2>3, <2>4, <2>6, <2>7, ImporterMoves DEF LoaderTyped, LoaderTypeOK
<1>6. CASE RemovePath(t)
  <2>1. /\ Reach(t, "restore") /\ phase[t] = "remove"
        /\ searched' = IF t \in added THEN RemoveFirst(searched, dir[t]) ELSE searched
        /\ UNCHANGED <<register, metrics, sibling, dir, added, saved, verdict, imports, overlapped>>
    BY <1>6 DEF RemovePath
  <2>2. t \in Importing /\ dir[t] \in Dirs
    BY <2>1 DEF Importing, LoaderTyped
  <2>3. searched' \in Seq(Dirs)
    <3>1. CASE dir[t] \in ToSet(searched)
      BY <2>1, <3>1, CountRemoveFirst DEF LoaderTyped
    <3>2. CASE dir[t] \notin ToSet(searched)
      <4>1. RemoveFirst(searched, dir[t]) = searched
        BY <3>2 DEF ToSet, RemoveFirst, LoaderTyped
      <4> QED BY <2>1, <4>1 DEF LoaderTyped
    <3> QED BY <3>1, <3>2
  <2>4. Range(searched') \subseteq Dirs
    BY <1>0, <2>3
  <2>5. \A u \in Importing' : dir'[u] \in Dirs
    BY <2>1, <2>2, ImporterMoves DEF LoaderTyped
  <2>6. UNCHANGED <<register, metrics, sibling, dir, added, saved, verdict, imports, overlapped>>
    BY <2>1
  <2> QED BY <2>1, <2>3, <2>4, <2>5, <2>6, ImporterMoves DEF LoaderTyped, LoaderTypeOK
<1>7. CASE RestoreRegister(t)
  BY <1>7, ImporterMoves DEF RestoreRegister, LoaderTyped, LoaderTypeOK, Importing
<1> QED BY <1>1, <1>2, <1>3, <1>4, <1>5, <1>6, <1>7

\* What is on the path stays there, and those who have put it there do.
LEMMA CountedKept ==
    ASSUME Counted, searched' = searched, \A d \in Dirs : Inserted(d)' = Inserted(d)
    PROVE  Counted'
BY DEF Counted

\* What is inserted, or removed, is the importer's own directory.
LEMMA CountedStep ==
    ASSUME LoaderTyped, Counted, NEW t \in Importers,
           \/ \E d \in Dirs : BeginImport(t, d)
           \/ InsertPath(t) \/ SaveRegister(t) \/ PatchRegister(t) \/ Exec(t)
           \/ RemovePath(t) \/ RestoreRegister(t)
    PROVE  Counted'
<1>1. ASSUME NEW d \in Dirs, BeginImport(t, d) PROVE Counted'
  <2>1. Reach(t, "insert") /\ searched' = searched /\ phase[t] = "idle"
    BY <1>1 DEF BeginImport
  <2>2. \A u \in Importers : u # t => (dir'[u] = dir[u] /\ (u \in added' <=> u \in added))
    BY <1>1 DEF BeginImport, LoaderTyped, LoaderTypeOK
  <2>3. added \subseteq Importers /\ added' \subseteq Importers
    BY <1>1 DEF BeginImport, LoaderTyped, LoaderTypeOK
  <2>4. phase'[t] = "insert" /\ \A u \in Importers : u # t => phase'[u] = phase[u]
    BY <2>1, ImporterMoves
  <2>5. \A e \in Dirs : Inserted(e)' = Inserted(e)
    BY <2>1, <2>2, <2>3, <2>4 DEF Inserted
  <2> QED BY <2>1, <2>5, CountedKept
<1>2. CASE InsertPath(t)
  <2>1. /\ Reach(t, "save") /\ phase[t] = "insert" /\ dir' = dir /\ added' = added
        /\ searched' = IF t \in added THEN <<dir[t]>> \o searched ELSE searched
    BY <1>2 DEF InsertPath
  <2>2. phase'[t] = "save" /\ (\A u \in Importers : u # t => phase'[u] = phase[u])
        /\ added \subseteq Importers /\ t \in Importing
    BY <2>1, ImporterMoves DEF LoaderTyped, LoaderTypeOK, Importing
  <2>3. CASE t \notin added
    <3>1. \A e \in Dirs : Inserted(e)' = Inserted(e)
      BY <2>1, <2>2, <2>3 DEF Inserted
    <3> QED BY <2>1, <2>3, <3>1, CountedKept
  <2>4. CASE t \in added
    <3>1. PICK d \in Dirs : d = dir[t]
      BY <2>2 DEF LoaderTyped
    <3> SUFFICES ASSUME NEW e \in Dirs
                 PROVE  /\ IsFiniteSet(Inserted(e)')
                        /\ Cardinality(Positions(searched', e)) = Cardinality(Inserted(e)')
      BY DEF Counted, Positions
    <3>2. t \notin Inserted(e)
      BY <2>1 DEF Inserted
    <3>3. Inserted(e)' = IF d = e THEN Inserted(e) \cup {t} ELSE Inserted(e)
      BY <2>1, <2>2, <2>4, <3>1 DEF Inserted
    <3>4. IsFiniteSet(Inserted(e)) /\ Cardinality(Positions(searched, e)) = Cardinality(Inserted(e))
      BY DEF Counted
    <3>5. Cardinality(Positions(searched', e)) =
            Cardinality(Positions(searched, e)) + (IF d = e THEN 1 ELSE 0)
      BY <2>1, <2>4, <3>1, CountPrepend DEF LoaderTyped
    <3>6. IsFiniteSet(Inserted(e) \cup {t}) /\ Cardinality(Inserted(e) \cup {t}) = Cardinality(Inserted(e)) + 1
      BY <3>2, <3>4, FS_AddElement
    <3>7. Cardinality(Inserted(e)) \in Nat
      BY <3>4, FS_CardinalityType
    <3> QED BY <3>3, <3>4, <3>5, <3>6, <3>7
  <2> QED BY <2>3, <2>4
<1>3. CASE SaveRegister(t) \/ PatchRegister(t) \/ Exec(t)
  <2>1. PICK s \in {"patch", "exec", "remove"} : Reach(t, s)
    BY <1>3 DEF SaveRegister, PatchRegister, Exec
  <2>2. /\ phase[t] \in {"save", "patch", "exec"} /\ UNCHANGED <<searched, dir, added>>
    BY <1>3 DEF SaveRegister, PatchRegister, Exec
  <2>3. phase'[t] = s /\ (\A u \in Importers : u # t => phase'[u] = phase[u])
        /\ added \subseteq Importers
    BY <2>1, ImporterMoves DEF LoaderTyped, LoaderTypeOK
  <2>4. \A e \in Dirs : Inserted(e)' = Inserted(e)
    BY <2>2, <2>3 DEF Inserted
  <2> QED BY <2>2, <2>4, CountedKept
<1>4. CASE RemovePath(t)
  <2>1. /\ Reach(t, "restore") /\ phase[t] = "remove" /\ dir' = dir /\ added' = added
        /\ searched' = IF t \in added THEN RemoveFirst(searched, dir[t]) ELSE searched
    BY <1>4 DEF RemovePath
  <2>2. phase'[t] = "restore" /\ (\A u \in Importers : u # t => phase'[u] = phase[u])
        /\ added \subseteq Importers /\ t \in Importing
    BY <2>1, ImporterMoves DEF LoaderTyped, LoaderTypeOK, Importing
  <2>3. CASE t \notin added
    <3>1. \A e \in Dirs : Inserted(e)' = Inserted(e)
      BY <2>1, <2>2, <2>3 DEF Inserted
    <3> QED BY <2>1, <2>3, <3>1, CountedKept
  <2>4. CASE t \in added
    <3>1. PICK d \in Dirs : d = dir[t]
      BY <2>2 DEF LoaderTyped
    <3>2. t \in Inserted(d)
      BY <2>1, <2>4, <3>1 DEF Inserted
    <3>3. d \in ToSet(searched)
      <4>1. IsFiniteSet(Inserted(d)) /\ Cardinality(Positions(searched, d)) = Cardinality(Inserted(d))
        BY DEF Counted
      <4>2. Cardinality(Inserted(d)) # 0
        BY <3>2, <4>1, FS_EmptySet
      <4> QED BY <4>1, <4>2, PositionsFinite DEF LoaderTyped
    <3> SUFFICES ASSUME NEW e \in Dirs
                 PROVE  /\ IsFiniteSet(Inserted(e)')
                        /\ Cardinality(Positions(searched', e)) = Cardinality(Inserted(e)')
      BY DEF Counted, Positions
    <3>4. /\ d = e => Inserted(e)' = Inserted(d) \ {t}
          /\ d # e => Inserted(e)' = Inserted(e)
      BY <2>1, <2>2, <2>4, <3>1 DEF Inserted
    <3>5. IsFiniteSet(Inserted(e)) /\ Cardinality(Positions(searched, e)) = Cardinality(Inserted(e))
      BY DEF Counted
    <3>6. Cardinality(Positions(searched, e)) =
            Cardinality(Positions(searched', e)) + (IF d = e THEN 1 ELSE 0)
      BY <2>1, <2>4, <3>1, <3>3, CountRemoveFirst DEF LoaderTyped
    <3>7. searched' \in Seq(Dirs)
      BY <2>1, <2>4, <3>1, <3>3, CountRemoveFirst DEF LoaderTyped
    <3>8. Cardinality(Positions(searched', e)) \in Nat
      BY <3>7, PositionsFinite
    <3>9. IsFiniteSet(Inserted(d) \ {t}) /\ Cardinality(Inserted(d) \ {t}) = Cardinality(Inserted(d)) - 1
      BY <3>2, <3>5, FS_RemoveElement DEF Counted
    <3>10. CASE d = e
      <4>1. /\ IsFiniteSet(Inserted(e)')
            /\ Cardinality(Inserted(e)') = Cardinality(Inserted(e)) - 1
        BY <3>4, <3>9, <3>10
      <4>2. Cardinality(Positions(searched, e)) = Cardinality(Positions(searched', e)) + 1
        BY <3>6, <3>10
      <4>3. PICK n \in Nat : n = Cardinality(Positions(searched', e))
        BY <3>8
      <4>4. Cardinality(Inserted(e)) = n + 1
        BY <3>5, <4>2, <4>3
      <4>5. Cardinality(Inserted(e)') = (n + 1) - 1
        BY <4>1, <4>4
      <4> QED BY <4>1, <4>3, <4>5
    <3>11. CASE d # e
      <4>1. PICK n \in Nat : n = Cardinality(Positions(searched', e))
        BY <3>8
      <4>2. Cardinality(Positions(searched, e)) = n
        BY <3>6, <3>11, <4>1
      <4>3. Inserted(e)' = Inserted(e)
        BY <3>4, <3>11
      <4> QED BY <3>5, <4>1, <4>2, <4>3
    <3> QED BY <3>10, <3>11
  <2> QED BY <2>3, <2>4
<1>5. CASE RestoreRegister(t)
  <2>1. /\ Reach(t, "idle") /\ phase[t] = "restore" /\ UNCHANGED <<searched, dir, added>>
    BY <1>5 DEF RestoreRegister
  <2>2. phase'[t] = "idle" /\ (\A u \in Importers : u # t => phase'[u] = phase[u])
        /\ added \subseteq Importers
    BY <2>1, ImporterMoves DEF LoaderTyped, LoaderTypeOK
  <2>3. \A e \in Dirs : Inserted(e)' = Inserted(e)
    BY <2>1, <2>2 DEF Inserted
  <2> QED BY <2>1, <2>3, CountedKept
<1> QED BY <1>1, <1>2, <1>3, <1>4, <1>5

\* An import that no other overlaps.
LEMMA ByOneStep ==
    ASSUME LoaderTyped, Counted, ByOne, NEW t \in Importers, ~overlapped',
           \/ \E d \in Dirs : BeginImport(t, d)
           \/ InsertPath(t) \/ SaveRegister(t) \/ PatchRegister(t) \/ Exec(t)
           \/ RemovePath(t) \/ RestoreRegister(t)
    PROVE  ByOne'
<1>1. ASSUME NEW d \in Dirs, BeginImport(t, d) PROVE ByOne'
  <2>1. /\ Reach(t, "insert") /\ Importing = {}
        /\ UNCHANGED <<searched, register, metrics, sibling, saved, verdict>>
    BY <1>1 DEF BeginImport
  <2>2. phase'[t] = "insert" /\ Importing' = {t}
    BY <2>1, ImporterMoves
  <2>3. d \notin ToSet(searched)
    <3>1. Inserted(d) = {}
      BY <2>1 DEF Inserted, Importing, LoaderTyped, LoaderTypeOK
    <3>2. Cardinality(Positions(searched, d)) = 0
      BY <3>1, FS_EmptySet DEF Counted
    <3> QED BY <3>2, PositionsFinite DEF LoaderTyped
  <2>4. t \in added'
    BY <1>1, <2>3 DEF BeginImport, ToSet, Range
  <2> QED BY <2>1, <2>2, <2>4 DEF ByOne
<1>2. ASSUME phase[t] # "idle" PROVE Importing = {t} /\ t \in added
  BY <1>2 DEF ByOne, Importing
<1>3. CASE InsertPath(t)
  <2>1. /\ Reach(t, "save") /\ phase[t] = "insert"
        /\ UNCHANGED <<register, metrics, added, saved, verdict>>
    BY <1>3 DEF InsertPath
  <2>2. phase'[t] = "save" /\ Importing' = {t} /\ Importing = {t}
    BY <1>2, <2>1, ImporterMoves
  <2> QED BY <2>1, <2>2 DEF ByOne
<1>4. CASE SaveRegister(t)
  <2>1. /\ Reach(t, "patch") /\ phase[t] = "save" /\ saved' = [saved EXCEPT ![t] = register]
        /\ UNCHANGED <<register, metrics, added, verdict>>
    BY <1>4 DEF SaveRegister
  <2>2. phase'[t] = "patch" /\ Importing' = {t} /\ Importing = {t}
    BY <1>2, <2>1, ImporterMoves
  <2>3. saved'[t] = register
    BY <2>1 DEF LoaderTyped, LoaderTypeOK
  <2> QED BY <2>1, <2>2, <2>3 DEF ByOne
<1>5. CASE PatchRegister(t)
  <2>1. /\ Reach(t, "exec") /\ phase[t] = "patch" /\ register' = "suppressed"
        /\ UNCHANGED <<saved, metrics, added, verdict>>
    BY <1>5 DEF PatchRegister
  <2>2. phase'[t] = "exec" /\ Importing' = {t} /\ Importing = {t}
    BY <1>2, <2>1, ImporterMoves
  <2> QED BY <2>1, <2>2 DEF ByOne
<1>6. CASE Exec(t)
  <2>1. /\ Reach(t, "remove") /\ phase[t] = "exec" /\ UNCHANGED <<searched, saved, register, added>>
    BY <1>6 DEF Exec
  <2>2. phase'[t] = "remove" /\ Importing' = {t} /\ Importing = {t} /\ t \in added
    BY <1>2, <2>1, ImporterMoves
  <2>3. register = "suppressed"
    BY <2>1, <2>2 DEF ByOne
  \* It has its directory on the path.
  <2>4. searched # <<>>
    <3>1. PICK d \in Dirs : d = dir[t]
      BY <2>2 DEF LoaderTyped
    <3>2. t \in Inserted(d)
      BY <2>1, <2>2, <3>1 DEF Inserted
    <3>3. IsFiniteSet(Inserted(d)) /\ Cardinality(Positions(searched, d)) = Cardinality(Inserted(d))
      BY DEF Counted
    <3>4. Cardinality(Inserted(d)) # 0
      BY <3>2, <3>3, FS_EmptySet
    <3>5. d \in ToSet(searched)
      BY <3>3, <3>4, PositionsFinite DEF LoaderTyped
    <3> QED BY <3>5 DEF ToSet
  <2>5. metrics' = metrics
    BY <1>6, <2>3 DEF Exec
  <2>6. PICK v \in {"ok", "own error"} : verdict' = [verdict EXCEPT ![t] = v]
    BY <1>6, <2>3, <2>4 DEF Exec
  <2>7. \A u \in Importers : verdict'[u] \in {"none", "ok", "own error"}
    BY <2>6 DEF ByOne, LoaderTyped, LoaderTypeOK
  <2> QED BY <2>1, <2>2, <2>5, <2>7 DEF ByOne
<1>7. CASE RemovePath(t)
  <2>1. /\ Reach(t, "restore") /\ phase[t] = "remove"
        /\ UNCHANGED <<register, metrics, added, saved, verdict>>
    BY <1>7 DEF RemovePath
  <2>2. phase'[t] = "restore" /\ Importing' = {t} /\ Importing = {t}
    BY <1>2, <2>1, ImporterMoves
  <2> QED BY <2>1, <2>2 DEF ByOne
<1>8. CASE RestoreRegister(t)
  <2>1. /\ Reach(t, "idle") /\ phase[t] = "restore" /\ register' = saved[t]
        /\ UNCHANGED <<metrics, added, saved, verdict>>
    BY <1>8 DEF RestoreRegister
  <2>2. Importing' = {} /\ Importing = {t}
    BY <1>2, <2>1, ImporterMoves
  <2>3. register' = "original"
    BY <2>1, <2>2 DEF ByOne
  <2> QED BY <2>1, <2>2, <2>3 DEF ByOne
<1> QED BY <1>1, <1>3, <1>4, <1>5, <1>6, <1>7, <1>8

LEMMA LoaderInvariant == LoaderSpec => []LoaderInv
<1>1. ASSUME LoaderInv, [LoaderNext]_loaderVars PROVE LoaderInv'
  <2>1. CASE UNCHANGED loaderVars
    <3>1. Importing' = Importing /\ \A d \in Dirs : Inserted(d)' = Inserted(d)
      BY <2>1 DEF loaderVars, Importing, Inserted
    <3>2. LoaderTyped'
      BY <1>1, <2>1, <3>1 DEF LoaderInv, LoaderTyped, LoaderTypeOK, loaderVars
    <3>3. Counted'
      BY <1>1, <2>1, <3>1, CountedKept DEF LoaderInv, loaderVars
    <3>4. ~overlapped' => ByOne'
      BY <1>1, <2>1, <3>1 DEF LoaderInv, ByOne, loaderVars
    <3> QED BY <3>2, <3>3, <3>4 DEF LoaderInv
  <2>2. CASE LoaderNext
    <3>1. PICK t \in Importers :
             \/ \E d \in Dirs : BeginImport(t, d)
             \/ InsertPath(t) \/ SaveRegister(t) \/ PatchRegister(t) \/ Exec(t)
             \/ RemovePath(t) \/ RestoreRegister(t)
      BY <2>2 DEF LoaderNext
    <3>2. LoaderTyped' /\ Counted'
      BY <1>1, <3>1, LoaderTypeStep, CountedStep DEF LoaderInv
    <3>3. ~overlapped' => ~overlapped
      BY <3>1 DEF BeginImport, InsertPath, SaveRegister, PatchRegister, Exec, RemovePath, RestoreRegister
    <3>4. ~overlapped' => ByOne'
      BY <1>1, <3>1, <3>3, ByOneStep DEF LoaderInv
    <3> QED BY <3>2, <3>4 DEF LoaderInv
  <2> QED BY <1>1, <2>1, <2>2
<1> QED BY <1>1, LoaderStarts, PTL DEF LoaderSpec

\* Every reachable state of the imports is type-correct.
THEOREM LoaderTypeCorrect == LoaderSpec => []LoaderTypeOK
<1>1. LoaderInv => LoaderTypeOK
  BY DEF LoaderInv, LoaderTyped
<1> QED BY <1>1, LoaderInvariant, PTL

\* For any importers and directories, in whatever order their steps come: sys.path holds
\* a directory once for every import that has inserted it and not removed it; and as
\* long as imports have not overlapped, each leaves the register as it was and finds
\* its own sibling (import_module_from_file).
THEOREM ImportsLeaveNothing == LoaderSpec => []ImportsSettle
<1>1. LoaderInv => ImportsSettle
  <2> SUFFICES ASSUME LoaderInv PROVE ImportsSettle
    OBVIOUS
  <2>1. \A d \in Dirs :
           Cardinality({i \in DOMAIN searched : searched[i] = d}) = Cardinality(Inserted(d))
    BY DEF LoaderInv, Counted, Positions
  <2>2. ~overlapped =>
          /\ Importing = {} => register = "original"
          /\ metrics = {}
          /\ \A t \in Importers : verdict[t] \in {"none", "ok", "own error"}
    BY DEF LoaderInv, ByOne
  <2> QED BY <2>1, <2>2 DEF ImportsSettle
<1> QED BY <1>1, LoaderInvariant, PTL

-----------------------------------------------------------------------------
(* FrontEnd                                                                *)

\* Streams that are open, and those that could not be opened, are apart.
Alive ==
    /\ starts \subseteq InProgress
    /\ first = {c \in Calls : stage[c] = "open"}
    /\ unopened \subseteq {c \in Calls : stage[c] = "ended"}
    /\ streams = Cardinality(first) - Cardinality(unopened)

\* Which calls have got how far, and that a request that waits is on a queue.
Placed ==
    \A c \in Calls :
        /\ stage[c] = "begun" => kind[c] = "infer"
        /\ stage[c] = "waiting" => kind[c] = "infer" /\ queuedFor[c] \in Releases
        /\ stage[c] = "open" => kind[c] \notin {"infer", "predict"}
        /\ stage[c] = "new" => queuedFor[c] = Anon

\* GaugesBalance compares the hooks of a response with those of its request, and the
\* depth of a version with its queue.  That they agree is because a request, as long
\* as the registry does not change, means the same version, which is ready, whose
\* hooks then stay in the cache.
Steady ==
    \A c \in Calls \ unstable :
        /\ stage[c] \in {"begun", "waiting"} => label[c] = Meant(c) /\ IsReady(Meant(c))
        /\ stage[c] # "ended" => onResponse[c] = 0
        /\ stage[c] = "waiting" =>
              /\ queuedFor[c] = Meant(c)
              /\ hooks[Meant(c)] # Missing /\ onRequest[c] = hooks[Meant(c)]
        /\ onResponse[c] # 0 => onRequest[c] = onResponse[c]

\* The gauges of queue depth, as in GaugesBalance.
Depths ==
    /\ Total(depth) = Cardinality(Queued(Labels))
    /\ {c \in Calls : kind[c] = "infer"} \cap unstable = {} =>
          \A v \in Releases : depth[v] = Cardinality(Queued({v}))

FrontEndInv == FrontEndTypeOK /\ Alive /\ Placed /\ Steady /\ Depths

LEMMA FrontEndConstants ==
    /\ Missing \in Int /\ Missing # 0 /\ ~(Missing \in 0 .. MaxLoads)
    /\ MaxLoads \in Nat /\ 0 \in 0 .. MaxLoads /\ 0 .. MaxLoads \subseteq Missing .. MaxLoads
    /\ Missing \in Missing .. MaxLoads
    /\ \A h \in Missing .. MaxLoads : h # Missing => h \in 0 .. MaxLoads
    /\ IsFiniteSet(Labels) /\ IsFiniteSet(Calls) /\ Anon \in Labels /\ Releases \subseteq Labels
    /\ Labels \cap Releases = Releases /\ Anon \notin Releases
<1>1. IsFiniteSet(Labels)
  BY FrontEndAssumption, FS_AddElement DEF Labels
<1> QED BY <1>1, FrontEndAssumption DEF Missing, Labels

\* What a look-up of a version leaves in the cache, and finds.
LEMMA LookupOf ==
    ASSUME FrontEndTypeOK, NEW v \in Labels, NEW looked \in Lookup(v)
    PROVE  /\ looked[1] \in [Releases -> Missing .. MaxLoads] /\ looked[2] \in 0 .. MaxLoads
           /\ \A u \in Releases : current[u] # 0 /\ hooks[u] # Missing => looked[1][u] = hooks[u]
           /\ IsReady(v) => looked[1][v] # Missing /\ looked[2] = looked[1][v]
<1> USE FrontEndConstants
<1>1. hooks \in [Releases -> Missing .. MaxLoads] /\ current \in [Releases -> 0 .. MaxLoads]
  BY DEF FrontEndTypeOK
<1>2. CASE v = Anon
  BY <1>1, <1>2 DEF Lookup, IsReady
<1>3. CASE v # Anon /\ hooks[v] # Missing /\ current[v] = 0
  <2>1. looked = <<[hooks EXCEPT ![v] = Missing], 0>> /\ v \in Releases
    BY <1>3 DEF Lookup, Labels
  <2> QED BY <1>1, <1>3, <2>1 DEF IsReady
<1>4. CASE v # Anon /\ hooks[v] # Missing /\ current[v] # 0
  <2>1. looked = <<hooks, hooks[v]>> /\ v \in Releases
    BY <1>4 DEF Lookup, Labels
  <2> QED BY <1>1, <1>4, <2>1 DEF IsReady
<1>5. CASE v # Anon /\ hooks[v] = Missing
  <2>1. v \in Releases
    BY <1>5 DEF Labels
  <2>2. PICK h \in {0, current[v]} : looked = <<[hooks EXCEPT ![v] = h], h>>
    BY <1>5 DEF Lookup
  <2>3. h \in 0 .. MaxLoads
    BY <1>1, <2>1, <2>2
  <2> QED BY <1>1, <1>5, <2>1, <2>2, <2>3 DEF IsReady
<1> QED BY <1>2, <1>3, <1>4, <1>5

LEMMA MeantTyped ==
    ASSUME FrontEndTypeOK, NEW c \in Calls
    PROVE  Meant(c) \in Labels /\ (IsReady(Meant(c)) => Meant(c) \in Releases)
BY DEF FrontEndTypeOK, Meant, IsReady, Labels

\* The types, a group of variables at a time.
RegistryTyped ==
    /\ loads \in 0 .. MaxLoads /\ current \in [Releases -> 0 .. MaxLoads]
    /\ selected \in Labels /\ unstable \subseteq Calls

HooksTyped ==
    /\ hooks \in [Releases -> Missing .. MaxLoads]
    /\ onRequest \in [Calls -> 0 .. MaxLoads] /\ onResponse \in [Calls -> 0 .. MaxLoads]

GaugesTyped == depth \in [Labels -> Int] /\ steps \in Nat /\ streams \in Int

CallsTyped ==
    /\ stage \in [Calls -> {"new", "begun", "waiting", "open", "ended"}]
    /\ label \in [Calls -> Labels] /\ queuedFor \in [Calls -> Labels]

TimesTyped == starts \subseteq Calls /\ first \subseteq Calls /\ unopened \subseteq Calls

LEMMA FrontEndTypeStep ==
    ASSUME FrontEndTypeOK, [FrontEndNext]_frontEndVars
    PROVE  FrontEndTypeOK'
<1> USE FrontEndConstants
<1>0. RegistryTyped /\ HooksTyped /\ GaugesTyped /\ CallsTyped /\ TimesTyped
  BY DEF FrontEndTypeOK, RegistryTyped, HooksTyped, GaugesTyped, CallsTyped, TimesTyped
<1>1. CASE UNCHANGED frontEndVars
  BY <1>1 DEF frontEndVars, registryVars, gaugeVars, callVars, FrontEndTypeOK
<1>2. CASE FrontEndNext
  <2>1. kind' = kind /\ asked' = asked
    BY <1>2 DEF FrontEndNext, LoadRelease, UnloadRelease, ActivateRelease, Change, BeginInfer,
                SubmitInfer, EndInfer, Predict, OpenSocket, StreamPredict, BidirectionalStream,
                StreamChunk, CloseStream
  <2>2. RegistryTyped'
    <3>1. CASE UNCHANGED <<loads, current, selected, unstable>>
      BY <1>0, <3>1 DEF RegistryTyped
    <3>2. ASSUME NEW v \in Releases, LoadRelease(v) PROVE RegistryTyped'
      <4>1. loads + 1 \in 0 .. MaxLoads
        BY <1>0, <3>2 DEF RegistryTyped, LoadRelease
      <4> QED BY <1>0, <3>2, <4>1 DEF RegistryTyped, LoadRelease, Change, InProgress
    <3>3. ASSUME NEW v \in Releases, UnloadRelease(v) PROVE RegistryTyped'
      <4>1. PICK w \in {u \in Releases \ {v} : current[u] # 0} \cup {Anon} :
               Change(IF selected = v THEN w ELSE selected, [current EXCEPT ![v] = 0])
        BY <3>3 DEF UnloadRelease
      <4>2. w \in Labels
        BY DEF Labels
      <4> QED BY <1>0, <3>3, <4>1, <4>2 DEF RegistryTyped, UnloadRelease, Change, InProgress
    <3>4. ASSUME NEW v \in Releases, ActivateRelease(v) PROVE RegistryTyped'
      BY <1>0, <3>4 DEF RegistryTyped, ActivateRelease, Change, InProgress
    <3> QED BY <1>2, <3>1, <3>2, <3>3, <3>4
            DEF FrontEndNext, BeginInfer, SubmitInfer, EndInfer, Predict, OpenSocket,
                StreamPredict, BidirectionalStream, StreamChunk, CloseStream, registryVars
  <2>3. HooksTyped'
    <3>1. CASE UNCHANGED <<hooks, onRequest, onResponse>>
      BY <1>0, <3>1 DEF HooksTyped
    <3>2. ASSUME NEW c \in Calls, SubmitInfer(c) PROVE HooksTyped'
      <4>1. PICK v : v = label[c]
        OBVIOUS
      <4>2. v \in Labels
        BY <1>0, <4>1 DEF CallsTyped
      <4>3. PICK looked \in Lookup(v) :
               hooks' = looked[1] /\ onRequest' = [onRequest EXCEPT ![c] = looked[2]]
        BY <3>2, <4>1 DEF SubmitInfer
      <4>4. looked[1] \in [Releases -> Missing .. MaxLoads] /\ looked[2] \in 0 .. MaxLoads
        BY <4>2, LookupOf
      <4> QED BY <1>0, <3>2, <4>3, <4>4 DEF HooksTyped, SubmitInfer
    <3>3. ASSUME NEW c \in Calls, EndInfer(c), ~UNCHANGED <<hooks, onResponse>> PROVE HooksTyped'
      <4>1. PICK v : v = Meant(c)
        OBVIOUS
      <4>2. v \in Labels
        BY <4>1, MeantTyped
      <4>3. PICK looked \in Lookup(v) :
               hooks' = looked[1] /\ onResponse' = [onResponse EXCEPT ![c] = looked[2]]
        BY <3>3, <4>1 DEF EndInfer
      <4>4. looked[1] \in [Releases -> Missing .. MaxLoads] /\ looked[2] \in 0 .. MaxLoads
        BY <4>2, LookupOf
      <4> QED BY <1>0, <3>3, <4>3, <4>4 DEF HooksTyped, EndInfer
    <3>4. \A c \in Calls : EndInfer(c) => onRequest' = onRequest
      BY DEF EndInfer
    <3> QED BY <1>2, <3>1, <3>2, <3>3, <3>4
            DEF FrontEndNext, LoadRelease, UnloadRelease, ActivateRelease, Change, BeginInfer,
                Predict, OpenSocket, StreamPredict, BidirectionalStream, StreamChunk, CloseStream,
                callVars
  <2>4. GaugesTyped'
    <3>1. \A v \in Labels : /\ [depth EXCEPT ![v] = @ + 1] \in [Labels -> Int]
                            /\ [depth EXCEPT ![v] = @ - 1] \in [Labels -> Int]
      BY <1>0 DEF GaugesTyped
    <3>2. steps + 1 \in Nat /\ streams + 1 \in Int /\ streams - 1 \in Int
      BY <1>0 DEF GaugesTyped
    <3>3. CASE UNCHANGED <<depth, steps, streams>>
      BY <1>0, <3>3 DEF GaugesTyped
    <3>4. ASSUME NEW c \in Calls, SubmitInfer(c) \/ EndInfer(c) \/ Predict(c) PROVE GaugesTyped'
      BY <1>0, <3>1, <3>2, <3>4, MeantTyped DEF GaugesTyped, SubmitInfer, EndInfer, Predict, RequestEnds
    <3>5. ASSUME NEW c \in Calls,
                 \/ OpenSocket(c) \/ StreamPredict(c) \/ BidirectionalStream(c) \/ CloseStream(c)
          PROVE  GaugesTyped'
      <4>1. UNCHANGED <<depth, steps>>
        BY <3>5 DEF OpenSocket, StreamPredict, BidirectionalStream, CloseStream
      <4>2. streams' \in {streams, streams + 1, streams - 1}
        BY <3>5 DEF OpenSocket, StreamPredict, BidirectionalStream, CloseStream, OpenStream,
                    OpeningFails, NotOpened
      <4> QED BY <1>0, <3>2, <4>1, <4>2 DEF GaugesTyped
    <3> QED BY <1>2, <3>3, <3>4, <3>5
            DEF FrontEndNext, LoadRelease, UnloadRelease, ActivateRelease, Change, BeginInfer,
                StreamChunk, gaugeVars
  <2>5. CallsTyped'
    <3>1. CASE UNCHANGED <<stage, label, queuedFor>>
      BY <1>0, <3>1 DEF CallsTyped
    <3>2. ASSUME NEW c \in Calls,
                 \/ BeginInfer(c) \/ SubmitInfer(c) \/ EndInfer(c) \/ Predict(c)
                 \/ OpenSocket(c) \/ StreamPredict(c) \/ BidirectionalStream(c) \/ CloseStream(c)
          PROVE  CallsTyped'
      <4>1. \E s \in {"new", "begun", "waiting", "open", "ended"} : stage' = [stage EXCEPT ![c] = s]
        BY <3>2 DEF BeginInfer, SubmitInfer, EndInfer, Predict, OpenSocket, StreamPredict,
                    BidirectionalStream, CloseStream, OpenStream, OpeningFails, NotOpened,
                    RequestEnds
      <4>2. label' = label \/ label' = [label EXCEPT ![c] = Meant(c)]
        BY <3>2 DEF BeginInfer, SubmitInfer, EndInfer, Predict, OpenSocket, StreamPredict,
                    BidirectionalStream, CloseStream
      <4>3. queuedFor' = queuedFor \/ queuedFor' = [queuedFor EXCEPT ![c] = Meant(c)]
        BY <3>2 DEF BeginInfer, SubmitInfer, EndInfer, Predict, OpenSocket, StreamPredict,
                    BidirectionalStream, CloseStream
      <4> QED BY <1>0, <4>1, <4>2, <4>3, MeantTyped DEF CallsTyped
    <3> QED BY <1>2, <3>1, <3>2
            DEF FrontEndNext, LoadRelease, UnloadRelease, ActivateRelease, Change, StreamChunk,
                callVars
  <2>6. TimesTyped'
    <3>1. CASE UNCHANGED <<starts, first, unopened>>
      BY <1>0, <3>1 DEF TimesTyped
    <3>2. ASSUME NEW c \in Calls,
                 \/ BeginInfer(c) \/ SubmitInfer(c) \/ EndInfer(c) \/ Predict(c) \/ OpenSocket(c)
                 \/ StreamPredict(c) \/ BidirectionalStream(c) \/ StreamChunk(c) \/ CloseStream(c)
          PROVE  TimesTyped'
      <4>1. starts' \subseteq starts \cup {c}
        BY <3>2 DEF BeginInfer, SubmitInfer, EndInfer, Predict, OpenSocket, StreamPredict,
                    BidirectionalStream, StreamChunk, CloseStream, RequestEnds
      <4>2. first' \subseteq first \cup {c} /\ unopened' \subseteq unopened \cup {c}
        BY <3>2 DEF BeginInfer, SubmitInfer, EndInfer, Predict, OpenSocket, StreamPredict,
                    BidirectionalStream, StreamChunk, CloseStream, OpenStream, OpeningFails,
                    NotOpened
      <4> QED BY <1>0, <4>1, <4>2 DEF TimesTyped
    <3> QED BY <1>2, <3>1, <3>2
            DEF FrontEndNext, LoadRelease, UnloadRelease, ActivateRelease, Change, gaugeVars
  <2> QED BY <2>1, <2>2, <2>3, <2>4, <2>5, <2>6
          DEF FrontEndTypeOK, RegistryTyped, HooksTyped, GaugesTyped, CallsTyped, TimesTyped
<1> QED BY <1>1, <1>2

LEMMA FrontEndStarts == FrontEndInit => FrontEndInv
<1> SUFFICES ASSUME FrontEndInit PROVE FrontEndInv
  OBVIOUS
<1> USE FrontEndConstants
<1>1. FrontEndTypeOK
  <2>1. /\ loads \in 0 .. MaxLoads /\ current \in [Releases -> 0 .. MaxLoads]
        /\ hooks \in [Releases -> Missing .. MaxLoads]
        /\ onRequest \in [Calls -> 0 .. MaxLoads] /\ onResponse \in [Calls -> 0 .. MaxLoads]
    BY DEF FrontEndInit
  <2> QED BY <2>1 DEF FrontEndInit, FrontEndTypeOK
<1>2. Alive
  <2>1. /\ InProgress = {} /\ {c \in Calls : stage[c] = "open"} = {}
        /\ starts = {} /\ first = {} /\ unopened = {} /\ streams = 0
    BY DEF FrontEndInit, InProgress
  <2> QED BY <2>1, FS_EmptySet DEF Alive
<1>3. Placed
  BY DEF Placed, FrontEndInit
<1>4. Steady
  BY DEF Steady, FrontEndInit
<1>5. Depths
  <2>1. ASSUME NEW V PROVE Queued(V) = {}
    BY DEF FrontEndInit, Queued
  <2>2. Total(depth) = 0
    <3>1. depth = [v \in Labels |-> 0]
      BY DEF FrontEndInit
    <3>2. SumOf([v \in Labels |-> 0]) = 0
      BY SumOfZeros
    <3> QED BY <3>1, <3>2 DEF Total, SumOf
  <2>3. \A v \in Releases : depth[v] = 0
    BY DEF FrontEndInit
  <2> QED BY <2>1, <2>2, <2>3, FS_EmptySet DEF Depths
<1> QED BY <1>1, <1>2, <1>3, <1>4, <1>5 DEF FrontEndInv

\* One call takes a step: the others stay where they are.
LEMMA OneCallMoves ==
    ASSUME FrontEndTypeOK, NEW c \in Calls,
           \/ BeginInfer(c) \/ SubmitInfer(c) \/ EndInfer(c) \/ Predict(c) \/ OpenSocket(c)
           \/ StreamPredict(c) \/ BidirectionalStream(c) \/ StreamChunk(c) \/ CloseStream(c)
    PROVE  /\ \A d \in Calls : d # c => /\ stage'[d] = stage[d] /\ label'[d] = label[d]
                                        /\ queuedFor'[d] = queuedFor[d]
                                        /\ onRequest'[d] = onRequest[d]
                                        /\ onResponse'[d] = onResponse[d]
           /\ kind' = kind /\ asked' = asked /\ unstable' = unstable
           /\ loads' = loads /\ current' = current /\ selected' = selected
<1>1. \A d \in Calls : d # c => stage'[d] = stage[d]
  BY DEF FrontEndTypeOK, BeginInfer, SubmitInfer, EndInfer, Predict, OpenSocket, StreamPredict,
         BidirectionalStream, StreamChunk, CloseStream, OpenStream, OpeningFails, NotOpened,
         RequestEnds, callVars
<1>2. \A d \in Calls : d # c => label'[d] = label[d] /\ queuedFor'[d] = queuedFor[d]
  BY DEF FrontEndTypeOK, BeginInfer, SubmitInfer, EndInfer, Predict, OpenSocket, StreamPredict,
         BidirectionalStream, StreamChunk, CloseStream, callVars
<1>3. \A d \in Calls : d # c => onRequest'[d] = onRequest[d] /\ onResponse'[d] = onResponse[d]
  BY DEF FrontEndTypeOK, BeginInfer, SubmitInfer, EndInfer, Predict, OpenSocket, StreamPredict,
         BidirectionalStream, StreamChunk, CloseStream, callVars
<1>4. /\ kind' = kind /\ asked' = asked /\ unstable' = unstable
      /\ loads' = loads /\ current' = current /\ selected' = selected
  BY DEF BeginInfer, SubmitInfer, EndInfer, Predict, OpenSocket, StreamPredict,
         BidirectionalStream, StreamChunk, CloseStream, registryVars
<1> QED BY <1>1, <1>2, <1>3, <1>4

LEMMA FrontEndCases ==
    ASSUME [FrontEndNext]_frontEndVars
    PROVE  \/ UNCHANGED frontEndVars
           \/ \E v \in Releases : LoadRelease(v) \/ UnloadRelease(v) \/ ActivateRelease(v)
           \/ \E c \in Calls : \/ BeginInfer(c) \/ SubmitInfer(c) \/ EndInfer(c) \/ Predict(c)
                               \/ OpenSocket(c) \/ StreamPredict(c) \/ BidirectionalStream(c)
                               \/ StreamChunk(c) \/ CloseStream(c)
BY DEF FrontEndNext

\* The parts of the invariant.
LEMMA PlacedStep ==
    ASSUME FrontEndTypeOK, Placed, [FrontEndNext]_frontEndVars
    PROVE  Placed'
<1>1. CASE UNCHANGED <<kind, stage, queuedFor>>
  BY <1>1 DEF Placed
<1>2. ASSUME NEW c \in Calls,
             \/ BeginInfer(c) \/ SubmitInfer(c) \/ EndInfer(c) \/ Predict(c) \/ OpenSocket(c)
             \/ StreamPredict(c) \/ BidirectionalStream(c) \/ StreamChunk(c) \/ CloseStream(c)
      PROVE  Placed'
  <2>1. /\ stage'[c] = "begun" => kind[c] = "infer"
        /\ stage'[c] = "waiting" => kind[c] = "infer" /\ queuedFor'[c] \in Releases
        /\ stage'[c] = "open" => kind[c] \notin {"infer", "predict"}
        /\ stage'[c] = "new" => queuedFor'[c] = Anon
    <3>1. CASE BeginInfer(c)
      BY <3>1 DEF FrontEndTypeOK, BeginInfer, RequestEnds
    <3>2. CASE SubmitInfer(c)
      BY <3>2, MeantTyped DEF FrontEndTypeOK, Placed, SubmitInfer, RequestEnds
    <3>3. CASE EndInfer(c)
      BY <3>3 DEF FrontEndTypeOK, EndInfer, RequestEnds
    <3>4. CASE Predict(c)
      BY <3>4 DEF FrontEndTypeOK, Predict
    <3>5. CASE OpenSocket(c)
      BY <3>5 DEF FrontEndTypeOK, OpenSocket, RequestEnds
    <3>6. CASE StreamPredict(c) \/ BidirectionalStream(c)
      BY <3>6 DEF FrontEndTypeOK, StreamPredict, BidirectionalStream, OpenStream, OpeningFails, NotOpened
    <3>7. CASE StreamChunk(c)
      BY <3>7 DEF FrontEndTypeOK, Placed, StreamChunk, callVars
    <3>8. CASE CloseStream(c)
      BY <3>8 DEF FrontEndTypeOK, CloseStream, RequestEnds
    <3> QED BY <1>2, <3>1, <3>2, <3>3, <3>4, <3>5, <3>6, <3>7, <3>8
  <2> QED BY <1>2, <2>1, OneCallMoves DEF Placed
<1>3. ASSUME NEW v \in Releases, LoadRelease(v) \/ UnloadRelease(v) \/ ActivateRelease(v)
      PROVE  Placed'
  BY <1>1, <1>3 DEF LoadRelease, UnloadRelease, ActivateRelease, Change, callVars
<1> QED BY <1>1, <1>2, <1>3, FrontEndCases DEF frontEndVars, callVars

LEMMA SteadyStep ==
    ASSUME FrontEndTypeOK, Placed, Steady, [FrontEndNext]_frontEndVars
    PROVE  Steady'
<1> USE FrontEndConstants
<1>1. CASE UNCHANGED frontEndVars
  BY <1>1 DEF frontEndVars, registryVars, callVars, Steady, Meant, IsReady
\* A change of the registry leaves the calls alone that are not in progress.
<1>2. ASSUME NEW v \in Releases, LoadRelease(v) \/ UnloadRelease(v) \/ ActivateRelease(v)
      PROVE  Steady'
  <2>1. unstable' = unstable \cup InProgress /\ UNCHANGED <<stage, onRequest, onResponse>>
    BY <1>2 DEF LoadRelease, UnloadRelease, ActivateRelease, Change, callVars
  <2>2. ASSUME NEW c \in Calls, c \notin unstable'
        PROVE  c \notin unstable /\ stage'[c] \in {"new", "ended"}
    BY <2>1, <2>2 DEF FrontEndTypeOK, InProgress
  <2> QED BY <2>1, <2>2 DEF Steady
<1>3. ASSUME NEW c \in Calls,
             \/ BeginInfer(c) \/ SubmitInfer(c) \/ EndInfer(c) \/ Predict(c) \/ OpenSocket(c)
             \/ StreamPredict(c) \/ BidirectionalStream(c) \/ StreamChunk(c) \/ CloseStream(c)
      PROVE  Steady'
  <2>1. \A d \in Calls : Meant(d)' = Meant(d) /\ \A u \in Labels : IsReady(u)' = IsReady(u)
    BY <1>3, OneCallMoves DEF Meant, IsReady
  <2>2. \A u \in Releases : current[u] # 0 /\ hooks[u] # Missing => hooks'[u] = hooks[u]
    <3>1. CASE hooks' = hooks
      BY <3>1
    <3>2. CASE hooks' # hooks
      <4>1. PICK v \in Labels : \E looked \in Lookup(v) : hooks' = looked[1]
        <5>1. CASE SubmitInfer(c)
          <6>1. PICK v : v = label[c]
            OBVIOUS
          <6>2. v \in Labels
            BY <6>1 DEF FrontEndTypeOK
          <6> QED BY <5>1, <6>1, <6>2 DEF SubmitInfer
        <5>2. CASE EndInfer(c)
          <6>1. PICK v : v = Meant(c)
            OBVIOUS
          <6>2. v \in Labels
            BY <6>1, MeantTyped
          <6> QED BY <3>2, <5>2, <6>1, <6>2 DEF EndInfer
        <5> QED BY <1>3, <3>2, <5>1, <5>2
                DEF BeginInfer, Predict, OpenSocket, StreamPredict, BidirectionalStream,
                    StreamChunk, CloseStream
      <4>2. PICK looked \in Lookup(v) : hooks' = looked[1]
        BY <4>1
      <4> QED BY <4>2, LookupOf
    <3> QED BY <3>1, <3>2
  <2>3. ASSUME NEW d \in Calls, d \notin unstable', d # c
        PROVE  /\ stage'[d] \in {"begun", "waiting"} => label'[d] = Meant(d)' /\ IsReady(Meant(d))'
               /\ stage'[d] # "ended" => onResponse'[d] = 0
               /\ stage'[d] = "waiting" =>
                     /\ queuedFor'[d] = Meant(d)'
                     /\ hooks'[Meant(d)'] # Missing /\ onRequest'[d] = hooks'[Meant(d)']
               /\ onResponse'[d] # 0 => onRequest'[d] = onResponse'[d]
    <3>1. PICK m : m = Meant(d)
      OBVIOUS
    <3>2. m \in Labels /\ (IsReady(m) => m \in Releases /\ current[m] # 0)
      BY <3>1, MeantTyped DEF IsReady
    <3>3. Meant(d)' = m /\ IsReady(m)' = IsReady(m)
      BY <2>1, <3>1, <3>2
    <3>4. IsReady(Meant(d))' = IsReady(m)
      BY <3>3 DEF IsReady
    <3>5. /\ d \notin unstable /\ stage'[d] = stage[d] /\ label'[d] = label[d]
          /\ queuedFor'[d] = queuedFor[d]
          /\ onRequest'[d] = onRequest[d] /\ onResponse'[d] = onResponse[d]
      BY <1>3, <2>3, OneCallMoves
    <3> QED BY <2>2, <3>1, <3>2, <3>3, <3>4, <3>5 DEF Steady
  <2>4. ASSUME c \notin unstable'
        PROVE  /\ stage'[c] \in {"begun", "waiting"} => label'[c] = Meant(c)' /\ IsReady(Meant(c))'
               /\ stage'[c] # "ended" => onResponse'[c] = 0
               /\ stage'[c] = "waiting" =>
                     /\ queuedFor'[c] = Meant(c)'
                     /\ hooks'[Meant(c)'] # Missing /\ onRequest'[c] = hooks'[Meant(c)']
               /\ onResponse'[c] # 0 => onRequest'[c] = onResponse'[c]
    <3>1. PICK m : m = Meant(c)
      OBVIOUS
    <3>2. m \in Labels /\ (IsReady(m) => m \in Releases /\ current[m] # 0)
      BY <3>1, MeantTyped DEF IsReady
    <3>3. Meant(c)' = m /\ IsReady(m)' = IsReady(m)
      BY <2>1, <3>1, <3>2
    <3>4. IsReady(Meant(c))' = IsReady(m)
      BY <3>3 DEF IsReady
    <3>5. c \notin unstable
      BY <1>3, <2>4, OneCallMoves
    <3>6. CASE BeginInfer(c)
      BY <3>1, <3>3, <3>4, <3>5, <3>6 DEF BeginInfer, RequestEnds, Steady, FrontEndTypeOK
    <3>7. CASE SubmitInfer(c)
      <4>1. label[c] = m /\ IsReady(m) /\ label'[c] = m /\ onResponse'[c] = onResponse[c] /\ onResponse[c] = 0
        BY <3>1, <3>5, <3>7 DEF SubmitInfer, Steady
      <4>2. PICK looked \in Lookup(m) :
               hooks' = looked[1] /\ onRequest' = [onRequest EXCEPT ![c] = looked[2]]
        BY <3>7, <4>1 DEF SubmitInfer
      <4>3. looked[1][m] # Missing /\ looked[2] = looked[1][m]
        BY <3>2, <4>1, <4>2, LookupOf
      <4>4. hooks'[m] # Missing /\ onRequest'[c] = hooks'[m]
        BY <4>2, <4>3 DEF FrontEndTypeOK
      <4>5. stage'[c] \in {"waiting", "ended"} /\ (stage'[c] = "waiting" => queuedFor'[c] = m)
        BY <3>1, <3>7 DEF SubmitInfer, RequestEnds, FrontEndTypeOK
      <4> QED BY <3>3, <3>4, <4>1, <4>4, <4>5
    <3>8. CASE EndInfer(c)
      <4>1. IsReady(m) /\ hooks[m] # Missing /\ onRequest[c] = hooks[m] /\ onResponse[c] = 0
        BY <3>1, <3>5, <3>8 DEF EndInfer, Steady
      <4>2. stage'[c] = "ended" /\ onRequest'[c] = onRequest[c]
        BY <3>8 DEF EndInfer, RequestEnds, FrontEndTypeOK
      <4>3. CASE onResponse' = onResponse
        BY <4>1, <4>2, <4>3
      <4>4. CASE onResponse' # onResponse
        <5>1. PICK looked \in Lookup(m) :
                 hooks' = looked[1] /\ onResponse' = [onResponse EXCEPT ![c] = looked[2]]
          BY <3>1, <3>8, <4>4 DEF EndInfer
        <5>2. looked[2] = looked[1][m] /\ looked[1][m] = hooks[m]
          BY <3>2, <4>1, <5>1, LookupOf
        <5>3. onResponse'[c] = hooks[m]
          BY <5>1, <5>2 DEF FrontEndTypeOK
        <5> QED BY <4>1, <4>2, <5>3
      <4> QED BY <4>3, <4>4
    <3>9. CASE Predict(c)
      BY <3>5, <3>9 DEF Predict, Steady, FrontEndTypeOK
    <3>10. CASE OpenSocket(c)
      BY <3>5, <3>10 DEF OpenSocket, RequestEnds, Steady, FrontEndTypeOK
    <3>11. CASE StreamPredict(c)
      BY <3>5, <3>11 DEF StreamPredict, OpenStream, OpeningFails, NotOpened, Steady, FrontEndTypeOK
    <3>12. CASE BidirectionalStream(c)
      BY <3>5, <3>12 DEF BidirectionalStream, OpenStream, OpeningFails, NotOpened, Steady, FrontEndTypeOK
    <3>13. CASE StreamChunk(c)
      BY <3>5, <3>13 DEF StreamChunk, Steady, callVars
    <3>14. CASE CloseStream(c)
      BY <3>5, <3>14 DEF CloseStream, RequestEnds, Steady, FrontEndTypeOK
    <3> QED BY <1>3, <3>6, <3>7, <3>8, <3>9, <3>10, <3>11, <3>12, <3>13, <3>14
  <2>5. unstable' = unstable
    BY <1>3, OneCallMoves
  <2> QED BY <2>3, <2>4 DEF Steady
<1> QED BY <1>1, <1>2, <1>3, FrontEndCases

\* What a call does to the gauge of streams: it opens one, fails to, closes one, or
\* leaves the gauge alone.
LEMMA StreamMoves ==
    ASSUME FrontEndTypeOK, NEW c \in Calls,
           \/ BeginInfer(c) \/ SubmitInfer(c) \/ EndInfer(c) \/ Predict(c) \/ OpenSocket(c)
           \/ StreamPredict(c) \/ BidirectionalStream(c) \/ StreamChunk(c) \/ CloseStream(c)
    PROVE  \/ /\ stage[c] # "open" /\ stage'[c] = "open" /\ stage[c] = "new"
              /\ streams' = streams + 1 /\ first' = first \cup {c} /\ unopened' = unopened
           \/ /\ stage[c] = "new" /\ stage'[c] = "ended"
              /\ streams' = streams - 1 /\ first' = first /\ unopened' = unopened \cup {c}
           \/ /\ stage[c] = "open" /\ stage'[c] = "ended"
              /\ streams' = streams - 1 /\ first' = first \ {c} /\ unopened' = unopened
           \/ /\ stage[c] = "open" <=> stage'[c] = "open"
              /\ stage[c] = "ended" => stage'[c] = "ended"
              /\ streams' = streams /\ first' = first /\ unopened' = unopened
<1>1. CASE BeginInfer(c) \/ SubmitInfer(c) \/ EndInfer(c) \/ Predict(c)
  <2>1. stage[c] \in {"new", "begun", "waiting"} /\ UNCHANGED <<streams, first, unopened>>
    BY <1>1 DEF BeginInfer, SubmitInfer, EndInfer, Predict
  <2>2. stage'[c] \in {"begun", "waiting", "ended"}
    BY <1>1 DEF BeginInfer, SubmitInfer, EndInfer, Predict, RequestEnds, FrontEndTypeOK
  <2> QED BY <2>1, <2>2
<1>2. CASE OpenSocket(c)
  BY <1>2 DEF OpenSocket, RequestEnds, FrontEndTypeOK
<1>3. CASE StreamPredict(c) \/ BidirectionalStream(c)
  <2>1. /\ stage[c] = "new"
        /\ OpenStream(c) \/ OpeningFails(c) \/ NotOpened(c)
    BY <1>3 DEF StreamPredict, BidirectionalStream
  <2> QED BY <2>1 DEF OpenStream, OpeningFails, NotOpened, FrontEndTypeOK
<1>4. CASE StreamChunk(c)
  BY <1>4 DEF StreamChunk, callVars
<1>5. CASE CloseStream(c)
  BY <1>5 DEF CloseStream, RequestEnds, FrontEndTypeOK
<1> QED BY <1>1, <1>2, <1>3, <1>4, <1>5

LEMMA AliveStep ==
    ASSUME FrontEndTypeOK, Alive, [FrontEndNext]_frontEndVars
    PROVE  Alive'
<1> USE FrontEndConstants
<1>1. CASE UNCHANGED <<stage, streams, starts, first, unopened>>
  BY <1>1 DEF Alive, InProgress
<1>2. ASSUME NEW c \in Calls,
             \/ BeginInfer(c) \/ SubmitInfer(c) \/ EndInfer(c) \/ Predict(c) \/ OpenSocket(c)
             \/ StreamPredict(c) \/ BidirectionalStream(c) \/ StreamChunk(c) \/ CloseStream(c)
      PROVE  Alive'
  <2>1. \A d \in Calls : d # c => stage'[d] = stage[d]
    BY <1>2, OneCallMoves
  <2>2. starts' \subseteq InProgress'
    <3>1. c \in starts' => stage'[c] \notin {"new", "ended"}
      <4>1. CASE BeginInfer(c)
        BY <4>1 DEF BeginInfer, RequestEnds, FrontEndTypeOK
      <4>2. CASE SubmitInfer(c)
        BY <4>2 DEF SubmitInfer, RequestEnds, FrontEndTypeOK
      <4>3. CASE EndInfer(c) \/ CloseStream(c)
        BY <4>3 DEF EndInfer, CloseStream, RequestEnds
      <4>4. CASE Predict(c) \/ StreamPredict(c) \/ BidirectionalStream(c)
        BY <4>4 DEF Predict, StreamPredict, BidirectionalStream, Alive, InProgress
      <4>5. CASE OpenSocket(c)
        BY <4>5 DEF OpenSocket, RequestEnds, FrontEndTypeOK
      <4>6. CASE StreamChunk(c)
        BY <4>6 DEF StreamChunk
      <4> QED BY <1>2, <4>1, <4>2, <4>3, <4>4, <4>5, <4>6
    <3>2. starts' \subseteq starts \cup {c}
      BY <1>2 DEF BeginInfer, SubmitInfer, EndInfer, Predict, OpenSocket, StreamPredict,
                  BidirectionalStream, StreamChunk, CloseStream, RequestEnds
    <3> QED BY <2>1, <3>1, <3>2 DEF Alive, InProgress
  <2>3. /\ IsFiniteSet(first) /\ IsFiniteSet(unopened)
        /\ Cardinality(first) \in Nat /\ Cardinality(unopened) \in Nat
    <3>1. first \subseteq Calls /\ unopened \subseteq Calls
      BY DEF FrontEndTypeOK
    <3>2. IsFiniteSet(first) /\ IsFiniteSet(unopened)
      BY <3>1, FS_Subset
    <3> QED BY <3>2, FS_CardinalityType
  <2>4. PICK f \in Nat, u \in Nat : f = Cardinality(first) /\ u = Cardinality(unopened)
    BY <2>3
  <2>5. streams = f - u
    BY <2>4 DEF Alive
  <2>6. CASE /\ stage[c] # "open" /\ stage'[c] = "open" /\ stage[c] = "new"
             /\ streams' = streams + 1 /\ first' = first \cup {c} /\ unopened' = unopened
    <3>1. c \notin first /\ first' = {d \in Calls : stage'[d] = "open"}
      BY <2>1, <2>6 DEF Alive
    <3>2. Cardinality(first') = f + 1
      BY <2>3, <2>4, <2>6, <3>1, FS_AddElement
    <3>3. unopened' \subseteq {d \in Calls : stage'[d] = "ended"}
      BY <2>1, <2>6 DEF Alive
    <3>4. streams' = Cardinality(first') - Cardinality(unopened')
      BY <2>4, <2>5, <2>6, <3>2
    <3> QED BY <2>2, <3>1, <3>3, <3>4 DEF Alive
  <2>7. CASE /\ stage[c] = "new" /\ stage'[c] = "ended"
             /\ streams' = streams - 1 /\ first' = first /\ unopened' = unopened \cup {c}
    <3>1. first' = {d \in Calls : stage'[d] = "open"}
      BY <2>1, <2>7 DEF Alive
    <3>2. c \notin unopened /\ unopened' \subseteq {d \in Calls : stage'[d] = "ended"}
      BY <2>1, <2>7 DEF Alive
    <3>3. Cardinality(unopened') = u + 1
      BY <2>3, <2>4, <2>7, <3>2, FS_AddElement
    <3>4. streams' = Cardinality(first') - Cardinality(unopened')
      BY <2>4, <2>5, <2>7, <3>3
    <3> QED BY <2>2, <3>1, <3>2, <3>4 DEF Alive
  <2>8. CASE /\ stage[c] = "open" /\ stage'[c] = "ended"
             /\ streams' = streams - 1 /\ first' = first \ {c} /\ unopened' = unopened
    <3>1. c \in first /\ first' = {d \in Calls : stage'[d] = "open"}
      BY <2>1, <2>8 DEF Alive
    <3>2. Cardinality(first') = f - 1
      BY <2>3, <2>4, <2>8, <3>1, FS_RemoveElement
    <3>3. unopened' \subseteq {d \in Calls : stage'[d] = "ended"}
      BY <2>1, <2>8 DEF Alive
    <3>4. streams' = Cardinality(first') - Cardinality(unopened')
      BY <2>4, <2>5, <2>8, <3>2
    <3> QED BY <2>2, <3>1, <3>3, <3>4 DEF Alive
  <2>9. CASE /\ stage[c] = "open" <=> stage'[c] = "open"
             /\ stage[c] = "ended" => stage'[c] = "ended"
             /\ streams' = streams /\ first' = first /\ unopened' = unopened
    <3>1. first' = {d \in Calls : stage'[d] = "open"}
      BY <2>1, <2>9 DEF Alive
    <3>2. unopened' \subseteq {d \in Calls : stage'[d] = "ended"}
      BY <2>1, <2>9 DEF Alive
    <3> QED BY <2>2, <2>9, <3>1, <3>2 DEF Alive
  <2> QED BY <1>2, <2>6, <2>7, <2>8, <2>9, StreamMoves
<1>3. ASSUME NEW v \in Releases, LoadRelease(v) \/ UnloadRelease(v) \/ ActivateRelease(v)
      PROVE  Alive'
  BY <1>1, <1>3 DEF LoadRelease, UnloadRelease, ActivateRelease, Change, callVars, gaugeVars
<1> QED BY <1>1, <1>2, <1>3, FrontEndCases DEF frontEndVars, callVars, gaugeVars

-----------------------------------------------------------------------------
\* A call is put on a queue, or taken off it: what is queued is then one more, or
\* one less.
LEMMA QueuedMoves ==
    ASSUME FrontEndTypeOK, NEW c \in Calls, NEW V,
           \A d \in Calls : d # c => stage'[d] = stage[d] /\ queuedFor'[d] = queuedFor[d],
           kind' = kind
    PROVE  /\ IsFiniteSet(Queued(V)) /\ Cardinality(Queued(V)) \in Nat
           /\ Queued(V)' \ {c} = Queued(V) \ {c}
           /\ c \notin Queued(V) /\ c \in Queued(V)' =>
                 Cardinality(Queued(V)') = Cardinality(Queued(V)) + 1
           /\ c \in Queued(V) /\ c \notin Queued(V)' =>
                 Cardinality(Queued(V)') = Cardinality(Queued(V)) - 1
           /\ (c \in Queued(V) <=> c \in Queued(V)') => Queued(V)' = Queued(V)
<1>1. PICK p, q : p = Queued(V) /\ q = Queued(V)'
  OBVIOUS
<1>2. p \subseteq Calls /\ q \ {c} = p \ {c}
  BY <1>1 DEF Queued
<1>3. IsFiniteSet(p) /\ Cardinality(p) \in Nat
  BY <1>2, FS_Subset, FS_CardinalityType, FrontEndAssumption
<1>4. c \notin p /\ c \in q => Cardinality(q) = Cardinality(p) + 1
  <2>1. c \notin p /\ c \in q => q = p \cup {c}
    BY <1>2
  <2> QED BY <1>3, <2>1, FS_AddElement
<1>5. c \in p /\ c \notin q => Cardinality(q) = Cardinality(p) - 1
  <2>1. c \in p /\ c \notin q => q = p \ {c}
    BY <1>2
  <2> QED BY <1>3, <2>1, FS_RemoveElement
<1>6. (c \in p <=> c \in q) => q = p
  BY <1>2
<1> QED BY <1>1, <1>2, <1>3, <1>4, <1>5, <1>6

\* A step that concerns no queue.
LEMMA DepthsKept ==
    ASSUME Depths, UNCHANGED <<kind, depth>>, unstable \subseteq unstable',
           \A V \in SUBSET Labels : Queued(V)' = Queued(V)
    PROVE  Depths'
<1>1. Labels \in SUBSET Labels /\ \A v \in Releases : {v} \in SUBSET Labels
  BY DEF Labels
<1>2. Queued(Labels)' = Queued(Labels) /\ \A v \in Releases : Queued({v})' = Queued({v})
  BY <1>1
<1>3. Total(depth)' = Total(depth)
  OBVIOUS
<1>4. {c \in Calls : kind'[c] = "infer"} \cap unstable' = {} =>
         {c \in Calls : kind[c] = "infer"} \cap unstable = {}
  OBVIOUS
<1> QED BY <1>2, <1>3, <1>4 DEF Depths

LEMMA TotalIsSum == ASSUME NEW f PROVE Total(f) = SumOf(f)
BY DEF Total, SumOf

\* One more, or one less, of version m.
LEMMA DepthMoves ==
    ASSUME FrontEndTypeOK, NEW m \in Labels, NEW n \in Int, depth' = [depth EXCEPT ![m] = @ + n]
    PROVE  Total(depth)' = Total(depth) + n /\ Total(depth) \in Int
<1>1. IsFiniteSet(Labels)
  BY FrontEndConstants
<1>2. PICK f \in [Labels -> Int] : f = depth
  BY DEF FrontEndTypeOK
<1>3. SumOf([f EXCEPT ![m] = @ + n]) = SumOf(f) + n /\ SumOf(f) \in Int
  BY <1>1, SumOfChange
<1>4. depth' = [f EXCEPT ![m] = @ + n]
  BY <1>2
<1>5. Total(depth) = SumOf(f) /\ Total(depth)' = SumOf([f EXCEPT ![m] = @ + n])
  <2>1. PICK e : e = [f EXCEPT ![m] = @ + n]
    OBVIOUS
  <2>2. Total(f) = SumOf(f) /\ Total(e) = SumOf(e)
    BY TotalIsSum
  <2>3. depth = f /\ depth' = e
    BY <1>2, <1>4, <2>1
  <2> QED BY <2>1, <2>2, <2>3
<1> QED BY <1>3, <1>5

\* The gauges follow the queues.
LEMMA DepthsStep ==
    ASSUME FrontEndTypeOK, Placed, Steady, Depths, [FrontEndNext]_frontEndVars
    PROVE  Depths'
<1> USE FrontEndConstants
<1>1. CASE UNCHANGED <<kind, depth, stage, queuedFor>> /\ unstable \subseteq unstable'
  <2>1. \A V \in SUBSET Labels : Queued(V)' = Queued(V)
    BY <1>1 DEF Queued
  <2> QED BY <1>1, <2>1, DepthsKept
<1>2. ASSUME NEW v \in Releases, LoadRelease(v) \/ UnloadRelease(v) \/ ActivateRelease(v)
      PROVE  Depths'
  BY <1>1, <1>2 DEF LoadRelease, UnloadRelease, ActivateRelease, Change, callVars, gaugeVars
<1>3. ASSUME NEW c \in Calls,
             \/ BeginInfer(c) \/ SubmitInfer(c) \/ EndInfer(c) \/ Predict(c) \/ OpenSocket(c)
             \/ StreamPredict(c) \/ BidirectionalStream(c) \/ StreamChunk(c) \/ CloseStream(c)
      PROVE  Depths'
  <2>1. /\ \A d \in Calls : d # c => stage'[d] = stage[d] /\ queuedFor'[d] = queuedFor[d]
        /\ kind' = kind /\ unstable' = unstable
    BY <1>3, OneCallMoves
  \* It is neither put on a queue nor taken off.
  <2>2. CASE /\ depth' = depth
             /\ \A V \in SUBSET Labels : c \in Queued(V) <=> c \in Queued(V)'
    <3>1. ASSUME NEW V \in SUBSET Labels PROVE Queued(V)' = Queued(V)
      BY <2>1, <2>2, QueuedMoves
    <3> QED BY <2>1, <2>2, <3>1, DepthsKept
  \* It is put on the queue of m.
  <2>3. ASSUME NEW m \in Releases, depth' = [depth EXCEPT ![m] = @ + 1], queuedFor'[c] = m,
               \A V \in SUBSET Labels : c \notin Queued(V),
               kind[c] = "predict" \/ stage'[c] = "waiting"
        PROVE  Depths'
    <3>1. ASSUME NEW V \in SUBSET Labels
          PROVE  /\ Cardinality(Queued(V)) \in Nat
                 /\ Cardinality(Queued(V)') = Cardinality(Queued(V)) + (IF m \in V THEN 1 ELSE 0)
      <4>1. c \in Queued(V)' <=> m \in V
        BY <2>1, <2>3 DEF Queued
      <4>2. CASE m \in V
        BY <2>1, <2>3, <4>1, <4>2, QueuedMoves
      <4>3. CASE m \notin V
        <5>1. Queued(V)' = Queued(V) /\ Cardinality(Queued(V)) \in Nat
          BY <2>1, <2>3, <4>1, <4>3, QueuedMoves
        <5> QED BY <4>3, <5>1
      <4> QED BY <4>2, <4>3
    <3>2. Total(depth)' = Total(depth) + 1
      <4>1. PICK n \in Int : n = 1
        OBVIOUS
      <4>2. depth' = [depth EXCEPT ![m] = @ + n] /\ m \in Labels
        BY <2>3, <4>1
      <4>3. Total(depth)' = Total(depth) + n
        BY <4>2, DepthMoves
      <4> QED BY <4>1, <4>3
    <3>3. Total(depth)' = Cardinality(Queued(Labels)')
      <4>1. Labels \in SUBSET Labels /\ m \in Labels
        OBVIOUS
      <4> QED BY <3>1, <3>2, <4>1 DEF Depths
    <3>4. ASSUME {d \in Calls : kind[d] = "infer"} \cap unstable = {}, NEW v \in Releases
          PROVE  depth'[v] = Cardinality(Queued({v})')
      <4>1. depth[v] = Cardinality(Queued({v}))
        BY <3>4 DEF Depths
      <4>2. {v} \in SUBSET Labels
        BY DEF Labels
      <4>3. PICK n, o : n = Cardinality(Queued({v})) /\ o = Cardinality(Queued({v})') /\ n \in Nat
        BY <3>1, <4>2
      <4>4. o = n + (IF m = v THEN 1 ELSE 0)
        BY <3>1, <4>2, <4>3
      <4>5. depth'[v] = n + (IF m = v THEN 1 ELSE 0)
        BY <2>3, <4>1, <4>3 DEF FrontEndTypeOK
      <4> QED BY <4>3, <4>4, <4>5
    <3> QED BY <2>1, <3>3, <3>4 DEF Depths
  \* It is taken off a queue, and the gauge of m lowered: m is the version that is
  \* active now, which is the one of the queue if the registry has not changed.
  <2>4. ASSUME NEW m \in Labels, depth' = [depth EXCEPT ![m] = @ - 1],
               kind[c] = "infer", stage[c] = "waiting", stage'[c] = "ended",
               queuedFor'[c] = queuedFor[c], queuedFor[c] \in Releases,
               c \notin unstable => queuedFor[c] = m
        PROVE  Depths'
    <3>0. PICK q \in Releases : q = queuedFor[c]
      BY <2>4
    <3>1. ASSUME NEW V \in SUBSET Labels
          PROVE  /\ Cardinality(Queued(V)) \in Nat
                 /\ Cardinality(Queued(V)') = Cardinality(Queued(V)) - (IF q \in V THEN 1 ELSE 0)
      <4>1. c \notin Queued(V)' /\ (c \in Queued(V) <=> q \in V)
        BY <2>1, <2>4, <3>0 DEF Queued
      <4>2. CASE q \in V
        BY <2>1, <4>1, <4>2, QueuedMoves
      <4>3. CASE q \notin V
        <5>1. Queued(V)' = Queued(V) /\ Cardinality(Queued(V)) \in Nat
          BY <2>1, <4>1, <4>3, QueuedMoves
        <5> QED BY <4>3, <5>1
      <4> QED BY <4>2, <4>3
    <3>2. Total(depth)' = Total(depth) - 1
      <4>1. [depth EXCEPT ![m] = @ - 1] = [depth EXCEPT ![m] = @ + (-1)]
        BY DEF FrontEndTypeOK
      <4>2. PICK n \in Int : n = -1
        OBVIOUS
      <4>3. depth' = [depth EXCEPT ![m] = @ + n]
        BY <2>4, <4>1, <4>2
      <4>4. Total(depth)' = Total(depth) + n /\ Total(depth) \in Int
        BY <4>3, DepthMoves
      <4> QED BY <4>2, <4>4
    <3>3. Total(depth)' = Cardinality(Queued(Labels)')
      BY <3>1, <3>2 DEF Depths, Labels
    <3>4. ASSUME {d \in Calls : kind[d] = "infer"} \cap unstable = {}, NEW v \in Releases
          PROVE  depth'[v] = Cardinality(Queued({v})')
      <4>1. depth[v] = Cardinality(Queued({v}))
        BY <3>4 DEF Depths
      <4>2. {v} \in SUBSET Labels
        BY DEF Labels
      <4>3. PICK n, o : n = Cardinality(Queued({v})) /\ o = Cardinality(Queued({v})') /\ n \in Nat
        BY <3>1, <4>2
      <4>4. o = n - (IF q = v THEN 1 ELSE 0)
        BY <3>1, <4>2, <4>3
      <4>5. c \notin unstable /\ q = m
        BY <2>4, <3>0, <3>4
      <4>6. depth'[v] = n - (IF q = v THEN 1 ELSE 0)
        BY <2>4, <4>1, <4>3, <4>5 DEF FrontEndTypeOK
      <4> QED BY <4>3, <4>4, <4>6
    <3> QED BY <2>1, <3>3, <3>4 DEF Depths
  <2>5. stage[c] = "new" => \A V \in SUBSET Labels : c \notin Queued(V)
    BY DEF Placed, Queued
  <2>6. kind[c] = "infer" /\ stage[c] # "waiting" => \A V \in SUBSET Labels : c \notin Queued(V)
    BY DEF Queued
  <2>7. CASE BeginInfer(c)
    <3>1. depth' = depth /\ kind[c] = "infer" /\ stage[c] = "new" /\ stage'[c] \in {"begun", "ended"}
      BY <2>7 DEF BeginInfer, RequestEnds, FrontEndTypeOK
    <3> QED BY <2>1, <2>2, <2>5, <3>1 DEF Queued
  <2>8. CASE SubmitInfer(c)
    <3>1. kind[c] = "infer" /\ stage[c] = "begun"
      BY <2>8 DEF SubmitInfer, Placed
    <3>2. CASE /\ IsReady(Meant(c)) /\ depth' = [depth EXCEPT ![Meant(c)] = @ + 1]
               /\ queuedFor' = [queuedFor EXCEPT ![c] = Meant(c)]
               /\ stage' = [stage EXCEPT ![c] = "waiting"]
      <4>1. PICK m : m = Meant(c)
        OBVIOUS
      <4>2. m \in Releases /\ queuedFor'[c] = m /\ stage'[c] = "waiting"
        BY <3>2, <4>1, MeantTyped DEF FrontEndTypeOK
      <4> QED BY <2>3, <2>6, <3>1, <3>2, <4>1, <4>2
    <3>3. CASE depth' = depth /\ stage'[c] = "ended"
      BY <2>1, <2>2, <2>6, <3>1, <3>3 DEF Queued
    <3> QED BY <2>8, <3>2, <3>3 DEF SubmitInfer, RequestEnds, FrontEndTypeOK
  <2>9. CASE EndInfer(c)
    <3>1. PICK m : m = Meant(c)
      OBVIOUS
    <3>2. m \in Labels
      BY <3>1, MeantTyped
    <3>3. /\ kind[c] = "infer" /\ stage[c] = "waiting" /\ stage'[c] = "ended"
          /\ queuedFor'[c] = queuedFor[c] /\ depth' = [depth EXCEPT ![m] = @ - 1]
      BY <2>9, <3>1 DEF EndInfer, RequestEnds, FrontEndTypeOK
    <3>4. queuedFor[c] \in Releases
      BY <3>3 DEF Placed
    <3>5. c \notin unstable => queuedFor[c] = m
      BY <3>1, <3>3 DEF Steady
    <3> QED BY <2>4, <3>2, <3>3, <3>4, <3>5
  <2>10. CASE Predict(c)
    <3>1. /\ kind[c] = "predict" /\ stage[c] = "new" /\ stage'[c] = "ended"
      BY <2>10 DEF Predict, FrontEndTypeOK
    <3>2. CASE /\ IsReady(Meant(c)) /\ depth' = [depth EXCEPT ![Meant(c)] = @ + 1]
               /\ queuedFor' = [queuedFor EXCEPT ![c] = Meant(c)]
      <4>1. PICK m : m = Meant(c)
        OBVIOUS
      <4>2. m \in Releases /\ queuedFor'[c] = m
        BY <3>2, <4>1, MeantTyped DEF FrontEndTypeOK
      <4> QED BY <2>3, <2>5, <3>1, <3>2, <4>1, <4>2
    <3>3. CASE UNCHANGED <<depth, queuedFor>>
      <4>1. \A V \in SUBSET Labels : c \notin Queued(V)'
        BY <3>1, <3>3 DEF Placed, Queued
      <4> QED BY <2>2, <2>5, <3>1, <3>3, <4>1
    <3> QED BY <2>10, <3>2, <3>3 DEF Predict
  <2>11. CASE OpenSocket(c) \/ StreamPredict(c) \/ BidirectionalStream(c) \/ StreamChunk(c) \/ CloseStream(c)
    <3>1. depth' = depth /\ queuedFor' = queuedFor
      BY <2>11 DEF OpenSocket, StreamPredict, BidirectionalStream, StreamChunk, CloseStream, callVars
    <3>2. kind[c] # "predict" /\ stage[c] # "waiting"
      BY <2>11 DEF OpenSocket, StreamPredict, BidirectionalStream, StreamChunk, CloseStream, Placed
    <3>3. stage'[c] # "waiting"
      BY <2>11, <3>2 DEF OpenSocket, StreamPredict, BidirectionalStream, StreamChunk, CloseStream, RequestEnds,
              OpenStream, OpeningFails, NotOpened, callVars, FrontEndTypeOK
    <3> QED BY <2>1, <2>2, <3>1, <3>2, <3>3 DEF Queued
  <2> QED BY <1>3, <2>7, <2>8, <2>9, <2>10, <2>11
<1> QED BY <1>1, <1>2, <1>3, FrontEndCases DEF frontEndVars, callVars, gaugeVars

LEMMA FrontEndInvariant == FrontEndSpec => []FrontEndInv
<1>1. FrontEndInv /\ [FrontEndNext]_frontEndVars => FrontEndInv'
  BY FrontEndTypeStep, AliveStep, PlacedStep, SteadyStep, DepthsStep DEF FrontEndInv
<1> QED BY <1>1, FrontEndStarts, PTL DEF FrontEndSpec

\* Every reachable state of the gauges and of the cache of hooks is type-correct.
THEOREM FrontEndTypeCorrect == FrontEndSpec => []FrontEndTypeOK
<1>1. FrontEndInv => FrontEndTypeOK
  BY DEF FrontEndInv
<1> QED BY <1>1, FrontEndInvariant, PTL

\* For any calls, versions, loads and unloads: start times are kept of calls in
\* progress only, the depths of all versions together are the requests that wait, each
\* depth is right unless the registry has changed during a request, the gauge of streams
\* is the open ones less those that could not be opened, and a request during which the
\* registry has not changed is passed to hooks of one load (record_*, get_litapi_hooks).
THEOREM GaugesAreRight == FrontEndSpec => []GaugesBalance
<1>1. FrontEndInv => GaugesBalance
  BY DEF FrontEndInv, Alive, Steady, Depths, GaugesBalance
<1> QED BY <1>1, FrontEndInvariant, PTL

-----------------------------------------------------------------------------
(* Logging: of a process, records are in order in its buffer and in the    *)
(* pipe, behind those that a reader holds and those written, as long as    *)
(* only the consumer reads; and a record is in one place.  Without the     *)
(* latter two it could be written twice, or before an older one.           *)

\* x was logged before y, if by the same process.
Before(x, y) == x.from = y.from => x.nr < y.nr

\* The records of every process are in order in q; a torn one does not count.
InOrder(q) ==
    \A i, j \in DOMAIN q : i < j /\ q[i] # Torn /\ q[j] # Torn => Before(q[i], q[j])

\* Records that have been logged, that wait in a process, are in the pipe or in
\* the hands of one of the two readers, or have been written.
Logged == {r \in Records : r \in Range(logged[r.from])}
Waiting == {r \in Records : r \in Range(buffered[r.from])}
Piped == Range(pipe) \ {Torn}
Got == IF consumer = "emit" THEN {got} ELSE {}
Drained == IF closer = "emit" THEN {taken} ELSE {}
InFiles == {r \in Records : \E h \in Outputs : r \in Range(written[h])}

\* Every record is in one place, in the order of logging, which the main thread
\* disturbs only when it reads too.
InOnePlace(w, p, g, d, o) ==
    /\ w \cap p = {} /\ w \cap g = {} /\ w \cap d = {} /\ w \cap o = {}
    /\ p \cap g = {} /\ p \cap d = {} /\ p \cap o = {}
    /\ g \cap d = {} /\ g \cap o = {} /\ d \cap o = {}
    /\ \A x \in p, y \in w : Before(x, y)

InSequence(w, p, g, o) ==
    /\ \A x \in o, y \in g \cup p \cup w : Before(x, y)
    /\ \A x \in g, y \in p \cup w : Before(x, y)

Control ==
    /\ pipe \in Seq(Records \cup {Torn})
    /\ stopped => closer \in {"join", "flush", "done"}
    /\ consumer = "closed" => stopped
    /\ consumer \notin {"build", "dead"} => built = Outputs
    /\ \A p \in writer \cap living : buffered[p] # <<>>

InQueues ==
    /\ \A r \in Logged : r.nr <= Len(logged[r.from])
    /\ \A p \in Processes : \A r \in Range(logged[p]) \cup Range(buffered[p]) : r.from = p
    /\ \A p \in Processes : InOrder(buffered[p])
    /\ InOrder(pipe)

Emitted ==
    /\ \A h \in Outputs :
          /\ Distinct(written[h])
          /\ \A r \in Range(written[h]) : Admits(h, r)
          /\ closer = "serve" => InOrder(written[h])
    /\ \A r \in Logged \ lost :
          \/ r \in Waiting \cup Piped \cup Got \cup Drained
          \/ \A h \in Outputs : Admits(h, r) => r \in Range(written[h])

InPlace ==
    /\ Waiting \cup Piped \cup Got \cup Drained \cup InFiles \subseteq Logged
    /\ InOnePlace(Waiting, Piped, Got, Drained, InFiles)
    /\ closer = "serve" => InSequence(Waiting, Piped, Got, InFiles)

LoggingInv == LoggingTypeOK /\ Control /\ InQueues /\ Emitted /\ InPlace

LEMMA RangeTail ==
    ASSUME NEW S, NEW q \in Seq(S), q # <<>>
    PROVE  /\ Range(q) = {Head(q)} \cup Range(Tail(q)) /\ Head(q) \in S
           /\ Tail(q) \in Seq(S) /\ Len(Tail(q)) = Len(q) - 1 /\ Len(q) \in Nat
<1>1. \A s : Range(s) = ToSet(s)
  BY DEF Range, ToSet
<1> QED BY <1>1, TailSet

LEMMA RangeAppend ==
    ASSUME NEW S, NEW q \in Seq(S), NEW e \in S
    PROVE  /\ Range(Append(q, e)) = Range(q) \cup {e}
           /\ Append(q, e) \in Seq(S) /\ Len(Append(q, e)) = Len(q) + 1 /\ Len(q) \in Nat
           /\ Append(q, e) # <<>>
           /\ Distinct(q) /\ e \notin Range(q) => Distinct(Append(q, e))
<1>1. \A s : Range(s) = ToSet(s)
  BY DEF Range, ToSet
<1> QED BY <1>1, AppendSet

LEMMA RangeTyped == ASSUME NEW S, NEW q \in Seq(S) PROVE Range(q) \subseteq S
BY LenProperties DEF Range

LEMMA InOrderTail ==
    ASSUME NEW S, NEW q \in Seq(S), q # <<>>, InOrder(q)
    PROVE  /\ InOrder(Tail(q))
           /\ Head(q) # Torn => \A y \in Range(Tail(q)) \ {Torn} : Before(Head(q), y)
<1>1. PICK p : p = Tail(q)
  OBVIOUS
<1>2. /\ Head(q) = q[1] /\ 1 \in DOMAIN q
      /\ \A i \in DOMAIN p : p[i] = q[i + 1] /\ i + 1 \in DOMAIN q /\ i + 1 # 1 /\ i \in Nat
  BY <1>1, TailOf
<1>3. \A i \in DOMAIN p : 1 < i + 1
  <2>1. DOMAIN q = 1 .. Len(q) /\ Len(q) \in Nat
    BY LenProperties
  <2> QED BY <1>2, <2>1
<1>4. \A i, j \in DOMAIN p : i < j => i + 1 < j + 1
  BY <1>2
<1>5. InOrder(p)
  BY <1>2, <1>4 DEF InOrder
<1>6. ASSUME q[1] # Torn, NEW y \in Range(p) \ {Torn} PROVE Before(q[1], y)
  <2>1. PICK i \in DOMAIN p : y = p[i]
    BY DEF Range
  <2> QED BY <1>2, <1>3, <1>6, <2>1 DEF InOrder
<1> QED BY <1>1, <1>2, <1>5, <1>6

LEMMA InOrderAppend ==
    ASSUME NEW S, NEW q \in Seq(S), InOrder(q), NEW e \in S,
           e # Torn => \A y \in Range(q) \ {Torn} : Before(y, e)
    PROVE  InOrder(Append(q, e))
<1>1. PICK p, n : p = Append(q, e) /\ n = Len(q)
  OBVIOUS
<1>2. /\ n \in Nat /\ DOMAIN q = 1 .. n
  BY <1>1, LenProperties
<1>3. /\ DOMAIN p = DOMAIN q \cup {n + 1} /\ p[n + 1] = e
      /\ \A i \in DOMAIN q : p[i] = q[i]
  BY <1>1, AppendOf
<1>4. InOrder(p)
  <2> SUFFICES ASSUME NEW i \in DOMAIN p, NEW j \in DOMAIN p, i < j, p[i] # Torn, p[j] # Torn
               PROVE  Before(p[i], p[j])
    BY DEF InOrder
  <2>1. i \in DOMAIN q
    BY <1>2, <1>3
  <2>2. CASE j \in DOMAIN q
    BY <1>3, <2>1, <2>2 DEF InOrder
  <2>3. CASE j = n + 1
    <3>1. p[i] \in Range(q) \ {Torn}
      BY <1>3, <2>1 DEF Range
    <3> QED BY <1>3, <2>3, <3>1
  <2> QED BY <1>3, <2>2, <2>3
<1> QED BY <1>1, <1>4

LEMMA InOrderEmpty == InOrder(<<>>) /\ Range(<<>>) = {} /\ Distinct(<<>>)
<1>1. DOMAIN <<>> = {} /\ Len(<<>>) = 0
  OBVIOUS
<1> QED BY <1>1 DEF InOrder, Range, Distinct

\* NoRecord and Torn are no records.
LEMMA NotRecords == NoRecord \notin Records /\ Torn \notin Records
BY DEF NoRecord, Torn, Records

LEMMA BeforeItself == ASSUME NEW x \in Records PROVE ~Before(x, x)
<1>1. x.nr \in Nat
  BY DEF Records
<1> QED BY <1>1 DEF Before

-----------------------------------------------------------------------------
\* A record is logged.
LEMMA PlacedLogged ==
    ASSUME NEW w, NEW p, NEW g, NEW d, NEW o, InOnePlace(w, p, g, d, o),
           NEW x, x \notin w \cup p \cup g \cup d \cup o,
           \A y \in p \cup g \cup o : Before(y, x)
    PROVE  /\ InOnePlace(w \cup {x}, p, g, d, o)
           /\ InSequence(w, p, g, o) => InSequence(w \cup {x}, p, g, o)
<1>1. InOnePlace(w \cup {x}, p, g, d, o)
  BY DEF InOnePlace
<1>2. InSequence(w, p, g, o) => InSequence(w \cup {x}, p, g, o)
  BY DEF InSequence
<1> QED BY <1>1, <1>2

\* The feeder of its process writes it into the pipe; others may be lost.
LEMMA PlacedFed ==
    ASSUME NEW w, NEW p, NEW g, NEW d, NEW o, InOnePlace(w, p, g, d, o),
           NEW x \in w, NEW v \in SUBSET (w \ {x}), \A y \in v : Before(x, y)
    PROVE  /\ InOnePlace(v, p \cup {x}, g, d, o)
           /\ InSequence(w, p, g, o) => InSequence(v, p \cup {x}, g, o)
<1>1. InOnePlace(v, p \cup {x}, g, d, o)
  BY DEF InOnePlace
<1>2. InSequence(w, p, g, o) => InSequence(v, p \cup {x}, g, o)
  BY DEF InSequence
<1> QED BY <1>1, <1>2

\* Records are lost, or there are no more of them in one place.
LEMMA PlacedLost ==
    ASSUME NEW w, NEW p, NEW g, NEW d, NEW o, InOnePlace(w, p, g, d, o),
           NEW v \in SUBSET w, NEW h \in SUBSET g, NEW e \in SUBSET d
    PROVE  /\ InOnePlace(v, p, h, e, o)
           /\ InSequence(w, p, g, o) => InSequence(v, p, h, o)
<1>1. InOnePlace(v, p, h, e, o)
  BY DEF InOnePlace
<1>2. InSequence(w, p, g, o) => InSequence(v, p, h, o)
  BY DEF InSequence
<1> QED BY <1>1, <1>2

\* One of the readers takes it,
LEMMA PlacedGot ==
    ASSUME NEW w, NEW p, NEW d, NEW o, NEW x \in p,
           InOnePlace(w, p, {}, d, o), \A y \in p \ {x} : Before(x, y)
    PROVE  /\ InOnePlace(w, p \ {x}, {x}, d, o)
           /\ InSequence(w, p, {}, o) => InSequence(w, p \ {x}, {x}, o)
<1>1. InOnePlace(w, p \ {x}, {x}, d, o)
  BY DEF InOnePlace
<1>2. InSequence(w, p, {}, o) => InSequence(w, p \ {x}, {x}, o)
  BY DEF InSequence, InOnePlace
<1> QED BY <1>1, <1>2

LEMMA PlacedDrained ==
    ASSUME NEW w, NEW p, NEW g, NEW o, NEW x \in p, InOnePlace(w, p, g, {}, o)
    PROVE  InOnePlace(w, p \ {x}, g, {x}, o)
BY DEF InOnePlace

\* and emits it.
LEMMA PlacedEmitted ==
    ASSUME NEW w, NEW p, NEW d, NEW o, NEW x, InOnePlace(w, p, {x}, d, o),
           NEW n \in SUBSET (o \cup {x})
    PROVE  /\ InOnePlace(w, p, {}, d, n)
           /\ InSequence(w, p, {x}, o) => InSequence(w, p, {}, n)
<1>1. InOnePlace(w, p, {}, d, n)
  BY DEF InOnePlace
<1>2. InSequence(w, p, {x}, o) => InSequence(w, p, {}, n)
  BY DEF InSequence
<1> QED BY <1>1, <1>2

LEMMA PlacedPutOut ==
    ASSUME NEW w, NEW p, NEW g, NEW o, NEW x, InOnePlace(w, p, g, {x}, o),
           NEW n \in SUBSET (o \cup {x})
    PROVE  InOnePlace(w, p, g, {}, n)
BY DEF InOnePlace

LEMMA LoggingInitially == LoggingInit => LoggingInv
<1> SUFFICES ASSUME LoggingInit PROVE LoggingInv
  OBVIOUS
<1>1. /\ logged = [p \in Processes |-> <<>>] /\ buffered = [p \in Processes |-> <<>>]
      /\ writer = {} /\ pipe = <<>> /\ living = Processes
      /\ consumer = "build" /\ got = NoRecord /\ built = {}
      /\ closer = "serve" /\ taken = NoRecord /\ stopped = FALSE
      /\ written = [h \in Outputs |-> <<>>] /\ lost = {}
  BY DEF LoggingInit
<1>2. LoggingTypeOK
  <2>1. Len(pipe) = 0 /\ Range(pipe) = {} /\ PipeSize \in Nat
    BY <1>1, InOrderEmpty, LoggingAssumption
  <2>2. Len(pipe) <= PipeSize
    BY <2>1
  <2>3. /\ logged \in [Processes -> Seq(Records)] /\ buffered \in [Processes -> Seq(Records)]
        /\ written \in [Outputs -> Seq(Records)]
    BY <1>1
  <2>4. got \in Taken /\ taken \in Taken
    BY <1>1 DEF Taken
  <2> QED BY <1>1, <2>1, <2>2, <2>3, <2>4 DEF LoggingTypeOK
<1>3. \A r \in Records : r.from \in Processes
  BY DEF Records
<1>4. /\ Logged = {} /\ Waiting = {} /\ Piped = {} /\ Got = {} /\ Drained = {} /\ InFiles = {}
  BY <1>1, <1>3, InOrderEmpty DEF Logged, Waiting, Piped, Got, Drained, InFiles
<1>5. Control
  BY <1>1 DEF Control
<1>6. InQueues
  BY <1>1, <1>4, InOrderEmpty DEF InQueues
<1>7. Emitted
  BY <1>1, <1>4, InOrderEmpty DEF Emitted
<1>8. InPlace
  BY <1>4 DEF InPlace, InOnePlace, InSequence
<1> QED BY <1>2, <1>5, <1>6, <1>7, <1>8 DEF LoggingInv

\* Steps that move no record.
LEMMA LoggingQuiet ==
    ASSUME LoggingInv, LoggingTypeOK', Control', Got' = Got, Drained' = Drained,
           UNCHANGED <<logged, buffered, pipe, written, lost>>,
           closer' = "serve" => closer = "serve"
    PROVE  LoggingInv'
<1>1. Logged' = Logged /\ Waiting' = Waiting /\ Piped' = Piped /\ InFiles' = InFiles
  BY DEF Logged, Waiting, Piped, InFiles
<1>2. InQueues'
  BY <1>1 DEF LoggingInv, InQueues
<1>3. Emitted'
  BY <1>1 DEF LoggingInv, Emitted
<1>4. InPlace'
  <2>1. PICK w, p, g, d, o : w = Waiting /\ p = Piped /\ g = Got /\ d = Drained /\ o = InFiles
    OBVIOUS
  <2>2. /\ Waiting' = w /\ Piped' = p /\ Got' = g /\ Drained' = d /\ InFiles' = o
    BY <1>1, <2>1
  <2> QED BY <1>1, <2>1, <2>2 DEF LoggingInv, InPlace
<1> QED BY <1>2, <1>3, <1>4 DEF LoggingInv

\* The buffer of process p becomes q.
LEMMA WaitingIs ==
    ASSUME LoggingTypeOK, NEW p \in Processes, NEW q, buffered' = [buffered EXCEPT ![p] = q],
           \A r \in Range(q) : r \in Records /\ r.from = p
    PROVE  Waiting' = {r \in Waiting : r.from # p} \cup Range(q)
<1>1. buffered'[p] = q /\ \A u \in Processes : u # p => buffered'[u] = buffered[u]
  BY DEF LoggingTypeOK
<1>2. \A r \in Records : r.from \in Processes
  BY DEF Records
<1> QED BY <1>1, <1>2 DEF Waiting

LEMMA LoggingLog ==
    ASSUME LoggingInv, NEW p \in Processes, Log(p)
    PROVE  LoggingInv'
<1>1. PICK severe \in BOOLEAN :
          LET r == [from |-> p, nr |-> Len(logged[p]) + 1, severe |-> severe] IN
          /\ logged' = [logged EXCEPT ![p] = Append(@, r)]
          /\ buffered' = [buffered EXCEPT ![p] = Append(@, r)]
  BY DEF Log
<1>2. PICK r : r = [from |-> p, nr |-> Len(logged[p]) + 1, severe |-> severe]
  OBVIOUS
<1>3. /\ logged' = [logged EXCEPT ![p] = Append(logged[p], r)]
      /\ buffered' = [buffered EXCEPT ![p] = Append(buffered[p], r)]
      /\ UNCHANGED <<writer, pipe, living, consumer, got, built, closer, taken, stopped, written, lost>>
  BY <1>1, <1>2 DEF Log, threadVars, closerVars
<1>4. PICK n : n = Len(logged[p])
  OBVIOUS
<1>5. logged[p] \in Seq(Records) /\ buffered[p] \in Seq(Records) /\ n \in Nat
  BY <1>4, LenProperties DEF LoggingInv, LoggingTypeOK
<1>6. r \in Records /\ r.from = p /\ r.nr = n + 1
  BY <1>2, <1>4, <1>5 DEF Records
<1>7. /\ Range(Append(logged[p], r)) = Range(logged[p]) \cup {r}
      /\ Append(logged[p], r) \in Seq(Records) /\ Len(Append(logged[p], r)) = n + 1
      /\ Range(Append(buffered[p], r)) = Range(buffered[p]) \cup {r}
      /\ Append(buffered[p], r) \in Seq(Records) /\ Append(buffered[p], r) # <<>>
  BY <1>4, <1>5, <1>6, RangeAppend
<1>8. LoggingTypeOK'
  <2>1. logged' \in [Processes -> Seq(Records)] /\ buffered' \in [Processes -> Seq(Records)]
    BY <1>3, <1>7 DEF LoggingInv, LoggingTypeOK
  <2> QED BY <1>3, <2>1 DEF LoggingInv, LoggingTypeOK
<1>9. /\ logged'[p] = Append(logged[p], r) /\ buffered'[p] = Append(buffered[p], r)
      /\ \A u \in Processes : u # p => logged'[u] = logged[u] /\ buffered'[u] = buffered[u]
  BY <1>3 DEF LoggingInv, LoggingTypeOK
<1>10. \A x \in Records : x.from \in Processes
  BY DEF Records
<1>11. Logged' = Logged \cup {r} /\ Waiting' = Waiting \cup {r}
  BY <1>6, <1>7, <1>9, <1>10 DEF Logged, Waiting
<1>12. Piped' = Piped /\ Got' = Got /\ Drained' = Drained /\ InFiles' = InFiles
  BY <1>3 DEF Piped, Got, Drained, InFiles
<1>13. ASSUME NEW x \in Logged PROVE Before(x, r) /\ x # r
  <2>1. x.from = p => x.nr <= n
    BY <1>4 DEF LoggingInv, InQueues
  <2>2. x.nr \in Nat
    BY DEF Logged, Records
  <2> QED BY <1>5, <1>6, <2>1, <2>2 DEF Before
<1>14. Control'
  BY <1>3, <1>7, <1>9 DEF LoggingInv, Control, LoggingTypeOK
<1>15. InQueues'
  <2>1. ASSUME NEW x \in Logged' PROVE x.nr <= Len(logged'[x.from])
    <3>1. CASE x = r
      BY <1>5, <1>6, <1>7, <1>9, <3>1
    <3>2. CASE x \in Logged /\ x.from = p
      <4>1. x.nr \in Nat /\ x.nr <= n
        BY <1>4, <3>2 DEF LoggingInv, InQueues, Logged, Records
      <4> QED BY <1>5, <1>7, <1>9, <3>2, <4>1
    <3>3. CASE x \in Logged /\ x.from # p
      BY <1>9, <1>10, <3>3 DEF LoggingInv, InQueues, Logged
    <3> QED BY <1>11, <3>1, <3>2, <3>3
  <2>2. ASSUME NEW u \in Processes
        PROVE  \A x \in Range(logged'[u]) \cup Range(buffered'[u]) : x.from = u
    <3>1. \A x \in Range(logged[u]) \cup Range(buffered[u]) : x.from = u
      BY DEF LoggingInv, InQueues
    <3>2. CASE u = p
      <4>1. Range(logged'[u]) = Range(logged[u]) \cup {r} /\ Range(buffered'[u]) = Range(buffered[u]) \cup {r}
        BY <1>7, <1>9, <3>2
      <4> QED BY <1>6, <3>1, <3>2, <4>1
    <3>3. CASE u # p
      BY <1>9, <3>1, <3>3
    <3> QED BY <3>2, <3>3
  <2>3. InOrder(buffered'[p])
    <3>1. ASSUME NEW y \in Range(buffered[p]) PROVE Before(y, r)
      <4>1. y \in Records /\ y.from = p
        BY <1>5, RangeTyped DEF LoggingInv, InQueues
      <4>2. y \in Logged
        BY <4>1 DEF Waiting, LoggingInv, InPlace
      <4> QED BY <1>13, <4>2
    <3> QED BY <1>5, <1>6, <1>9, <3>1, InOrderAppend DEF LoggingInv, InQueues
  <2>4. \A u \in Processes : InOrder(buffered'[u])
    BY <1>9, <2>3 DEF LoggingInv, InQueues
  <2> QED BY <1>3, <2>1, <2>2, <2>4 DEF LoggingInv, InQueues
<1>16. Emitted'
  BY <1>3, <1>11, <1>12 DEF LoggingInv, Emitted
<1>17. InPlace'
  <2>1. PICK w, q, g, d, o : w = Waiting /\ q = Piped /\ g = Got /\ d = Drained /\ o = InFiles
    OBVIOUS
  <2>2. /\ Waiting' = w \cup {r} /\ Piped' = q /\ Got' = g /\ Drained' = d /\ InFiles' = o
    BY <1>11, <1>12, <2>1
  <2>3. /\ w \cup q \cup g \cup d \cup o \subseteq Logged /\ InOnePlace(w, q, g, d, o)
        /\ closer = "serve" => InSequence(w, q, g, o)
    BY <2>1 DEF LoggingInv, InPlace
  <2>4. r \notin w \cup q \cup g \cup d \cup o /\ \A y \in q \cup g \cup o : Before(y, r)
    BY <1>13, <2>3
  <2>5. /\ InOnePlace(w \cup {r}, q, g, d, o)
        /\ InSequence(w, q, g, o) => InSequence(w \cup {r}, q, g, o)
    BY <2>3, <2>4, PlacedLogged
  <2> QED BY <1>3, <1>11, <2>2, <2>3, <2>5 DEF InPlace
<1> QED BY <1>8, <1>14, <1>15, <1>16, <1>17 DEF LoggingInv

\* The feeder of process p writes its first record; the process goes on, or dies and
\* loses the others.
LEMMA LoggingFed ==
    ASSUME LoggingInv, NEW p \in Processes, buffered[p] # <<>>, Len(pipe) < PipeSize,
           pipe' = Append(pipe, Head(buffered[p])),
           NEW q, buffered' = [buffered EXCEPT ![p] = q],
           \/ q = Tail(buffered[p]) /\ lost' = lost
           \/ q = <<>> /\ lost' = lost \cup Range(Tail(buffered[p])),
           UNCHANGED <<logged, threadVars, closerVars, written>>,
           writer' \cup living' \subseteq Processes,
           \A u \in writer' \cap living' : buffered'[u] # <<>>
    PROVE  LoggingInv'
<1>1. PICK b, x, t, l : /\ b = buffered[p] /\ x = Head(buffered[p]) /\ t = Tail(buffered[p])
                        /\ l = Len(pipe)
  OBVIOUS
<1>2. b \in Seq(Records) /\ b # <<>> /\ InOrder(b) /\ \A y \in Range(b) : y \in Records /\ y.from = p
  <2>1. b \in Seq(Records)
    BY <1>1 DEF LoggingInv, LoggingTypeOK
  <2> QED BY <1>1, <2>1, RangeTyped DEF LoggingInv, InQueues
<1>3. /\ Range(b) = {x} \cup Range(t) /\ x \in Records /\ t \in Seq(Records)
  BY <1>1, <1>2, RangeTail
<1>4. InOrder(t) /\ \A y \in Range(t) : Before(x, y)
  <2>1. \A y \in Range(t) : y # Torn
    BY <1>2, <1>3, NotRecords
  <2>2. x # Torn
    BY <1>3, NotRecords
  <2> QED BY <1>1, <1>2, <2>1, <2>2, InOrderTail
<1>5. x \notin Range(t)
  BY <1>3, <1>4, BeforeItself
<1>6. /\ q \in Seq(Records) /\ InOrder(q)
      /\ (q = t /\ lost' = lost) \/ (q = <<>> /\ lost' = lost \cup Range(t))
  <2>1. (q = t /\ lost' = lost) \/ (q = <<>> /\ lost' = lost \cup Range(t))
    BY <1>1
  <2>2. CASE q = t
    BY <1>3, <1>4, <2>1, <2>2
  <2>3. CASE q = <<>>
    <3>1. q \in Seq(Records)
      BY <2>3
    <3>2. InOrder(q)
      BY <2>3, InOrderEmpty
    <3> QED BY <2>1, <3>1, <3>2
  <2> QED BY <2>1, <2>2, <2>3
<1>7. Range(q) \subseteq Range(t)
  BY <1>6, InOrderEmpty
<1>8. UNCHANGED <<logged, consumer, got, built, closer, taken, stopped, written>>
  BY DEF threadVars, closerVars
<1>9. /\ buffered'[p] = q /\ \A u \in Processes : u # p => buffered'[u] = buffered[u]
      /\ buffered' \in [Processes -> Seq(Records)]
  BY <1>6 DEF LoggingInv, LoggingTypeOK
<1>10. /\ pipe \in Seq(Records \cup {Torn}) /\ x \in Records \cup {Torn} /\ pipe' = Append(pipe, x)
       /\ InOrder(pipe) /\ l \in Nat
  BY <1>1, <1>3, LenProperties DEF LoggingInv, Control, InQueues
<1>11. /\ Range(pipe') = Range(pipe) \cup {x} /\ pipe' \in Seq(Records \cup {Torn})
       /\ Len(pipe') = l + 1
  BY <1>1, <1>10, RangeAppend
<1>12. Waiting' = {r \in Waiting : r.from # p} \cup Range(q)
  <2>1. \A r \in Range(q) : r \in Records /\ r.from = p
    BY <1>2, <1>3, <1>7
  <2> QED BY <2>1, WaitingIs DEF LoggingInv
<1>13. x \in Waiting /\ Waiting' \subseteq Waiting \ {x} /\ \A r \in Waiting : r.from = p => r = x \/ r \in Range(t)
  BY <1>1, <1>2, <1>3, <1>5, <1>7, <1>12 DEF Waiting
<1>14. /\ Logged' = Logged /\ Piped' = Piped \cup {x}
       /\ Got' = Got /\ Drained' = Drained /\ InFiles' = InFiles
  <2>1. x # Torn
    BY <1>3, NotRecords
  <2> QED BY <1>8, <1>11, <2>1 DEF Logged, Piped, Got, Drained, InFiles
<1>15. \A y \in Waiting' : Before(x, y)
  <2>1. \A y \in Waiting' : y.from = p => y \in Range(t)
    BY <1>7, <1>12
  <2>2. x.from = p
    BY <1>2, <1>3
  <2> QED BY <1>4, <2>1, <2>2 DEF Before
<1>16. LoggingTypeOK'
  <2>1. Range(pipe') \subseteq Records \cup {Torn}
    BY <1>11, RangeTyped
  <2>2. Len(pipe') <= PipeSize
    BY <1>1, <1>10, <1>11, LoggingAssumption
  <2>3. lost' \subseteq Records
    BY <1>2, <1>3, <1>6 DEF LoggingInv, LoggingTypeOK
  <2> QED BY <1>8, <1>9, <2>1, <2>2, <2>3 DEF LoggingInv, LoggingTypeOK
<1>17. Control'
  BY <1>8, <1>11 DEF LoggingInv, Control
<1>18. InQueues'
  <2>1. ASSUME NEW u \in Processes
        PROVE  InOrder(buffered'[u]) /\ \A r \in Range(logged'[u]) \cup Range(buffered'[u]) : r.from = u
    BY <1>2, <1>3, <1>6, <1>7, <1>8, <1>9 DEF LoggingInv, InQueues
  <2>2. InOrder(pipe')
    <3>1. \A y \in Range(pipe) \ {Torn} : Before(y, x)
      BY <1>13 DEF LoggingInv, InPlace, InOnePlace, Piped
    <3> QED BY <1>10, <3>1, InOrderAppend
  <2> QED BY <1>8, <1>14, <2>1, <2>2 DEF LoggingInv, InQueues
<1>19. Emitted'
  <2>1. ASSUME NEW r \in Logged' \ lost'
        PROVE  \/ r \in Waiting' \cup Piped' \cup Got' \cup Drained'
               \/ \A h \in Outputs : Admits(h, r) => r \in Range(written'[h])
    <3>1. r \in Logged /\ r \notin lost
      BY <1>6, <1>14
    <3>2. CASE r \in Waiting
      <4>1. CASE r.from # p
        BY <1>12, <3>2, <4>1
      <4>2. CASE r.from = p
        <5>1. r = x \/ r \in Range(t)
          BY <1>13, <3>2, <4>2
        <5>2. r = x \/ r \in Waiting'
          BY <1>6, <1>12, <5>1, <2>1
        <5> QED BY <1>14, <5>2
      <4> QED BY <4>1, <4>2
    <3>3. CASE r \notin Waiting
      BY <1>8, <1>14, <3>1, <3>3 DEF LoggingInv, Emitted
    <3> QED BY <3>2, <3>3
  <2> QED BY <1>8, <2>1 DEF LoggingInv, Emitted
<1>20. InPlace'
  <2>1. PICK w, v, k, g, d, o : /\ w = Waiting /\ v = Waiting' /\ k = Piped /\ g = Got
                                /\ d = Drained /\ o = InFiles
    OBVIOUS
  <2>2. /\ w \cup k \cup g \cup d \cup o \subseteq Logged /\ InOnePlace(w, k, g, d, o)
        /\ closer = "serve" => InSequence(w, k, g, o)
    BY <2>1 DEF LoggingInv, InPlace
  <2>3. x \in w /\ v \in SUBSET (w \ {x}) /\ \A y \in v : Before(x, y)
    BY <1>13, <1>15, <2>1
  <2>4. /\ InOnePlace(v, k \cup {x}, g, d, o)
        /\ InSequence(w, k, g, o) => InSequence(v, k \cup {x}, g, o)
    BY <2>2, <2>3, PlacedFed
  <2>5. Waiting' = v /\ Piped' = k \cup {x} /\ Got' = g /\ Drained' = d /\ InFiles' = o
    BY <1>14, <2>1
  <2> QED BY <1>8, <1>14, <2>2, <2>3, <2>4, <2>5 DEF InPlace
<1> QED BY <1>16, <1>17, <1>18, <1>19, <1>20 DEF LoggingInv

\* Process p dies with all its records, and may leave a part of one in the pipe.
LEMMA LoggingDies ==
    ASSUME LoggingInv, NEW p \in Processes,
           \/ pipe' = pipe
           \/ Len(pipe) < PipeSize /\ pipe' = Append(pipe, Torn),
           buffered' = [buffered EXCEPT ![p] = <<>>],
           lost' = lost \cup Range(buffered[p]),
           UNCHANGED <<logged, threadVars, closerVars, written>>,
           writer' \cup living' \subseteq Processes,
           \A u \in writer' \cap living' : buffered'[u] # <<>>
    PROVE  LoggingInv'
<1>1. UNCHANGED <<logged, consumer, got, built, closer, taken, stopped, written>>
  BY DEF threadVars, closerVars
<1>2. PICK b, l : b = buffered[p] /\ l = Len(pipe)
  OBVIOUS
<1>3. b \in Seq(Records) /\ Range(b) \subseteq Records /\ lost' = lost \cup Range(b)
  <2>1. b \in Seq(Records)
    BY <1>2 DEF LoggingInv, LoggingTypeOK
  <2> QED BY <1>2, <2>1, RangeTyped
<1>4. /\ buffered'[p] = <<>> /\ \A u \in Processes : u # p => buffered'[u] = buffered[u]
      /\ buffered' \in [Processes -> Seq(Records)]
  BY DEF LoggingInv, LoggingTypeOK
<1>5. Waiting' = {r \in Waiting : r.from # p}
  BY InOrderEmpty, WaitingIs DEF LoggingInv
<1>6. /\ pipe \in Seq(Records \cup {Torn}) /\ Torn \in Records \cup {Torn} /\ InOrder(pipe) /\ l \in Nat
  BY <1>2, LenProperties DEF LoggingInv, Control, InQueues
<1>7. /\ Range(pipe') \subseteq Range(pipe) \cup {Torn} /\ Range(pipe) \subseteq Range(pipe')
      /\ pipe' \in Seq(Records \cup {Torn}) /\ InOrder(pipe')
      /\ pipe' = pipe \/ (l < PipeSize /\ Len(pipe') = l + 1)
  <2>1. CASE pipe' = pipe
    BY <1>6, <2>1
  <2>2. CASE Len(pipe) < PipeSize /\ pipe' = Append(pipe, Torn)
    <3>1. /\ Range(pipe') = Range(pipe) \cup {Torn} /\ pipe' \in Seq(Records \cup {Torn})
          /\ Len(pipe') = l + 1
      BY <1>2, <1>6, <2>2, RangeAppend
    <3>2. InOrder(pipe')
      BY <1>6, <2>2, InOrderAppend
    <3> QED BY <1>2, <2>2, <3>1, <3>2
  <2> QED BY <2>1, <2>2
<1>8. /\ Logged' = Logged /\ Piped' = Piped
      /\ Got' = Got /\ Drained' = Drained /\ InFiles' = InFiles
  BY <1>1, <1>7 DEF Logged, Piped, Got, Drained, InFiles
<1>9. LoggingTypeOK'
  <2>1. Range(pipe') \subseteq Records \cup {Torn}
    BY <1>7, RangeTyped
  <2>2. Len(pipe') <= PipeSize
    BY <1>2, <1>6, <1>7, LoggingAssumption DEF LoggingInv, LoggingTypeOK
  <2>3. lost' \subseteq Records
    BY <1>3 DEF LoggingInv, LoggingTypeOK
  <2> QED BY <1>1, <1>4, <2>1, <2>2, <2>3 DEF LoggingInv, LoggingTypeOK
<1>10. Control'
  BY <1>1, <1>7 DEF LoggingInv, Control
<1>11. InQueues'
  <2>1. ASSUME NEW u \in Processes
        PROVE  InOrder(buffered'[u]) /\ \A r \in Range(logged'[u]) \cup Range(buffered'[u]) : r.from = u
    BY <1>1, <1>4, InOrderEmpty DEF LoggingInv, InQueues
  <2> QED BY <1>1, <1>7, <1>8, <2>1 DEF LoggingInv, InQueues
<1>12. Emitted'
  <2>1. ASSUME NEW r \in Logged' \ lost'
        PROVE  \/ r \in Waiting' \cup Piped' \cup Got' \cup Drained'
               \/ \A h \in Outputs : Admits(h, r) => r \in Range(written'[h])
    <3>1. r \in Logged /\ r \notin lost /\ r \notin Range(b)
      BY <1>3, <1>8
    <3>2. r \in Waiting => r \in Waiting'
      BY <1>2, <1>5, <3>1 DEF Waiting
    <3> QED BY <1>1, <1>8, <3>1, <3>2 DEF LoggingInv, Emitted
  <2> QED BY <1>1, <2>1 DEF LoggingInv, Emitted
<1>13. InPlace'
  <2>1. PICK w, v, k, g, d, o : /\ w = Waiting /\ v = Waiting' /\ k = Piped /\ g = Got
                                /\ d = Drained /\ o = InFiles
    OBVIOUS
  <2>2. /\ w \cup k \cup g \cup d \cup o \subseteq Logged /\ InOnePlace(w, k, g, d, o)
        /\ closer = "serve" => InSequence(w, k, g, o)
    BY <2>1 DEF LoggingInv, InPlace
  <2>3. v \in SUBSET w /\ g \in SUBSET g /\ d \in SUBSET d
    BY <1>5, <2>1
  <2>4. /\ InOnePlace(v, k, g, d, o)
        /\ InSequence(w, k, g, o) => InSequence(v, k, g, o)
    BY <2>2, <2>3, PlacedLost
  <2>5. Waiting' = v /\ Piped' = k /\ Got' = g /\ Drained' = d /\ InFiles' = o
    BY <1>8, <2>1
  <2> QED BY <1>1, <1>8, <2>2, <2>3, <2>4, <2>5 DEF InPlace
<1> QED BY <1>9, <1>10, <1>11, <1>12, <1>13 DEF LoggingInv

\* A reader takes the head of the pipe.
LEMMA PipeRead ==
    ASSUME LoggingInv, pipe # <<>>, pipe' = Tail(pipe)
    PROVE  /\ Head(pipe) \in Records \cup {Torn} /\ pipe' \in Seq(Records \cup {Torn})
           /\ InOrder(pipe') /\ Range(pipe') \subseteq Records \cup {Torn} /\ Len(pipe') <= PipeSize
           /\ Head(pipe) = Torn => Piped' = Piped
           /\ Head(pipe) # Torn =>
                 /\ Head(pipe) \in Piped /\ Head(pipe) \in Records /\ Piped' = Piped \ {Head(pipe)}
                 /\ \A y \in Piped \ {Head(pipe)} : Before(Head(pipe), y)
<1>1. PICK q, p, x, l : q = pipe /\ p = pipe' /\ x = Head(pipe) /\ l = Len(pipe)
  OBVIOUS
<1>2. q \in Seq(Records \cup {Torn}) /\ q # <<>> /\ InOrder(q)
  BY <1>1 DEF LoggingInv, Control, InQueues
<1>3. /\ Range(q) = {x} \cup Range(p) /\ x \in Records \cup {Torn}
      /\ p \in Seq(Records \cup {Torn}) /\ Len(p) = l - 1 /\ l \in Nat
  BY <1>1, <1>2, RangeTail
<1>4. InOrder(p) /\ (x # Torn => \A y \in Range(p) \ {Torn} : Before(x, y))
  BY <1>1, <1>2, InOrderTail
<1>5. Range(p) \subseteq Records \cup {Torn}
  BY <1>3, RangeTyped
<1>6. Len(p) <= PipeSize
  BY <1>1, <1>3, LoggingAssumption DEF LoggingInv, LoggingTypeOK
<1>7. Piped = Range(q) \ {Torn} /\ Piped' = Range(p) \ {Torn}
  BY <1>1 DEF Piped
<1>8. x = Torn => Piped' = Piped
  BY <1>3, <1>7
<1>9. ASSUME x # Torn
      PROVE  x \in Piped /\ x \in Records /\ Piped' = Piped \ {x} /\ \A y \in Piped \ {x} : Before(x, y)
  <2>1. x \in Records
    BY <1>3, <1>9
  <2>2. x \notin Range(p)
    BY <1>4, <1>9, <2>1, BeforeItself
  <2> QED BY <1>3, <1>4, <1>7, <1>9, <2>1, <2>2
<1> QED BY <1>1, <1>3, <1>4, <1>5, <1>6, <1>8, <1>9

\* Record x, which has not been written yet, is emitted with the handlers built.
LEMMA EmittedOnce ==
    ASSUME LoggingInv, NEW x \in Records, x \notin InFiles, EmitTo(built, x)
    PROVE  /\ written' \in [Outputs -> Seq(Records)]
           /\ InFiles' \subseteq InFiles \cup {x}
           /\ \A h \in Outputs :
                 /\ Range(written[h]) \subseteq Range(written'[h]) /\ Distinct(written'[h])
                 /\ \A r \in Range(written'[h]) : Admits(h, r)
                 /\ built = Outputs /\ Admits(h, x) => x \in Range(written'[h])
                 /\ (closer = "serve" /\ \A y \in InFiles : Before(y, x)) => InOrder(written'[h])
<1>1. ASSUME NEW h \in Outputs
      PROVE  /\ written'[h] \in Seq(Records)
             /\ Range(written'[h]) \subseteq Range(written[h]) \cup {x}
             /\ Range(written[h]) \subseteq Range(written'[h]) /\ Distinct(written'[h])
             /\ \A r \in Range(written'[h]) : Admits(h, r)
             /\ built = Outputs /\ Admits(h, x) => x \in Range(written'[h])
             /\ (closer = "serve" /\ \A y \in InFiles : Before(y, x)) => InOrder(written'[h])
  <2>1. PICK q, p : q = written[h] /\ p = written'[h]
    OBVIOUS
  <2>2. /\ q \in Seq(Records) /\ Distinct(q) /\ \A r \in Range(q) : Admits(h, r)
        /\ closer = "serve" => InOrder(q)
    BY <2>1 DEF LoggingInv, LoggingTypeOK, Emitted
  <2>3. Range(q) \subseteq InFiles
    BY <2>1, <2>2, RangeTyped DEF InFiles
  <2>4. CASE h \in built /\ Admits(h, x)
    <3>1. p = Append(q, x)
      BY <2>1, <2>4 DEF EmitTo
    <3>2. x \notin Range(q)
      BY <2>3
    <3>3. /\ Range(p) = Range(q) \cup {x} /\ p \in Seq(Records) /\ Distinct(p)
      BY <2>2, <3>1, <3>2, RangeAppend
    <3>4. (closer = "serve" /\ \A y \in InFiles : Before(y, x)) => InOrder(p)
      BY <2>2, <2>3, <3>1, InOrderAppend
    <3> QED BY <2>1, <2>2, <2>4, <3>3, <3>4
  <2>5. CASE ~(h \in built /\ Admits(h, x))
    <3>1. p = q
      BY <2>1, <2>5 DEF EmitTo
    <3> QED BY <2>1, <2>2, <2>5, <3>1
  <2> QED BY <2>4, <2>5
<1>2. written' \in [Outputs -> Seq(Records)]
  <2>1. DOMAIN written' = Outputs /\ written' = [h \in Outputs |-> written'[h]]
    BY DEF EmitTo
  <2> QED BY <1>1, <2>1
<1>3. InFiles' \subseteq InFiles \cup {x}
  BY <1>1 DEF InFiles
<1> QED BY <1>1, <1>2, <1>3

LEMMA LoggingConsumerGets ==
    ASSUME LoggingInv, ConsumerGets, consumer' # "test"
    PROVE  LoggingInv'
<1>1. PICK x : x = Head(pipe)
  OBVIOUS
<1>2. /\ consumer = "get" /\ pipe # <<>> /\ pipe' = Tail(pipe) /\ got' = x
      /\ consumer' = IF x = Torn THEN "stuck" ELSE "emit"
      /\ UNCHANGED <<logged, buffered, writer, living, built, closer, taken, stopped, written, lost>>
  BY <1>1 DEF ConsumerGets, CanGet, closerVars
<1>3. /\ x \in Records \cup {Torn} /\ pipe' \in Seq(Records \cup {Torn})
      /\ InOrder(pipe') /\ Range(pipe') \subseteq Records \cup {Torn} /\ Len(pipe') <= PipeSize
      /\ x = Torn => Piped' = Piped
      /\ x # Torn => /\ x \in Piped /\ x \in Records /\ Piped' = Piped \ {x}
                     /\ \A y \in Piped \ {x} : Before(x, y)
  BY <1>1, <1>2, PipeRead
<1>4. /\ Logged' = Logged /\ Waiting' = Waiting /\ Drained' = Drained /\ InFiles' = InFiles
      /\ Got = {} /\ Got' = IF x = Torn THEN {} ELSE {x}
  BY <1>2 DEF Logged, Waiting, Drained, InFiles, Got
<1>5. LoggingTypeOK'
  <2>1. got' \in Taken /\ consumer' \in {"stuck", "emit"}
    BY <1>2, <1>3 DEF Taken
  <2> QED BY <1>2, <1>3, <2>1 DEF LoggingInv, LoggingTypeOK
<1>6. Control'
  BY <1>2, <1>3 DEF LoggingInv, Control
<1>7. InQueues'
  BY <1>2, <1>3, <1>4 DEF LoggingInv, InQueues
<1>8. Emitted'
  <2>1. Piped \subseteq Piped' \cup Got'
    BY <1>3, <1>4
  <2> QED BY <1>2, <1>4, <2>1 DEF LoggingInv, Emitted
<1>9. InPlace'
  <2>1. PICK w, p, k, d, o : /\ w = Waiting /\ p = Piped /\ k = Piped' /\ d = Drained /\ o = InFiles
    OBVIOUS
  <2>2. /\ w \cup p \cup d \cup o \subseteq Logged /\ InOnePlace(w, p, {}, d, o)
        /\ closer = "serve" => InSequence(w, p, {}, o)
    BY <1>4, <2>1 DEF LoggingInv, InPlace
  <2>3. CASE x = Torn
    BY <1>2, <1>3, <1>4, <2>1, <2>2, <2>3 DEF InPlace
  <2>4. CASE x # Torn
    <3>1. /\ InOnePlace(w, p \ {x}, {x}, d, o)
          /\ InSequence(w, p, {}, o) => InSequence(w, p \ {x}, {x}, o)
      BY <1>3, <2>1, <2>2, <2>4, PlacedGot
    <3>2. k = p \ {x} /\ x \in p
      BY <1>3, <2>1, <2>4
    <3> QED BY <1>2, <1>4, <2>1, <2>2, <2>4, <3>1, <3>2 DEF InPlace
  <2> QED BY <2>3, <2>4
<1> QED BY <1>5, <1>6, <1>7, <1>8, <1>9 DEF LoggingInv

LEMMA LoggingConsumerEmits ==
    ASSUME LoggingInv, ConsumerEmits
    PROVE  LoggingInv'
<1>1. PICK x : x = got
  OBVIOUS
<1>2. /\ consumer = "emit" /\ consumer' = "test" /\ EmitTo(built, x) /\ got' = NoRecord
      /\ UNCHANGED <<logged, buffered, writer, pipe, living, built, closer, taken, stopped, lost>>
  BY <1>1 DEF ConsumerEmits, queueVars, closerVars
<1>3. /\ Logged' = Logged /\ Waiting' = Waiting /\ Drained' = Drained /\ Piped' = Piped
      /\ Got = {x} /\ Got' = {}
  BY <1>1, <1>2 DEF Logged, Waiting, Drained, Piped, Got
<1>4. x \in Logged /\ x \in Records /\ x \notin InFiles
  BY <1>3 DEF LoggingInv, InPlace, InOnePlace, Logged
<1>5. built = Outputs
  BY <1>2 DEF LoggingInv, Control
<1>6. /\ written' \in [Outputs -> Seq(Records)] /\ InFiles' \subseteq InFiles \cup {x}
      /\ \A h \in Outputs :
            /\ Range(written[h]) \subseteq Range(written'[h]) /\ Distinct(written'[h])
            /\ \A r \in Range(written'[h]) : Admits(h, r)
            /\ Admits(h, x) => x \in Range(written'[h])
            /\ (closer = "serve" /\ \A y \in InFiles : Before(y, x)) => InOrder(written'[h])
  BY <1>2, <1>4, <1>5, EmittedOnce
<1>7. LoggingTypeOK'
  <2>1. got' \in Taken
    BY <1>2 DEF Taken
  <2> QED BY <1>2, <1>6, <2>1 DEF LoggingInv, LoggingTypeOK
<1>8. Control'
  BY <1>2 DEF LoggingInv, Control
<1>9. InQueues'
  BY <1>2, <1>3 DEF LoggingInv, InQueues
<1>10. Emitted'
  <2>1. closer' = "serve" => \A y \in InFiles : Before(y, x)
    BY <1>2, <1>3 DEF LoggingInv, InPlace, InSequence
  <2>2. ASSUME NEW r \in Logged' \ lost'
        PROVE  \/ r \in Waiting' \cup Piped' \cup Got' \cup Drained'
               \/ \A h \in Outputs : Admits(h, r) => r \in Range(written'[h])
    <3>1. \/ r \in Waiting \cup Piped \cup {x} \cup Drained
          \/ \A h \in Outputs : Admits(h, r) => r \in Range(written[h])
      BY <1>2, <1>3 DEF LoggingInv, Emitted
    <3> QED BY <1>3, <1>6, <3>1
  <2> QED BY <1>2, <1>6, <2>1, <2>2 DEF Emitted
<1>11. InPlace'
  <2>1. PICK w, p, d, o, n : /\ w = Waiting /\ p = Piped /\ d = Drained /\ o = InFiles /\ n = InFiles'
    OBVIOUS
  <2>2. /\ w \cup p \cup d \cup o \subseteq Logged /\ InOnePlace(w, p, {x}, d, o)
        /\ closer = "serve" => InSequence(w, p, {x}, o)
    BY <1>3, <2>1 DEF LoggingInv, InPlace
  <2>3. n \in SUBSET (o \cup {x})
    BY <1>6, <2>1
  <2>4. /\ InOnePlace(w, p, {}, d, n)
        /\ InSequence(w, p, {x}, o) => InSequence(w, p, {}, n)
    BY <2>2, <2>3, PlacedEmitted
  <2> QED BY <1>2, <1>3, <1>4, <2>1, <2>2, <2>3, <2>4 DEF InPlace
<1> QED BY <1>7, <1>8, <1>9, <1>10, <1>11 DEF LoggingInv

LEMMA LoggingDrainGets ==
    ASSUME LoggingInv, DrainGets, closer' # "join"
    PROVE  LoggingInv'
<1>1. PICK x : x = Head(pipe)
  OBVIOUS
<1>2. /\ closer = "drain" /\ pipe # <<>> /\ pipe' = Tail(pipe) /\ taken' = x
      /\ closer' = IF x = Torn THEN "stuck" ELSE "emit"
      /\ UNCHANGED <<logged, buffered, writer, living, consumer, got, built, stopped, written, lost>>
  BY <1>1 DEF DrainGets, CanGet, threadVars
<1>3. /\ x \in Records \cup {Torn} /\ pipe' \in Seq(Records \cup {Torn})
      /\ InOrder(pipe') /\ Range(pipe') \subseteq Records \cup {Torn} /\ Len(pipe') <= PipeSize
      /\ x = Torn => Piped' = Piped
      /\ x # Torn => /\ x \in Piped /\ x \in Records /\ Piped' = Piped \ {x}
                     /\ \A y \in Piped \ {x} : Before(x, y)
  BY <1>1, <1>2, PipeRead
<1>4. /\ Logged' = Logged /\ Waiting' = Waiting /\ Got' = Got /\ InFiles' = InFiles
      /\ Drained = {} /\ Drained' = IF x = Torn THEN {} ELSE {x}
  BY <1>2 DEF Logged, Waiting, Drained, InFiles, Got
<1>5. LoggingTypeOK'
  <2>1. taken' \in Taken /\ closer' \in {"stuck", "emit"}
    BY <1>2, <1>3 DEF Taken
  <2> QED BY <1>2, <1>3, <2>1 DEF LoggingInv, LoggingTypeOK
<1>6. Control'
  BY <1>2, <1>3 DEF LoggingInv, Control
<1>7. InQueues'
  BY <1>2, <1>3, <1>4 DEF LoggingInv, InQueues
<1>8. Emitted'
  <2>1. Piped \subseteq Piped' \cup Drained'
    BY <1>3, <1>4
  <2> QED BY <1>2, <1>4, <2>1 DEF LoggingInv, Emitted
<1>9. InPlace'
  <2>1. PICK w, p, k, g, o : /\ w = Waiting /\ p = Piped /\ k = Piped' /\ g = Got /\ o = InFiles
    OBVIOUS
  <2>2. w \cup p \cup g \cup o \subseteq Logged /\ InOnePlace(w, p, g, {}, o)
    BY <1>4, <2>1 DEF LoggingInv, InPlace
  <2>3. CASE x = Torn
    BY <1>2, <1>3, <1>4, <2>1, <2>2, <2>3 DEF InPlace
  <2>4. CASE x # Torn
    <3>1. InOnePlace(w, p \ {x}, g, {x}, o)
      BY <1>3, <2>1, <2>2, <2>4, PlacedDrained
    <3>2. k = p \ {x} /\ x \in p
      BY <1>3, <2>1, <2>4
    <3> QED BY <1>2, <1>4, <2>1, <2>2, <2>4, <3>1, <3>2 DEF InPlace
  <2> QED BY <2>3, <2>4
<1> QED BY <1>5, <1>6, <1>7, <1>8, <1>9 DEF LoggingInv

LEMMA LoggingDrainEmits ==
    ASSUME LoggingInv, DrainEmits
    PROVE  LoggingInv'
<1>1. PICK x : x = taken
  OBVIOUS
<1>2. /\ closer = "emit" /\ closer' = "drain" /\ EmitTo(built, x) /\ taken' = NoRecord
      /\ lost' = IF built = Outputs THEN lost ELSE lost \cup {x}
      /\ UNCHANGED <<logged, buffered, writer, pipe, living, built, consumer, got, stopped>>
  BY <1>1 DEF DrainEmits, queueVars, threadVars
<1>3. /\ Logged' = Logged /\ Waiting' = Waiting /\ Got' = Got /\ Piped' = Piped
      /\ Drained = {x} /\ Drained' = {}
  BY <1>1, <1>2 DEF Logged, Waiting, Drained, Piped, Got
<1>4. x \in Logged /\ x \in Records /\ x \notin InFiles
  BY <1>3 DEF LoggingInv, InPlace, InOnePlace, Logged
<1>5. /\ written' \in [Outputs -> Seq(Records)] /\ InFiles' \subseteq InFiles \cup {x}
      /\ \A h \in Outputs :
            /\ Range(written[h]) \subseteq Range(written'[h]) /\ Distinct(written'[h])
            /\ \A r \in Range(written'[h]) : Admits(h, r)
            /\ built = Outputs /\ Admits(h, x) => x \in Range(written'[h])
  BY <1>2, <1>4, EmittedOnce
<1>6. LoggingTypeOK'
  <2>1. taken' \in Taken /\ lost' \subseteq Records
    BY <1>2, <1>4 DEF Taken, LoggingInv, LoggingTypeOK
  <2> QED BY <1>2, <1>5, <2>1 DEF LoggingInv, LoggingTypeOK
<1>7. Control'
  BY <1>2 DEF LoggingInv, Control
<1>8. InQueues'
  BY <1>2, <1>3 DEF LoggingInv, InQueues
<1>9. Emitted'
  <2>1. ASSUME NEW r \in Logged' \ lost'
        PROVE  \/ r \in Waiting' \cup Piped' \cup Got' \cup Drained'
               \/ \A h \in Outputs : Admits(h, r) => r \in Range(written'[h])
    <3>1. r \notin lost /\ (r = x => built = Outputs)
      BY <1>2
    <3>2. \/ r \in Waiting \cup Piped \cup Got \cup {x}
          \/ \A h \in Outputs : Admits(h, r) => r \in Range(written[h])
      BY <1>3, <3>1 DEF LoggingInv, Emitted
    <3> QED BY <1>3, <1>5, <3>1, <3>2
  <2> QED BY <1>2, <1>5, <2>1 DEF Emitted
<1>10. InPlace'
  <2>1. PICK w, p, g, o, n : /\ w = Waiting /\ p = Piped /\ g = Got /\ o = InFiles /\ n = InFiles'
    OBVIOUS
  <2>2. w \cup p \cup g \cup o \subseteq Logged /\ InOnePlace(w, p, g, {x}, o)
    BY <1>3, <2>1 DEF LoggingInv, InPlace
  <2>3. n \in SUBSET (o \cup {x})
    BY <1>5, <2>1
  <2>4. InOnePlace(w, p, g, {}, n)
    BY <2>2, <2>3, PlacedPutOut
  <2> QED BY <1>2, <1>3, <1>4, <2>1, <2>2, <2>3, <2>4 DEF InPlace
<1> QED BY <1>6, <1>7, <1>8, <1>9, <1>10 DEF LoggingInv

LEMMA LoggingStep == LoggingInv /\ [LoggingNext]_loggingVars => LoggingInv'
<1> SUFFICES ASSUME LoggingInv, [LoggingNext]_loggingVars PROVE LoggingInv'
  OBVIOUS
<1>0. LoggingTypeOK /\ Control
  BY DEF LoggingInv
<1>1. CASE HandlersBuilt
  <2>1. Got' = Got /\ Drained' = Drained /\ LoggingTypeOK' /\ Control'
    BY <1>0, <1>1 DEF HandlersBuilt, queueVars, closerVars, Got, Drained, LoggingTypeOK, Control
  <2> QED BY <1>1, <2>1, LoggingQuiet DEF HandlersBuilt, queueVars, closerVars
<1>2. CASE TestStop
  <2>1. Got' = Got /\ Drained' = Drained /\ LoggingTypeOK' /\ Control'
    BY <1>0, <1>2 DEF TestStop, queueVars, closerVars, Got, Drained, LoggingTypeOK, Control
  <2> QED BY <1>2, <2>1, LoggingQuiet DEF TestStop, queueVars, closerVars
<1>3. CASE ConsumerGets
  <2>1. CASE consumer' # "test"
    BY <1>3, <2>1, LoggingConsumerGets
  <2>2. CASE consumer' = "test"
    <3>1. UNCHANGED <<queueVars, got, built, closerVars, written, lost>>
      BY <1>3, <2>2 DEF ConsumerGets, queueVars
    <3>2. Got' = Got /\ Drained' = Drained /\ LoggingTypeOK' /\ Control'
      BY <1>0, <1>3, <2>2, <3>1
         DEF ConsumerGets, queueVars, closerVars, Got, Drained, LoggingTypeOK, Control
    <3> QED BY <3>1, <3>2, LoggingQuiet DEF queueVars, closerVars
  <2> QED BY <2>1, <2>2
<1>4. CASE ConsumerEmits
  BY <1>4, LoggingConsumerEmits
<1>5. CASE StopLogging
  <2>1. Got' = Got /\ Drained' = Drained /\ LoggingTypeOK' /\ Control'
    BY <1>0, <1>5 DEF StopLogging, queueVars, threadVars, Got, Drained, LoggingTypeOK, Control
  <2> QED BY <1>5, <2>1, LoggingQuiet DEF StopLogging, queueVars, threadVars
<1>6. CASE DrainGets
  <2>1. CASE closer' # "join"
    BY <1>6, <2>1, LoggingDrainGets
  <2>2. CASE closer' = "join"
    <3>1. stopped' /\ closer = "drain" /\ UNCHANGED <<queueVars, threadVars, taken, written, lost>>
      BY <1>6, <2>2 DEF DrainGets, queueVars
    <3>2. Got' = Got /\ Drained' = Drained /\ LoggingTypeOK' /\ Control'
      BY <1>0, <1>6, <2>2, <3>1
         DEF DrainGets, queueVars, threadVars, Got, Drained, LoggingTypeOK, Control
    <3> QED BY <2>2, <3>1, <3>2, LoggingQuiet DEF queueVars, threadVars
  <2> QED BY <2>1, <2>2
<1>7. CASE DrainEmits
  BY <1>7, LoggingDrainEmits
<1>8. CASE JoinConsumer
  <2>1. Got' = Got /\ Drained' = Drained /\ LoggingTypeOK' /\ Control'
    BY <1>0, <1>8 DEF JoinConsumer, queueVars, threadVars, Got, Drained, LoggingTypeOK, Control
  <2> QED BY <1>8, <2>1, LoggingQuiet DEF JoinConsumer, queueVars, threadVars
<1>9. CASE FlushQueue
  <2>1. Got' = Got /\ Drained' = Drained /\ LoggingTypeOK' /\ Control'
    BY <1>0, <1>9 DEF FlushQueue, queueVars, threadVars, Got, Drained, LoggingTypeOK, Control
  <2> QED BY <1>9, <2>1, LoggingQuiet DEF FlushQueue, queueVars, threadVars
<1>10. ASSUME NEW p \in Processes, Log(p) PROVE LoggingInv'
  BY <1>10, LoggingLog
<1>11. ASSUME NEW p \in Processes, FeederLocks(p) PROVE LoggingInv'
  <2>1. Got' = Got /\ Drained' = Drained /\ LoggingTypeOK' /\ Control'
    BY <1>0, <1>11 DEF FeederLocks, threadVars, closerVars, Got, Drained, LoggingTypeOK, Control
  <2> QED BY <1>11, <2>1, LoggingQuiet DEF FeederLocks, closerVars
<1>12. ASSUME NEW p \in Processes, FeederWrites(p) PROVE LoggingInv'
  <2>1. buffered[p] # <<>> /\ writer' = {} /\ living' \subseteq Processes
    BY <1>0, <1>12 DEF FeederWrites, Control, LoggingTypeOK
  <2>2. PICK q : q = Tail(buffered[p])
    OBVIOUS
  <2>3. buffered' = [buffered EXCEPT ![p] = q]
    BY <1>12, <2>2 DEF FeederWrites
  <2> QED BY <1>12, <2>1, <2>2, <2>3, LoggingFed DEF FeederWrites
<1>13. ASSUME NEW p \in Processes, Kill(p) PROVE LoggingInv'
  <2>1. /\ p \in living /\ writer' = writer /\ living' = living \ {p}
        /\ buffered' = [buffered EXCEPT ![p] = <<>>]
        /\ UNCHANGED <<logged, threadVars, closerVars, written>>
    BY <1>13 DEF Kill
  <2>2. writer' \cup living' \subseteq Processes /\ \A u \in writer' \cap living' : buffered'[u] # <<>>
    BY <1>0, <2>1 DEF Control, LoggingTypeOK
  <2>3. CASE /\ p \in writer /\ Len(pipe) < PipeSize
             /\ pipe' = Append(pipe, Head(buffered[p]))
             /\ lost' = lost \cup Range(Tail(buffered[p]))
    <3>1. buffered[p] # <<>>
      BY <1>0, <2>1, <2>3 DEF Control
    <3>2. PICK q : q = <<>>
      OBVIOUS
    <3>3. buffered' = [buffered EXCEPT ![p] = q]
      BY <2>1, <3>2
    <3> QED BY <2>1, <2>2, <2>3, <3>1, <3>2, <3>3, LoggingFed
  <2>4. CASE pipe' = pipe /\ lost' = lost \cup Range(buffered[p])
    BY <2>1, <2>2, <2>4, LoggingDies
  <2>5. CASE /\ Len(pipe) < PipeSize /\ pipe' = Append(pipe, Torn)
             /\ lost' = lost \cup Range(buffered[p])
    BY <2>1, <2>2, <2>5, LoggingDies
  <2> QED BY <1>13, <2>3, <2>4, <2>5 DEF Kill
<1>14. ASSUME NEW h \in Outputs, BuildHandler(h) PROVE LoggingInv'
  <2>1. Got' = Got /\ Drained' = Drained /\ LoggingTypeOK' /\ Control'
    BY <1>0, <1>14 DEF BuildHandler, queueVars, closerVars, Got, Drained, LoggingTypeOK, Control
  <2> QED BY <1>14, <2>1, LoggingQuiet DEF BuildHandler, queueVars, closerVars
<1>15. CASE UNCHANGED loggingVars
  <2>1. Got' = Got /\ Drained' = Drained /\ LoggingTypeOK' /\ Control'
    BY <1>0, <1>15
       DEF loggingVars, queueVars, threadVars, closerVars, Got, Drained, LoggingTypeOK, Control
  <2> QED BY <1>15, <2>1, LoggingQuiet DEF loggingVars, queueVars, closerVars
<1> QED BY <1>1, <1>2, <1>3, <1>4, <1>5, <1>6, <1>7, <1>8, <1>9, <1>10, <1>11, <1>12, <1>13,
           <1>14, <1>15 DEF LoggingNext

LEMMA LoggingWritten == LoggingInv => RecordsWritten
<1> SUFFICES ASSUME LoggingInv PROVE RecordsWritten
  OBVIOUS
<1>1. ASSUME NEW p \in Processes, NEW r \in Range(logged[p]) \ lost, NEW h \in Outputs
      PROVE  Cardinality(Positions(written[h], r)) = IF Admits(h, r) /\ ~OnItsWay(r) THEN 1 ELSE 0
  <2>1. r \in Records /\ r.from = p /\ r \in Logged
    <3>1. logged[p] \in Seq(Records)
      BY DEF LoggingInv, LoggingTypeOK
    <3>2. r \in Records /\ r.from = p
      BY <3>1, RangeTyped DEF LoggingInv, InQueues
    <3> QED BY <3>2 DEF Logged
  <2>2. OnItsWay(r) <=> r \in Waiting \cup Piped \cup Got \cup Drained
    BY <2>1, NotRecords DEF OnItsWay, Waiting, Piped, Got, Drained
  <2>3. PICK q : q = written[h]
    OBVIOUS
  <2>4. /\ q \in Seq(Records) /\ Distinct(q) /\ \A x \in Range(q) : Admits(h, x)
    BY <2>3 DEF LoggingInv, LoggingTypeOK, Emitted
  <2>5. r \in Range(q) <=> Admits(h, r) /\ ~OnItsWay(r)
    <3>1. ASSUME r \in Range(q) PROVE Admits(h, r) /\ ~OnItsWay(r)
      <4>1. r \in InFiles
        BY <2>1, <2>3, <3>1 DEF InFiles
      <4>2. r \notin Waiting /\ r \notin Piped /\ r \notin Got /\ r \notin Drained
        BY <4>1 DEF LoggingInv, InPlace, InOnePlace
      <4> QED BY <2>2, <2>4, <3>1, <4>2
    <3>2. ASSUME Admits(h, r), ~OnItsWay(r) PROVE r \in Range(q)
      BY <2>1, <2>2, <2>3, <3>2 DEF LoggingInv, Emitted
    <3> QED BY <3>1, <3>2
  <2>6. CASE r \in Range(q)
    <3>1. PICK i \in DOMAIN q : q[i] = r
      BY <2>6 DEF Range
    <3>2. Positions(q, r) = {i}
      <4>1. DOMAIN q = 1 .. Len(q)
        BY <2>4, LenProperties
      <4> QED BY <2>4, <3>1, <4>1 DEF Positions, Distinct
    <3>3. Cardinality(Positions(q, r)) = 1
      BY <3>2, FS_Singleton
    <3> QED BY <2>3, <2>5, <2>6, <3>3
  <2>7. CASE r \notin Range(q)
    <3>1. Positions(q, r) = {}
      BY <2>7 DEF Positions, Range
    <3>2. Cardinality(Positions(q, r)) = 0
      BY <3>1, FS_EmptySet
    <3> QED BY <2>3, <2>5, <2>7, <3>2
  <2> QED BY <2>6, <2>7
<1>2. ASSUME closer = "serve", NEW h \in Outputs, NEW i \in DOMAIN written[h], NEW j \in DOMAIN written[h],
             i < j, written[h][i].from = written[h][j].from
      PROVE  written[h][i].nr < written[h][j].nr
  <2>1. written[h] \in Seq(Records) /\ InOrder(written[h])
    BY <1>2 DEF LoggingInv, LoggingTypeOK, Emitted
  <2>2. written[h][i] \in Records /\ written[h][j] \in Records
    BY <2>1, LenProperties
  <2>3. Before(written[h][i], written[h][j])
    BY <1>2, <2>1, <2>2, NotRecords DEF InOrder
  <2> QED BY <1>2, <2>3 DEF Before
<1>3. closer \in {"drain", "emit"} => consumer # "closed"
  BY DEF LoggingInv, Control
<1> QED BY <1>1, <1>2, <1>3 DEF RecordsWritten, Positions

\* Every reachable state of logging is type-correct.
THEOREM LoggingTypeCorrect == LoggingSpec => []LoggingTypeOK
<1>1. LoggingInv => LoggingTypeOK
  BY DEF LoggingInv
<1> QED BY <1>1, LoggingInitially, LoggingStep, PTL DEF LoggingSpec

\* For any processes, handlers, bounds and capacity of the pipe: whatever the order in
\* which feeders, consumer and the draining main thread act, and whoever is killed, a
\* handler writes every record that it admits once, unless it is on its way or was lost,
\* until shutdown in the order in which its process logged it, and closed handlers are not
\* those that shutdown still drains into (LogConsumer._run and stop).
THEOREM RecordsAreWritten == LoggingSpec => []RecordsWritten
BY LoggingInitially, LoggingStep, LoggingWritten, PTL DEF LoggingSpec

-----------------------------------------------------------------------------
(* Benchmark: workers that have ever been started are those of the list    *)
(* and those cancelled, which come after it; calls that were begun have    *)
(* been counted, go on or were cancelled.                                  *)

Limit == Larger(plan.concurrency, plan.max)

\* Only a ramp that starts above its maximum cancels, and then keeps its size.
Ramped ==
    /\ size \in Nat /\ size <= Limit
    /\ \A w \in Crowd : worker[w] # "unborn" => w \in 1 .. size \/ w \in doomed
    /\ \A w \in doomed : w \in size + 1 .. Limit
    /\ doomed # {} => plan.mode = "ramp" /\ size = plan.max /\ plan.max < plan.concurrency
    /\ engine = "warmup" => size = 0 /\ doomed = {} /\ clock = 0 /\ step = 0
    /\ engine = "sleep" /\ plan.mode = "ramp" =>
          step \in Nat /\ step < wake /\ size = CurrentConcurrency(step)

InCalls == {w \in Crowd : worker[w] = "call"}

Rising(q) == \A i, j \in DOMAIN q : i <= j => q[i] <= q[j]

Tallied ==
    /\ aborted \subseteq doomed /\ \A w \in aborted : worker[w] = "ended"
    /\ Len(latencies) + failed + Cardinality(InCalls) + Cardinality(aborted) = calls
    /\ engine = "done" => /\ report.total = Len(latencies) + failed
                          /\ \A w \in 1 .. size : worker[w] = "ended"
    /\ Rising(report.quantiles)

BenchmarkInv == BenchmarkTypeOK /\ Ramped /\ Tallied

-----------------------------------------------------------------------------
(* The figures of a result                                                 *)

\* The k-th of the values: the least that k values do not exceed.
LEMMA KthExists ==
    ASSUME NEW s \in Seq(Nat), NEW k \in 1 .. Len(s)
    PROVE  \E x \in Range(s) :
              /\ Cardinality({i \in DOMAIN s : s[i] <= x - 1}) < k
              /\ k <= Cardinality({i \in DOMAIN s : s[i] <= x})
<1> DEFINE UpTo(x) == {i \in DOMAIN s : s[i] <= x}
<1>1. Len(s) \in Nat /\ DOMAIN s = 1 .. Len(s) /\ \A i \in 1 .. Len(s) : s[i] \in Nat
  BY LenProperties
<1>2. IsFiniteSet(1 .. Len(s)) /\ Cardinality(1 .. Len(s)) = Len(s)
  <2>1. 1 \in Int /\ Len(s) \in Int
    BY <1>1
  <2>2. IsFiniteSet(1 .. Len(s)) /\ Cardinality(1 .. Len(s)) = IF 1 > Len(s) THEN 0 ELSE Len(s) - 1 + 1
    BY <2>1, FS_Interval
  <2> QED BY <1>1, <2>2
<1>3. \A x \in Int : Cardinality(UpTo(x)) \in Nat
  BY <1>1, <1>2, FS_Subset, FS_CardinalityType
<1>4. PICK m \in Nat : \A i \in 1 .. Len(s) : s[i] <= m
  <2> DEFINE T == {n \in Nat : n <= Len(s) => \E b \in Nat : \A i \in 1 .. n : s[i] <= b}
  <2>1. 0 \in T
    OBVIOUS
  <2>2. ASSUME NEW n \in Nat, n \in T PROVE n + 1 \in T
    <3> SUFFICES ASSUME n + 1 <= Len(s) PROVE \E b \in Nat : \A i \in 1 .. n + 1 : s[i] <= b
      OBVIOUS
    <3>1. n <= Len(s)
      BY <1>1
    <3>2. PICK b \in Nat : \A i \in 1 .. n : s[i] <= b
      BY <2>2, <3>1
    <3>3. s[n + 1] \in Nat
      BY <1>1
    <3>4. \A i \in 1 .. n + 1 : s[i] <= b + s[n + 1]
      <4> SUFFICES ASSUME NEW i \in 1 .. n + 1 PROVE s[i] <= b + s[n + 1]
        OBVIOUS
      <4>1. s[i] \in Nat
        BY <1>1
      <4>2. i = n + 1 \/ i \in 1 .. n
        OBVIOUS
      <4> QED BY <3>2, <3>3, <4>1, <4>2
    <3>5. b + s[n + 1] \in Nat
      BY <3>3
    <3> QED BY <3>4, <3>5
  <2> HIDE DEF T
  <2>3. Nat \subseteq T
    BY <2>1, <2>2, NatSetInduction
  <2>4. Len(s) \in T
    BY <1>1, <2>3
  <2> QED BY <1>1, <2>4 DEF T
<1>5. PICK x \in Nat : k <= Cardinality(UpTo(x)) /\ \A y \in Nat : k <= Cardinality(UpTo(y)) => x <= y
  <2> DEFINE T == {y \in Nat : k <= Cardinality(UpTo(y))}
  <2>1. UpTo(m) = 1 .. Len(s)
    BY <1>1, <1>4
  <2>2. m \in T
    <3>1. k <= Cardinality(1 .. Len(s))
      BY <1>1, <1>2
    <3> HIDE DEF UpTo
    <3> QED BY <2>1, <3>1
  <2> HIDE DEF UpTo
  <2>3. T \subseteq Nat /\ T # {}
    BY <2>2
  <2> HIDE DEF T
  <2>4. PICK z \in T : \A n \in T : z <= n
    BY <2>3, LeastOf
  <2> QED BY <2>4 DEF T
<1>6. Cardinality(UpTo(x - 1)) < k
  <2>1. CASE x = 0
    <3>1. UpTo(x - 1) = {}
      BY <1>1, <2>1
    <3>2. Cardinality(UpTo(x - 1)) = 0
      BY <3>1, FS_EmptySet
    <3> QED BY <3>2
  <2>2. CASE x # 0
    <3>1. x - 1 \in Nat /\ ~(x <= x - 1)
      BY <2>2
    <3>2. Cardinality(UpTo(x - 1)) \in Nat
      BY <1>3
    <3> HIDE DEF UpTo
    <3>3. ~(k <= Cardinality(UpTo(x - 1)))
      BY <1>5, <3>1
    <3> QED BY <3>2, <3>3
  <2> QED BY <2>1, <2>2
<1>7. x \in Range(s)
  <2>1. SUFFICES ASSUME x \notin Range(s) PROVE FALSE
    OBVIOUS
  <2>2. UpTo(x) = UpTo(x - 1)
    BY <1>1, <2>1 DEF Range
  <2>3. Cardinality(UpTo(x)) \in Nat
    BY <1>3
  <2> HIDE DEF UpTo
  <2> QED BY <1>5, <1>6, <2>2, <2>3
<1> QED BY <1>5, <1>6, <1>7

\* Sorting leaves numbers, as many, in order.
LEMMA SortedRises ==
    ASSUME NEW s \in Seq(Nat)
    PROVE  Sorted(s) \in Seq(Nat) /\ Len(Sorted(s)) = Len(s) /\ Rising(Sorted(s))
<1> DEFINE UpTo(x) == {i \in DOMAIN s : s[i] <= x}
           Kth(k) == CHOOSE x \in Range(s) : Cardinality(UpTo(x - 1)) < k /\ k <= Cardinality(UpTo(x))
           q == Sorted(s)
<1>1. Len(s) \in Nat /\ DOMAIN s = 1 .. Len(s) /\ \A i \in 1 .. Len(s) : s[i] \in Nat
  BY LenProperties
<1>2. Range(s) \subseteq Nat
  BY <1>1 DEF Range
<1>3. q = [k \in 1 .. Len(s) |-> Kth(k)]
  BY <1>1 DEF Sorted
<1>4. ASSUME NEW k \in 1 .. Len(s)
      PROVE  q[k] \in Range(s) /\ Cardinality(UpTo(q[k] - 1)) < k /\ k <= Cardinality(UpTo(q[k]))
  <2>1. \E x \in Range(s) : Cardinality(UpTo(x - 1)) < k /\ k <= Cardinality(UpTo(x))
    BY KthExists
  <2> HIDE DEF UpTo
  <2>2. Kth(k) \in Range(s) /\ Cardinality(UpTo(Kth(k) - 1)) < k /\ k <= Cardinality(UpTo(Kth(k)))
    BY <2>1
  <2> HIDE DEF Kth, q
  <2>3. q[k] = Kth(k)
    BY <1>3
  <2> QED BY <2>2, <2>3
<1> HIDE DEF q, Kth
<1>5. q \in Seq(Nat) /\ Len(q) = Len(s)
  <2>1. \A k \in 1 .. Len(s) : q[k] \in Nat
    BY <1>2, <1>4
  <2>2. q \in [1 .. Len(s) -> Nat]
    BY <1>3, <2>1
  <2>3. q \in Seq(Nat)
    BY <1>1, <2>2, SeqDef
  <2> QED BY <1>1, <2>2, <2>3, LenProperties
<1>6. ASSUME NEW i \in 1 .. Len(s), NEW j \in 1 .. Len(s), i <= j PROVE q[i] <= q[j]
  <2>0. q[i] \in Nat /\ q[j] \in Nat
    BY <1>2, <1>4
  <2>1. SUFFICES ASSUME q[j] < q[i] PROVE FALSE
    BY <2>0
  <2>2. UpTo(q[j]) \subseteq UpTo(q[i] - 1)
    BY <1>1, <2>0, <2>1
  <2>3. IsFiniteSet(UpTo(q[i] - 1)) /\ UpTo(q[i] - 1) \subseteq 1 .. Len(s)
    <3>1. UpTo(q[i] - 1) \subseteq 1 .. Len(s)
      BY <1>1
    <3>2. IsFiniteSet(1 .. Len(s))
      <4>1. 1 \in Int /\ Len(s) \in Int
        BY <1>1
      <4> QED BY <4>1, FS_Interval
    <3> HIDE DEF UpTo
    <3> QED BY <3>1, <3>2, FS_Subset
  <2> HIDE DEF UpTo
  <2>4. /\ Cardinality(UpTo(q[j])) <= Cardinality(UpTo(q[i] - 1))
        /\ Cardinality(UpTo(q[j])) \in Nat /\ Cardinality(UpTo(q[i] - 1)) \in Nat
    BY <2>2, <2>3, FS_Subset, FS_CardinalityType
  <2> QED BY <1>4, <1>6, <2>4
<1> QED BY <1>3, <1>5, <1>6 DEF q, Rising

\* Two values with their weights, and Percentile at the position k, in thousandths of
\* an index from 0.
Mix(a, b, x, y) == a * x + b * y

At(s, k) ==
    LET f == k \div 1000
        c == Smaller(f + 1, Len(s) - 1)
    IN IF f = c THEN 1000 * s[f + 1] ELSE Mix(s[f + 1], s[c + 1], 1000 * c - k, k - 1000 * f)

Weigh(a, b, u) == Mix(a, b, 1000 - u, u)

LEMMA WeighTyped == ASSUME NEW a \in Nat, NEW b \in Nat, NEW u \in Nat, u <= 1000
                 PROVE Weigh(a, b, u) \in Int
<1>1. 1000 - u \in Nat /\ u \in Nat
  OBVIOUS
<1>2. a * (1000 - u) \in Int /\ b * u \in Int
  BY <1>1
<1> QED BY <1>2 DEF Weigh, Mix

LEMMA WeighEnds == ASSUME NEW a \in Nat, NEW b \in Nat PROVE Weigh(a, b, 0) = 1000 * a /\ Weigh(a, b, 1000) = 1000 * b
BY DEF Weigh, Mix

LEMMA WeighRises ==
    ASSUME NEW a \in Nat, NEW b \in Nat, a <= b, NEW u \in Nat, NEW v \in Nat, u <= v, v <= 1000
    PROVE  Weigh(a, b, u) <= Weigh(a, b, v)
<1>1. a * (1000 - u) + b * u <= a * (1000 - v) + b * v
  OBVIOUS
<1> QED BY <1>1 DEF Weigh, Mix

LEMMA WeighBetween ==
    ASSUME NEW a \in Nat, NEW b \in Nat, a <= b, NEW u \in Nat, u <= 999
    PROVE  1000 * a <= Weigh(a, b, u) /\ Weigh(a, b, u) <= 1000 * b /\ Weigh(a, b, u) \in Int
<1>1. 0 <= u /\ u <= 1000 /\ 0 \in Nat /\ 1000 \in Nat
  OBVIOUS
<1>2. Weigh(a, b, 0) <= Weigh(a, b, u)
  BY <1>1, WeighRises
<1>3. Weigh(a, b, u) <= Weigh(a, b, 1000)
  BY <1>1, WeighRises
<1>4. Weigh(a, b, u) \in Int
  BY <1>1, WeighTyped
<1> QED BY <1>2, <1>3, <1>4, WeighEnds

\* The position lies at a value or between two.
LEMMA PositionOf ==
    ASSUME NEW n \in Nat, NEW k \in Nat, k <= 1000 * n
    PROVE  \E f, u \in Nat :
              f <= n /\ u <= 999 /\ k = 1000 * f + u /\ k \div 1000 = f /\ (f = n => u = 0)
<1>1. k = 1000 * (k \div 1000) + (k % 1000)
  OBVIOUS
<1>0. k % 1000 \in 0 .. 999
  OBVIOUS
<1>5. k \div 1000 \in Nat
  OBVIOUS
<1> DEFINE f == k \div 1000
           u == k % 1000
<1> HIDE DEF f, u
<1>2. f \in Nat /\ u \in Nat /\ u <= 999 /\ k = 1000 * f + u
  BY <1>0, <1>1, <1>5 DEF f, u
<1>3. f <= n /\ (f = n => u = 0)
  BY <1>2
<1>4. k \div 1000 = f
  BY DEF f
<1> QED BY <1>2, <1>3, <1>4

\* What At(s, k) is: a at the last value, or between a and b.
Lies(x, k, f, u, a, b, n) ==
    /\ f <= n /\ u <= 999 /\ k = 1000 * f + u
    /\ \/ f = n /\ u = 0 /\ x = 1000 * a
       \/ f < n /\ x = Weigh(a, b, u)

Placing(s, k, n) == \E f, u \in Nat : Lies(At(s, k), k, f, u, s[f + 1], s[f + 2], n)

LEMMA AtBetween ==
    ASSUME NEW s \in Seq(Nat), NEW n \in Nat, Len(s) = n + 1, NEW k \in Nat, k <= 1000 * n
    PROVE  Placing(s, k, n)
<1>2. PICK f \in Nat, u \in Nat :
          f <= n /\ u <= 999 /\ k = 1000 * f + u /\ k \div 1000 = f /\ (f = n => u = 0)
  BY PositionOf
<1>3. Len(s) - 1 = n
  OBVIOUS
<1>4. PICK c : c = Smaller(f + 1, n)
  OBVIOUS
<1>5. /\ f = c => At(s, k) = 1000 * s[f + 1]
      /\ f # c => At(s, k) = Mix(s[f + 1], s[c + 1], 1000 * c - k, k - 1000 * f)
  <2> DEFINE g == k \div 1000
             d == Smaller(g + 1, Len(s) - 1)
  <2>1. At(s, k) = IF g = d THEN 1000 * s[g + 1] ELSE Mix(s[g + 1], s[d + 1], 1000 * d - k, k - 1000 * g)
    BY DEF At
  <2> HIDE DEF g
  <2>2. g = f
    BY <1>2 DEF g
  <2>3. d = c
    BY <1>3, <1>4, <2>2
  <2> HIDE DEF d
  <2> QED BY <2>1, <2>2, <2>3
<1>6. CASE f = n
  <2>1. c = f
    BY <1>4, <1>6 DEF Smaller
  <2>2. At(s, k) = 1000 * s[f + 1]
    BY <1>5, <2>1
  <2>3. Lies(At(s, k), k, f, u, s[f + 1], s[f + 2], n)
    BY <1>2, <1>6, <2>2 DEF Lies
  <2> QED BY <2>3, Zenon DEF Placing
<1>7. CASE f # n
  <2>1. f \in Nat /\ f < n
    BY <1>2, <1>7
  <2>2. c = f + 1 /\ c # f /\ c \in Nat
    BY <1>4, <2>1 DEF Smaller
  <2>3. 1000 * c - k = 1000 - u /\ k - 1000 * f = u /\ c + 1 = f + 2
    BY <1>2, <2>1, <2>2
  <2>4. At(s, k) = Mix(s[f + 1], s[f + 2], 1000 - u, u)
    BY <1>5, <2>2, <2>3
  <2>5. At(s, k) = Weigh(s[f + 1], s[f + 2], u)
    BY <2>4 DEF Weigh
  <2>6. Lies(At(s, k), k, f, u, s[f + 1], s[f + 2], n)
    BY <1>2, <2>1, <2>5 DEF Lies
  <2> QED BY <2>6, Zenon DEF Placing
<1> QED BY <1>6, <1>7

\* The values a and b, or c and d, in which one of two places lies.
Beside(f, g, n, a, b, c, d) ==
    /\ a \in Nat /\ c \in Nat
    /\ f < n => b \in Nat /\ a <= b
    /\ g < n => d \in Nat /\ c <= d
    /\ f < g => b <= c
    /\ f = g => a = c /\ b = d

LEMMA LiesRises ==
    ASSUME NEW n \in Nat, NEW k \in Nat, NEW l \in Nat, k <= l,
           NEW x, NEW y, NEW a, NEW b, NEW c, NEW d,
           NEW f \in Nat, NEW u \in Nat, Lies(x, k, f, u, a, b, n),
           NEW g \in Nat, NEW v \in Nat, Lies(y, l, g, v, c, d, n),
           Beside(f, g, n, a, b, c, d)
    PROVE  x \in Int /\ y \in Int /\ x <= y
<1>0. /\ a \in Nat /\ c \in Nat
      /\ f < n => b \in Nat /\ a <= b
      /\ g < n => d \in Nat /\ c <= d
      /\ f < g => b <= c
      /\ f = g => a = c /\ b = d
  BY DEF Beside
<1>1. f < g \/ (f = g /\ u <= v)
  BY <1>0 DEF Lies
<1>2. f < n => /\ b \in Nat /\ x = Weigh(a, b, u) /\ x \in Int
               /\ 1000 * a <= x /\ x <= 1000 * b
  <2> SUFFICES ASSUME f < n PROVE /\ b \in Nat /\ x = Weigh(a, b, u) /\ x \in Int
                                  /\ 1000 * a <= x /\ x <= 1000 * b
    OBVIOUS
  <2>1. b \in Nat /\ a <= b /\ u <= 999 /\ x = Weigh(a, b, u)
    BY <1>0 DEF Lies
  <2> QED BY <1>0, <2>1, WeighBetween
<1>3. g < n => /\ d \in Nat /\ y = Weigh(c, d, v) /\ y \in Int
               /\ 1000 * c <= y /\ y <= 1000 * d
  <2> SUFFICES ASSUME g < n PROVE /\ d \in Nat /\ y = Weigh(c, d, v) /\ y \in Int
                                  /\ 1000 * c <= y /\ y <= 1000 * d
    OBVIOUS
  <2>1. d \in Nat /\ c <= d /\ v <= 999 /\ y = Weigh(c, d, v)
    BY <1>0 DEF Lies
  <2> QED BY <1>0, <2>1, WeighBetween
<1>4. (f = n => x = 1000 * a /\ x \in Int) /\ (g = n => y = 1000 * c /\ y \in Int)
  BY <1>0 DEF Lies
<1>5. (f = n \/ f < n) /\ (g = n \/ g < n)
  BY <1>0 DEF Lies
<1>6. x \in Int /\ y \in Int
  BY <1>2, <1>3, <1>4, <1>5
<1>7. CASE f < g
  <2>1. f < n /\ b <= c
    BY <1>0, <1>7 DEF Lies
  <2>2. 1000 * c <= y
    BY <1>3, <1>4, <1>5, <1>6
  <2>3. b \in Nat /\ x <= 1000 * b
    BY <1>2, <2>1
  <2> QED BY <1>0, <1>6, <2>1, <2>2, <2>3
<1>8. CASE f = g /\ u <= v
  <2>1. CASE f = n
    BY <1>0, <1>4, <1>8, <2>1
  <2>2. CASE f < n
    <3>1. Weigh(a, b, u) <= Weigh(a, b, v)
      <4>1. v <= 1000 /\ b \in Nat /\ a <= b /\ u <= v
        BY <1>0, <1>8, <2>2 DEF Lies
      <4> QED BY <1>0, <4>1, WeighRises
    <3>2. g < n /\ a = c /\ b = d
      BY <1>0, <1>8, <2>2
    <3>3. x = Weigh(a, b, u)
      BY <1>2, <2>2
    <3>4. y = Weigh(c, d, v)
      BY <1>3, <3>2
    <3> QED BY <1>6, <3>1, <3>2, <3>3, <3>4
  <2> QED BY <1>5, <2>1, <2>2
<1> QED BY <1>1, <1>6, <1>7, <1>8

\* Further on, it is no smaller.
LEMMA AtRises ==
    ASSUME NEW s \in Seq(Nat), NEW n \in Nat, Len(s) = n + 1, Rising(s), NEW k \in Nat, NEW l \in Nat,
           k <= l, l <= 1000 * n
    PROVE  At(s, k) <= At(s, l) /\ At(s, k) \in Int /\ At(s, l) \in Int
<1>1. DOMAIN s = 1 .. n + 1 /\ \A i \in 1 .. n + 1 : s[i] \in Nat
  <2>1. s \in [1 .. n + 1 -> Nat] /\ DOMAIN s = 1 .. n + 1
    BY LenProperties
  <2> QED BY <2>1
<1>2. \A i, j \in 1 .. n + 1 : i <= j => s[i] <= s[j]
  BY <1>1, Zenon DEF Rising
<1>3. PICK f \in Nat, u \in Nat : Lies(At(s, k), k, f, u, s[f + 1], s[f + 2], n)
  <2>1. k <= 1000 * n
    OBVIOUS
  <2>2. Placing(s, k, n)
    BY <2>1, AtBetween, SMTT(30)
  <2> QED BY <2>2 DEF Placing
<1>4. PICK g \in Nat, v \in Nat : Lies(At(s, l), l, g, v, s[g + 1], s[g + 2], n)
  <2>1. Placing(s, l, n)
    BY AtBetween, SMTT(30)
  <2> QED BY <2>1 DEF Placing
<1>5. /\ f + 1 \in 1 .. n + 1 /\ g + 1 \in 1 .. n + 1
      /\ f < n => f + 2 \in 1 .. n + 1
      /\ g < n => g + 2 \in 1 .. n + 1
      /\ f < g => f + 2 \in 1 .. n + 1 /\ f + 2 <= g + 1
  BY <1>3, <1>4 DEF Lies
<1>6. /\ s[f + 1] \in Nat /\ s[g + 1] \in Nat
      /\ f < n => s[f + 2] \in Nat /\ s[f + 1] <= s[f + 2]
      /\ g < n => s[g + 2] \in Nat /\ s[g + 1] <= s[g + 2]
      /\ f < g => s[f + 2] <= s[g + 1]
      /\ f = g => s[f + 1] = s[g + 1] /\ s[f + 2] = s[g + 2]
  BY <1>1, <1>2, <1>5
<1>7. PICK a, b, c, d : a = s[f + 1] /\ b = s[f + 2] /\ c = s[g + 1] /\ d = s[g + 2]
  OBVIOUS
<1>8. Lies(At(s, k), k, f, u, a, b, n) /\ Lies(At(s, l), l, g, v, c, d, n)
  BY <1>3, <1>4, <1>7
<1>9. Beside(f, g, n, a, b, c, d)
  BY <1>6, <1>7 DEF Beside
<1>10. PICK x, y : x = At(s, k) /\ y = At(s, l)
  OBVIOUS
<1>11. Lies(x, k, f, u, a, b, n) /\ Lies(y, l, g, v, c, d, n)
  BY <1>8, <1>10
<1>12. x \in Int /\ y \in Int /\ x <= y
  BY <1>9, <1>11, LiesRises
<1> QED BY <1>10, <1>12

LEMMA AtEnds ==
    ASSUME NEW s \in Seq(Nat), NEW n \in Nat, Len(s) = n + 1
    PROVE  At(s, 0) = 1000 * s[1] /\ At(s, 1000 * n) = 1000 * s[n + 1]
<1>1. \A i \in 1 .. n + 1 : s[i] \in Nat
  BY LenProperties
<1>2. PICK f \in Nat, u \in Nat : Lies(At(s, 0), 0, f, u, s[f + 1], s[f + 2], n)
  <2>1. 0 \in Nat /\ 0 <= 1000 * n
    OBVIOUS
  <2>2. Placing(s, 0, n)
    BY <2>1, AtBetween
  <2> QED BY <2>2 DEF Placing
<1>3. PICK k \in Nat : k = 1000 * n
  OBVIOUS
<1>4. PICK g \in Nat, v \in Nat : Lies(At(s, k), k, g, v, s[g + 1], s[g + 2], n)
  <2>1. k <= 1000 * n
    BY <1>3
  <2>2. Placing(s, k, n)
    BY <2>1, AtBetween, SMTT(30)
  <2> QED BY <2>2 DEF Placing
<1>5. f = 0 /\ u = 0
  BY <1>2 DEF Lies
<1>6. g = n
  BY <1>3, <1>4 DEF Lies
<1>7. At(s, 1000 * n) = 1000 * s[n + 1]
  BY <1>3, <1>4, <1>6 DEF Lies
<1>8. Lies(At(s, 0), 0, 0, 0, s[1], s[2], n)
  BY <1>2, <1>5
<1>9. CASE n = 0
  BY <1>7, <1>8, <1>9 DEF Lies
<1>10. CASE n # 0
  <2>1. At(s, 0) = Weigh(s[1], s[2], 0)
    BY <1>8, <1>10 DEF Lies
  <2>2. PICK a \in Nat, b \in Nat : a = s[1] /\ b = s[2]
    BY <1>1, <1>10
  <2>3. Weigh(a, b, 0) = 1000 * a
    BY WeighEnds
  <2> QED BY <1>7, <2>1, <2>2, <2>3
<1> QED BY <1>9, <1>10

\* The quantiles of numbers that are in order are in order.
LEMMA QuantilesRise ==
    ASSUME NEW s \in Seq(Nat), Rising(s)
    PROVE  Rising(Quantiles(s))
<1>1. CASE s = <<>>
  BY <1>1 DEF Quantiles, Rising
<1>2. CASE s # <<>>
  <2>1. PICK n \in Nat : Len(s) = n + 1
    <3>1. Len(s) \in Nat /\ Len(s) # 0
      BY <1>2, LenProperties, EmptySeq
    <3>2. Len(s) - 1 \in Nat /\ Len(s) = (Len(s) - 1) + 1
      BY <3>1
    <3> QED BY <3>2
  <2>2. PICK j1 \in Nat, j2 \in Nat, j3 \in Nat, j4 \in Nat :
            j1 = n * 500 /\ j2 = n * 900 /\ j3 = n * 990 /\ j4 = n * 999
    OBVIOUS
  <2>3. PICK j5 \in Nat : j5 = 1000 * n
    OBVIOUS
  <2>4. Len(s) - 1 = n
    BY <2>1
  <2>5. ASSUME NEW p PROVE Percentile(s, p) = At(s, n * p)
    <3>1. Percentile(s, p) = At(s, (Len(s) - 1) * p)
      BY DEF Percentile, At, Mix
    <3> QED BY <2>4, <3>1
  <2>6. /\ Percentile(s, 500) = At(s, j1) /\ Percentile(s, 900) = At(s, j2)
        /\ Percentile(s, 990) = At(s, j3) /\ Percentile(s, 999) = At(s, j4)
    BY <2>2, <2>5
  <2>7. 1000 * s[1] = At(s, 0) /\ 1000 * s[Len(s)] = At(s, j5)
    BY <2>1, <2>3, AtEnds
  <2>8. Quantiles(s) = <<At(s, 0), At(s, j1), At(s, j2), At(s, j3), At(s, j4), At(s, j5)>>
    <3>1. PICK a, b, c, d, e, f : /\ a = 1000 * s[1] /\ b = Percentile(s, 500) /\ c = Percentile(s, 900)
                                 /\ d = Percentile(s, 990) /\ e = Percentile(s, 999) /\ f = 1000 * s[Len(s)]
      OBVIOUS
    <3>2. Quantiles(s) = <<a, b, c, d, e, f>>
      BY <1>2, <3>1 DEF Quantiles
    <3>3. a = At(s, 0) /\ b = At(s, j1) /\ c = At(s, j2) /\ d = At(s, j3) /\ e = At(s, j4) /\ f = At(s, j5)
      BY <2>6, <2>7, <3>1
    <3> QED BY <3>2, <3>3
  <2>9. 0 <= j1 /\ j1 <= j2 /\ j2 <= j3 /\ j3 <= j4 /\ j4 <= j5 /\ j5 <= 1000 * n
        /\ j1 <= 1000 * n /\ j2 <= 1000 * n /\ j3 <= 1000 * n /\ j4 <= 1000 * n
    BY <2>2, <2>3
  <2>10. At(s, 0) <= At(s, j1) /\ At(s, 0) \in Int /\ At(s, j1) \in Int
    <3>1. 0 \in Nat
      OBVIOUS
    <3> QED BY <2>1, <2>9, <3>1, AtRises
  <2>11. At(s, j1) <= At(s, j2) /\ At(s, j2) \in Int
    BY <2>1, <2>9, AtRises
  <2>12. At(s, j2) <= At(s, j3) /\ At(s, j3) \in Int
    BY <2>1, <2>9, AtRises
  <2>13. At(s, j3) <= At(s, j4) /\ At(s, j4) \in Int
    BY <2>1, <2>9, AtRises
  <2>14. At(s, j4) <= At(s, j5) /\ At(s, j5) \in Int
    BY <2>1, <2>9, AtRises
  <2>15. PICK a \in Int, b \in Int, c \in Int, d \in Int, e \in Int, f \in Int :
             a = At(s, 0) /\ b = At(s, j1) /\ c = At(s, j2) /\ d = At(s, j3) /\ e = At(s, j4) /\ f = At(s, j5)
    BY <2>10, <2>11, <2>12, <2>13, <2>14
  <2>16. a <= b /\ b <= c /\ c <= d /\ d <= e /\ e <= f
    BY <2>10, <2>11, <2>12, <2>13, <2>14, <2>15
  <2> DEFINE q == <<a, b, c, d, e, f>>
  <2>17. DOMAIN q = {1, 2, 3, 4, 5, 6}
    OBVIOUS
  <2>18. q[1] = a /\ q[2] = b /\ q[3] = c /\ q[4] = d /\ q[5] = e /\ q[6] = f
    OBVIOUS
  <2>19. Quantiles(s) = q
    BY <2>8, <2>15
  <2> HIDE DEF q
  <2>20. ASSUME NEW i \in {1, 2, 3, 4, 5, 6}, NEW j \in {1, 2, 3, 4, 5, 6}, i <= j PROVE q[i] <= q[j]
    <3>1. CASE i = 1
      BY <2>16, <2>18, <2>20, <3>1
    <3>2. CASE i = 2
      BY <2>16, <2>18, <2>20, <3>2
    <3>3. CASE i = 3
      BY <2>16, <2>18, <2>20, <3>3
    <3>4. CASE i = 4
      BY <2>16, <2>18, <2>20, <3>4
    <3>5. CASE i = 5
      BY <2>16, <2>18, <2>20, <3>5
    <3>6. CASE i = 6
      BY <2>16, <2>18, <2>20, <3>6
    <3> QED BY <3>1, <3>2, <3>3, <3>4, <3>5, <3>6
  <2>21. \A i, j \in DOMAIN q : i <= j => q[i] <= q[j]
    BY <2>17, <2>20
  <2>22. Rising(q)
    BY <2>21, Zenon DEF Rising
  <2> QED BY <2>19, <2>22, Zenon
<1> QED BY <1>1, <1>2

-----------------------------------------------------------------------------
(* Concurrency                                                             *)

\* 2^n is the number of subsets of 1 .. n.
LEMMA SubsetsOfRange ==
    ASSUME NEW n \in Nat
    PROVE  /\ IsFiniteSet(SUBSET (1 .. n)) /\ Cardinality(SUBSET (1 .. n)) \in Nat
           /\ Cardinality(SUBSET (1 .. n)) = 2 ^ n
<1>1. IsFiniteSet(1 .. n) /\ Cardinality(1 .. n) = n
  <2>1. 1 \in Int /\ n \in Int
    OBVIOUS
  <2>2. IsFiniteSet(1 .. n) /\ Cardinality(1 .. n) = IF 1 > n THEN 0 ELSE n - 1 + 1
    BY <2>1, FS_Interval
  <2> QED BY <2>2
<1>2. Cardinality(SUBSET (1 .. n)) = 2 ^ Cardinality(1 .. n) /\ IsFiniteSet(SUBSET (1 .. n))
  BY <1>1, FS_SUBSET
<1>3. Cardinality(SUBSET (1 .. n)) \in Nat
  BY <1>2, FS_CardinalityType
<1> QED BY <1>1, <1>2, <1>3

LEMMA PowersGrow ==
    ASSUME NEW n \in Nat
    PROVE  2 ^ n \in Nat /\ 2 ^ (n + 1) \in Nat /\ 1 <= 2 ^ n /\ 2 ^ n <= 2 ^ (n + 1)
<1>1. PICK a : a = Cardinality(SUBSET (1 .. n))
  OBVIOUS
<1>2. PICK b : b = Cardinality(SUBSET (1 .. (n + 1)))
  OBVIOUS
<1>3. n + 1 \in Nat
  OBVIOUS
<1>4. a \in Nat /\ a = 2 ^ n
  BY <1>1, SubsetsOfRange
<1>5. b \in Nat /\ b = 2 ^ (n + 1)
  BY <1>2, <1>3, SubsetsOfRange
<1>6. a <= b
  <2>1. SUBSET (1 .. n) \in SUBSET (SUBSET (1 .. (n + 1)))
    <3>1. 1 .. n \subseteq 1 .. (n + 1)
      OBVIOUS
    <3> QED BY <3>1
  <2>2. IsFiniteSet(SUBSET (1 .. (n + 1)))
    BY <1>3, SubsetsOfRange
  <2> QED BY <1>1, <1>2, <2>1, <2>2, FS_Subset
<1>7. a # 0
  <2>1. SUBSET (1 .. n) # {} /\ IsFiniteSet(SUBSET (1 .. n))
    BY SubsetsOfRange
  <2> QED BY <1>1, <2>1, FS_EmptySet
<1>8. 1 <= a
  BY <1>4, <1>7
<1> QED BY <1>4, <1>5, <1>6, <1>8

PlanOK ==
    /\ plan.mode \in {"fixed", "ramp"} /\ plan.streaming \in BOOLEAN
    /\ plan.concurrency \in Nat /\ plan.max \in Nat /\ plan.duration \in Nat
    /\ Limit \in Nat /\ plan.concurrency <= Limit /\ plan.max <= Limit
    /\ 1 .. Limit \subseteq Crowd /\ Crowd \subseteq Nat \ {0}

LEMMA PlanTyped == plan \in Plans => PlanOK
<1> SUFFICES ASSUME plan \in Plans PROVE PlanOK
  OBVIOUS
<1>1. \A p \in Plans : /\ p.mode \in {"fixed", "ramp"} /\ p.streaming \in BOOLEAN
                       /\ p.concurrency \in Nat /\ p.max \in Nat /\ p.duration \in Nat
                       /\ Larger(p.concurrency, p.max) \in Nat
                       /\ p.concurrency <= Larger(p.concurrency, p.max)
                       /\ p.max <= Larger(p.concurrency, p.max)
  BY BenchmarkAssumption DEF PlanType, Larger
<1>2. Crowd \subseteq Nat \ {0}
  BY <1>1 DEF Crowd
<1>3. 1 .. Limit \subseteq Crowd
  BY DEF Crowd, Limit
<1> QED BY <1>1, <1>2, <1>3 DEF PlanOK, Limit

\* From step to step a ramp does not shrink, unless it has started above its maximum.
LEMMA RampGrows ==
    ASSUME PlanOK, NEW n \in Nat
    PROVE  /\ CurrentConcurrency(n) \in Nat /\ CurrentConcurrency(n) <= Limit
           /\ CurrentConcurrency(n + 1) \in Nat /\ CurrentConcurrency(n + 1) <= Limit
           /\ \/ CurrentConcurrency(n) <= CurrentConcurrency(n + 1)
              \/ plan.max < plan.concurrency /\ CurrentConcurrency(n + 1) = plan.max
           /\ plan.max < plan.concurrency => CurrentConcurrency(n + 1) = plan.max
<1>1. PICK c \in Nat, m \in Nat : c = plan.concurrency /\ m = plan.max /\ c <= Limit /\ m <= Limit
  BY DEF PlanOK
<1>2. Limit \in Nat
  BY DEF PlanOK
<1>3. PICK e \in Nat, d \in Nat : e = 2 ^ n /\ d = 2 ^ (n + 1) /\ 1 <= e /\ e <= d
  BY PowersGrow
<1>4. c <= c * e /\ c * e <= c * d /\ c * e \in Nat /\ c * d \in Nat
  BY <1>3
<1>5. PICK g \in Nat, h \in Nat : g = c * e /\ h = c * d /\ c <= g /\ g <= h
  BY <1>4
<1>6. CurrentConcurrency(n) = IF n = 0 THEN c ELSE Smaller(g, m)
  BY <1>1, <1>3, <1>5 DEF CurrentConcurrency
<1>7. CurrentConcurrency(n + 1) = Smaller(h, m)
  <2>1. n + 1 # 0
    OBVIOUS
  <2> QED BY <1>1, <1>3, <1>5, <2>1 DEF CurrentConcurrency
<1>8. PICK x, y : x = CurrentConcurrency(n) /\ y = CurrentConcurrency(n + 1)
  OBVIOUS
<1>9. x = (IF n = 0 THEN c ELSE IF g <= m THEN g ELSE m) /\ y = IF h <= m THEN h ELSE m
  BY <1>6, <1>7, <1>8 DEF Smaller
<1>10. /\ x \in Nat /\ x <= Limit /\ y \in Nat /\ y <= Limit
       /\ x <= y \/ (m < c /\ y = m)
       /\ m < c => y = m
  BY <1>1, <1>2, <1>5, <1>9
<1> QED BY <1>1, <1>8, <1>10

-----------------------------------------------------------------------------
(* Steps                                                                   *)

LEMMA BenchmarkStarts == BenchmarkInit => BenchmarkInv
<1> SUFFICES ASSUME BenchmarkInit PROVE BenchmarkInv
  OBVIOUS
<1>1. PlanOK /\ Warmups \in Nat /\ MaxClock \in Nat
  BY PlanTyped, BenchmarkAssumption DEF BenchmarkInit
<1>2. BenchmarkTypeOK
  <2>1. latencies \in Seq(1 .. MaxClock)
    BY EmptySeq DEF BenchmarkInit
  <2>2. 0 \in 0 .. MaxClock /\ Warmups \in 0 .. Warmups
    BY <1>1
  <2>3. worker \in [Crowd -> {"unborn", "loop", "call", "ended"}] /\ began \in [Crowd -> 0 .. MaxClock]
    BY <2>2 DEF BenchmarkInit
  <2>4. report.total = 0
    BY DEF BenchmarkInit, NoReport
  <2>5. {failed, chunks, calls, report.total} \subseteq Nat
    BY <2>4 DEF BenchmarkInit
  <2>6. {size} \cup doomed \cup aborted \subseteq Crowd \cup {0}
    BY DEF BenchmarkInit
  <2> QED BY <2>1, <2>2, <2>3, <2>5, <2>6 DEF BenchmarkInit, BenchmarkTypeOK
<1>3. Ramped
  BY <1>1 DEF BenchmarkInit, Ramped, PlanOK
<1>4. Tallied
  <2>1. InCalls = {}
    BY DEF BenchmarkInit, InCalls
  <2>2. Cardinality(InCalls) = 0 /\ Cardinality(aborted) = 0
    BY <2>1, FS_EmptySet DEF BenchmarkInit
  <2>3. Len(latencies) = 0
    BY EmptySeq DEF BenchmarkInit
  <2>4. Rising(report.quantiles)
    BY DEF BenchmarkInit, NoReport, Rising
  <2> QED BY <2>2, <2>3, <2>4 DEF BenchmarkInit, Tallied
<1> QED BY <1>2, <1>3, <1>4 DEF BenchmarkInv

\* Calls that go on and workers cancelled in one are finitely many.
LEMMA WorkersFinite ==
    ASSUME BenchmarkInv
    PROVE  /\ IsFiniteSet(InCalls) /\ Cardinality(InCalls) \in Nat
           /\ IsFiniteSet(aborted) /\ Cardinality(aborted) \in Nat
           /\ InCalls \subseteq 1 .. Limit /\ doomed \subseteq 1 .. Limit
           /\ PlanOK /\ Len(latencies) \in Nat /\ IsFiniteSet(1 .. Limit)
<1>1. PlanOK
  BY PlanTyped DEF BenchmarkInv, BenchmarkTypeOK
<1>2. Limit \in Nat /\ size \in Nat /\ size <= Limit
  BY <1>1 DEF PlanOK, BenchmarkInv, Ramped
<1>3. doomed \subseteq 1 .. Limit
  BY <1>2 DEF BenchmarkInv, Ramped
<1>4. InCalls \subseteq 1 .. Limit
  <2> SUFFICES ASSUME NEW w \in InCalls PROVE w \in 1 .. Limit
    OBVIOUS
  <2>1. w \in 1 .. size \/ w \in doomed
    BY DEF InCalls, BenchmarkInv, Ramped
  <2>2. 1 .. size \subseteq 1 .. Limit
    BY <1>2
  <2> QED BY <1>3, <2>1, <2>2
<1>5. aborted \subseteq 1 .. Limit
  BY <1>3 DEF BenchmarkInv, Tallied
<1>6. IsFiniteSet(1 .. Limit)
  <2>1. 1 \in Int /\ Limit \in Int
    BY <1>2
  <2> QED BY <2>1, FS_Interval
<1>7. IsFiniteSet(InCalls) /\ IsFiniteSet(aborted)
  BY <1>4, <1>5, <1>6, FS_Subset
<1>8. Cardinality(InCalls) \in Nat /\ Cardinality(aborted) \in Nat
  BY <1>7, FS_CardinalityType
<1>9. Len(latencies) \in Nat
  BY LenProperties DEF BenchmarkInv, BenchmarkTypeOK
<1> QED BY <1>1, <1>3, <1>4, <1>6, <1>7, <1>8, <1>9

\* The list of tasks grows by workers that have never run, or is cut down to the maximum.
LEMMA Resized ==
    ASSUME BenchmarkInv, NEW n \in Nat, n <= Limit, Resize(n), plan' = plan, countVars' = countVars,
           report' = report, engine # "done", engine' # "done",
           \/ size <= n /\ (doomed = {} \/ n = size)
           \/ plan.mode = "ramp" /\ plan.max < plan.concurrency /\ n = plan.max
    PROVE  /\ worker' \in [Crowd -> {"unborn", "loop", "call", "ended"}]
           /\ {size'} \cup doomed' \cup aborted' \subseteq Crowd \cup {0}
           /\ size' \in Nat /\ size' <= Limit'
           /\ \A w \in Crowd : worker'[w] # "unborn" => w \in 1 .. size' \/ w \in doomed'
           /\ \A w \in doomed' : w \in size' + 1 .. Limit'
           /\ doomed' # {} => plan'.mode = "ramp" /\ size' = plan'.max /\ plan'.max < plan'.concurrency
           /\ Tallied'
<1>0. PlanOK /\ doomed \subseteq 1 .. Limit
  BY WorkersFinite
<1>1. /\ Limit \in Nat /\ 1 .. Limit \subseteq Crowd /\ Crowd \subseteq Nat \ {0} /\ Limit' = Limit
      /\ plan.max \in Nat
  BY <1>0 DEF PlanOK, Limit
<1>2. /\ size \in Nat /\ size <= Limit
      /\ \A w \in Crowd : worker[w] # "unborn" => w \in 1 .. size \/ w \in doomed
      /\ \A w \in doomed : w \in size + 1 .. Limit
      /\ doomed # {} => plan.mode = "ramp" /\ size = plan.max /\ plan.max < plan.concurrency
  BY DEF BenchmarkInv, Ramped
<1>3. /\ size' = n
      /\ worker' = [w \in Crowd |-> IF w \in (size + 1) .. n THEN "loop" ELSE worker[w]]
      /\ doomed' = doomed \cup ((n + 1) .. size)
  BY DEF Resize
<1>4. worker \in [Crowd -> {"unborn", "loop", "call", "ended"}]
  BY DEF BenchmarkInv, BenchmarkTypeOK
<1>5. worker' \in [Crowd -> {"unborn", "loop", "call", "ended"}]
  BY <1>3, <1>4
<1>6. (n + 1) .. size \subseteq 1 .. Limit
  BY <1>1, <1>2
<1>7. {size'} \cup doomed' \cup aborted' \subseteq Crowd \cup {0}
  <2>1. n \in 0 .. Limit /\ (n = 0 \/ n \in 1 .. Limit)
    BY <1>1
  <2>2. aborted' = aborted /\ aborted \subseteq Crowd \cup {0}
    BY DEF countVars, BenchmarkInv, BenchmarkTypeOK
  <2> QED BY <1>0, <1>1, <1>3, <1>6, <2>1, <2>2
<1>8. (doomed = {} \/ size = n) \/ size <= n \/ n = plan.max
  OBVIOUS
<1>9. size <= n => doomed = {} \/ n = size
  BY <1>1, <1>2
<1>10. \A w \in Crowd : w \in (size + 1) .. n => worker[w] = "unborn"
  <2> SUFFICES ASSUME NEW w \in Crowd, w \in (size + 1) .. n PROVE worker[w] = "unborn"
    OBVIOUS
  <2>1. size < n /\ w \notin 1 .. size
    BY <1>1, <1>2
  <2>2. doomed = {}
    BY <1>2, <1>9, <2>1
  <2> QED BY <1>2, <2>1, <2>2
<1>11. \A w \in Crowd : worker'[w] # "unborn" => w \in 1 .. size' \/ w \in doomed'
  <2> SUFFICES ASSUME NEW w \in Crowd, worker'[w] # "unborn" PROVE w \in 1 .. n \/ w \in doomed'
    BY <1>3
  <2>1. CASE w \in (size + 1) .. n
    BY <1>2, <2>1
  <2>2. CASE w \notin (size + 1) .. n
    <3>1. worker[w] # "unborn"
      BY <1>3, <2>2
    <3>2. w \in 1 .. size \/ w \in doomed
      BY <1>2, <3>1
    <3>3. w \in 1 .. size => w \in 1 .. n \/ w \in (n + 1) .. size
      BY <1>2
    <3> QED BY <1>3, <3>2, <3>3
  <2> QED BY <2>1, <2>2
<1>12. \A w \in doomed' : w \in n + 1 .. Limit
  <2> SUFFICES ASSUME NEW w \in doomed' PROVE w \in n + 1 .. Limit
    OBVIOUS
  <2>1. CASE w \in (n + 1) .. size
    BY <1>1, <1>2, <2>1
  <2>2. CASE w \in doomed
    <3>1. w \in size + 1 .. Limit /\ size = plan.max
      BY <1>2, <2>2
    <3>2. n = size
      BY <1>9, <2>2, <3>1
    <3> QED BY <3>1, <3>2
  <2> QED BY <1>3, <2>1, <2>2
<1>13. doomed' # {} => plan.mode = "ramp" /\ n = plan.max /\ plan.max < plan.concurrency
  <2> SUFFICES ASSUME NEW w \in doomed' PROVE plan.mode = "ramp" /\ n = plan.max /\ plan.max < plan.concurrency
    OBVIOUS
  <2>1. CASE w \in (n + 1) .. size
    <3>1. ~(size <= n)
      BY <1>2, <2>1
    <3> QED BY <3>1
  <2>2. CASE w \in doomed
    <3>1. size = plan.max /\ plan.mode = "ramp" /\ plan.max < plan.concurrency
      BY <1>2, <2>2
    <3>2. n = size
      BY <1>9, <2>2, <3>1
    <3> QED BY <3>1, <3>2
  <2> QED BY <1>3, <2>1, <2>2
<1>14. Tallied'
  <2>1. InCalls' = InCalls
    <3>1. \A w \in Crowd : worker'[w] = "call" <=> worker[w] = "call"
      BY <1>3, <1>4, <1>10
    <3> QED BY <3>1 DEF InCalls
  <2>2. aborted \subseteq doomed /\ \A w \in aborted : worker[w] = "ended"
    BY DEF BenchmarkInv, Tallied
  <2>3. \A w \in aborted : worker'[w] = "ended"
    <3>1. \A w \in aborted : w \in Crowd
      BY <1>0, <1>1, <2>2
    <3>2. \A w \in aborted : w \notin (size + 1) .. n
      BY <1>10, <2>2, <3>1
    <3> QED BY <1>3, <2>2, <3>1, <3>2
  <2>4. /\ aborted' = aborted /\ latencies' = latencies /\ failed' = failed /\ calls' = calls
    BY DEF countVars
  <2>5. aborted' \subseteq doomed'
    BY <1>3, <2>2, <2>4
  <2>6. /\ Len(latencies) + failed + Cardinality(InCalls) + Cardinality(aborted) = calls
        /\ Rising(report.quantiles)
    BY DEF BenchmarkInv, Tallied
  <2>7. Rising(report.quantiles)'
    BY <2>6
  <2> QED BY <2>1, <2>3, <2>4, <2>5, <2>6, <2>7 DEF Tallied
<1> QED BY <1>1, <1>3, <1>5, <1>7, <1>11, <1>12, <1>13, <1>14

\* What the count rests on: calls, workers in one, those cancelled, and the result.
LEMMA CountedFrame ==
    ASSUME BenchmarkInv, worker' = worker, UNCHANGED <<plan, size, doomed, countVars, report>>,
           engine' = "done" => engine = "done"
    PROVE  Tallied'
<1>1. InCalls' = InCalls
  BY DEF InCalls
<1>2. Rising(report.quantiles)'
  BY DEF BenchmarkInv, Tallied
<1> QED BY <1>1, <1>2 DEF BenchmarkInv, Tallied, countVars

\* The part of the state that the engine alone changes.
LEMMA RampedFrame ==
    ASSUME BenchmarkInv, UNCHANGED <<plan, size, doomed, step>>,
           \A w \in Crowd : worker[w] = "unborn" => worker'[w] = "unborn",
           \/ engine' = engine /\ wake' = wake /\ engine # "warmup"
           \/ engine' = engine /\ wake' = wake /\ clock' = clock
           \/ engine' \notin {"warmup", "sleep"}
    PROVE  Ramped'
<1>1. Limit' = Limit
  BY DEF Limit
<1>2. \A n : CurrentConcurrency(n)' = CurrentConcurrency(n)
  BY DEF CurrentConcurrency
<1> QED BY <1>1, <1>2 DEF BenchmarkInv, Ramped

LEMMA PassKeeps == BenchmarkInv /\ Pass => BenchmarkInv'
<1> SUFFICES ASSUME BenchmarkInv, Pass PROVE BenchmarkInv'
  OBVIOUS
<1>1. Tallied'
  BY CountedFrame DEF Pass, planVars
<1>2. Ramped'
  BY RampedFrame DEF Pass, planVars
<1>3. BenchmarkTypeOK'
  <2>1. clock + 1 \in 0 .. MaxClock
    BY BenchmarkAssumption DEF BenchmarkInv, BenchmarkTypeOK, Pass
  <2> QED BY <2>1 DEF BenchmarkInv, BenchmarkTypeOK, Pass, planVars, countVars
<1> QED BY <1>1, <1>2, <1>3 DEF BenchmarkInv

LEMMA WarmupKeeps == BenchmarkInv /\ Warmup => BenchmarkInv'
<1> SUFFICES ASSUME BenchmarkInv, Warmup PROVE BenchmarkInv'
  OBVIOUS
<1>1. Tallied'
  BY CountedFrame DEF Warmup
<1>2. Ramped'
  BY RampedFrame DEF Warmup
<1>3. BenchmarkTypeOK'
  <2>1. warm - 1 \in 0 .. Warmups
    BY BenchmarkAssumption DEF BenchmarkInv, BenchmarkTypeOK, Warmup
  <2> QED BY <2>1 DEF BenchmarkInv, BenchmarkTypeOK, Warmup, countVars
<1> QED BY <1>1, <1>2, <1>3 DEF BenchmarkInv

LEMMA StartFixedKeeps == BenchmarkInv /\ StartFixed => BenchmarkInv'
<1> SUFFICES ASSUME BenchmarkInv, StartFixed PROVE BenchmarkInv'
  OBVIOUS
<1>1. PlanOK
  BY WorkersFinite
<1>2. PICK n \in Nat : n = plan.concurrency /\ n <= Limit /\ size = 0 /\ doomed = {} /\ 0 <= n
  BY <1>1 DEF PlanOK, BenchmarkInv, Ramped, StartFixed
<1>3. /\ Resize(n) /\ engine = "warmup" /\ plan.mode = "fixed" /\ plan' = plan
      /\ countVars' = countVars /\ report' = report /\ engine' = "sleep"
      /\ wake' = clock + plan.duration
      /\ UNCHANGED <<warm, step, stop, clock, began>>
  BY <1>2 DEF StartFixed, Sleep
<1>4. /\ worker' \in [Crowd -> {"unborn", "loop", "call", "ended"}]
      /\ {size'} \cup doomed' \cup aborted' \subseteq Crowd \cup {0}
      /\ size' \in Nat /\ size' <= Limit'
      /\ \A w \in Crowd : worker'[w] # "unborn" => w \in 1 .. size' \/ w \in doomed'
      /\ \A w \in doomed' : w \in size' + 1 .. Limit'
      /\ doomed' # {} => plan'.mode = "ramp" /\ size' = plan'.max /\ plan'.max < plan'.concurrency
      /\ Tallied'
  BY <1>2, <1>3, Resized
<1>5. wake' \in Nat
  <2>1. plan.duration \in Nat
    BY <1>1 DEF PlanOK
  <2>2. clock \in Nat
    BY BenchmarkAssumption DEF BenchmarkInv, BenchmarkTypeOK
  <2> QED BY <1>3, <2>1, <2>2
<1>6. Ramped'
  BY <1>3, <1>4 DEF Ramped
<1>7. BenchmarkTypeOK'
  <2>1. /\ plan' \in Plans /\ engine' = "sleep" /\ warm' \in 0 .. Warmups
        /\ clock' \in 0 .. MaxClock /\ step' \in 0 .. MaxClock /\ stop' \in BOOLEAN
        /\ began' \in [Crowd -> 0 .. MaxClock]
    BY <1>3 DEF BenchmarkInv, BenchmarkTypeOK
  <2>2. latencies' \in Seq(1 .. MaxClock) /\ {failed', chunks', calls', report.total'} \subseteq Nat
    BY <1>3 DEF BenchmarkInv, BenchmarkTypeOK, countVars
  <2> QED BY <1>4, <1>5, <2>1, <2>2 DEF BenchmarkTypeOK
<1> QED BY <1>4, <1>6, <1>7 DEF BenchmarkInv

LEMMA RampStepKeeps == BenchmarkInv /\ RampStep => BenchmarkInv'
<1> SUFFICES ASSUME BenchmarkInv, RampStep PROVE BenchmarkInv'
  OBVIOUS
<1>1. PlanOK
  BY WorkersFinite
<1>2. /\ plan.mode = "ramp" /\ engine \in {"warmup", "sleep"} /\ plan' = plan
      /\ countVars' = countVars /\ report' = report /\ engine' = "sleep" /\ wake' = clock + 1
      /\ UNCHANGED <<warm, stop, clock, began>> /\ Resize(CurrentConcurrency(step'))
      /\ \/ engine = "warmup" /\ step' = 0
         \/ engine = "sleep" /\ clock >= wake /\ step' = step + 1
  BY DEF RampStep, Sleep
<1>3. clock \in Nat /\ clock <= MaxClock /\ MaxClock \in Nat /\ wake \in Nat /\ step \in Nat
  BY BenchmarkAssumption DEF BenchmarkInv, BenchmarkTypeOK
<1>4. step' \in Nat /\ step' <= clock
  BY <1>2, <1>3 DEF BenchmarkInv, Ramped
<1>5. PICK n : n = CurrentConcurrency(step')
  OBVIOUS
<1>6. n \in Nat /\ n <= Limit
  BY <1>1, <1>4, <1>5, RampGrows
<1>7. \/ size <= n /\ (doomed = {} \/ n = size)
      \/ plan.mode = "ramp" /\ plan.max < plan.concurrency /\ n = plan.max
  <2>1. CASE engine = "warmup"
    BY <1>6, <2>1 DEF BenchmarkInv, Ramped
  <2>2. CASE engine = "sleep" /\ step' = step + 1
    <3>1. size = CurrentConcurrency(step) /\ (doomed # {} => plan.max < plan.concurrency)
      BY <1>2, <2>2 DEF BenchmarkInv, Ramped
    <3>2. n = CurrentConcurrency(step + 1)
      BY <1>5, <2>2
    <3>3. /\ size <= n \/ (plan.max < plan.concurrency /\ n = plan.max)
          /\ plan.max < plan.concurrency => n = plan.max
      BY <1>1, <1>3, <3>1, <3>2, RampGrows
    <3> QED BY <1>2, <3>1, <3>3
  <2> QED BY <1>2, <2>1, <2>2
<1>8. Resize(n) /\ engine # "done" /\ engine' # "done"
  BY <1>2, <1>5
<1>9. /\ worker' \in [Crowd -> {"unborn", "loop", "call", "ended"}]
      /\ {size'} \cup doomed' \cup aborted' \subseteq Crowd \cup {0}
      /\ size' \in Nat /\ size' <= Limit'
      /\ \A w \in Crowd : worker'[w] # "unborn" => w \in 1 .. size' \/ w \in doomed'
      /\ \A w \in doomed' : w \in size' + 1 .. Limit'
      /\ doomed' # {} => plan'.mode = "ramp" /\ size' = plan'.max /\ plan'.max < plan'.concurrency
      /\ Tallied'
  BY <1>2, <1>6, <1>7, <1>8, Resized
<1>10. Ramped'
  <2>1. size' = CurrentConcurrency(step')
    BY <1>2 DEF Resize
  <2>2. size' = CurrentConcurrency(step)'
    BY <1>2, <2>1 DEF CurrentConcurrency
  <2>3. step' < wake'
    BY <1>2, <1>3, <1>4
  <2> QED BY <1>2, <1>4, <1>9, <2>2, <2>3 DEF Ramped
<1>11. BenchmarkTypeOK'
  <2>1. step' \in 0 .. MaxClock /\ wake' \in Nat
    BY <1>2, <1>3, <1>4
  <2> QED BY <1>2, <1>9, <2>1 DEF BenchmarkInv, BenchmarkTypeOK, countVars
<1> QED BY <1>9, <1>10, <1>11 DEF BenchmarkInv

LEMMA StopKeeps == BenchmarkInv /\ Stop => BenchmarkInv'
<1> SUFFICES ASSUME BenchmarkInv, Stop PROVE BenchmarkInv'
  OBVIOUS
<1>1. Tallied'
  BY CountedFrame DEF Stop
<1>2. Ramped'
  BY RampedFrame DEF Stop
<1>3. BenchmarkTypeOK'
  BY DEF BenchmarkInv, BenchmarkTypeOK, Stop, countVars
<1> QED BY <1>1, <1>2, <1>3 DEF BenchmarkInv

\* The result: what has been counted, and quantiles in order.
LEMMA FinishKeeps == BenchmarkInv /\ Finish => BenchmarkInv'
<1> SUFFICES ASSUME BenchmarkInv, Finish PROVE BenchmarkInv'
  OBVIOUS
<1>1. /\ engine = "gather" /\ engine' = "done" /\ \A w \in 1 .. size : worker[w] = "ended"
      /\ UNCHANGED <<plan, warm, wake, step, size, doomed, stop, clock, worker, began, countVars>>
      /\ \E d : report' = BuildStreamingResult(d) \/ report' = BuildResult(d)
  BY DEF Finish
<1>2. /\ report'.total = Len(latencies) + failed
      /\ report'.quantiles = <<>> \/ report'.quantiles = Quantiles(Sorted(latencies))
  BY <1>1 DEF BuildStreamingResult, BuildResult
<1>3. Rising(report'.quantiles)
  <2>1. latencies \in Seq(Nat)
    <3>1. latencies \in Seq(1 .. MaxClock) /\ 1 .. MaxClock \subseteq Nat
      BY DEF BenchmarkInv, BenchmarkTypeOK
    <3> QED BY <3>1, SeqMonotonic
  <2>2. Rising(Quantiles(Sorted(latencies)))
    BY <2>1, SortedRises, QuantilesRise
  <2>3. Rising(<<>>)
    BY DEF Rising
  <2> QED BY <1>2, <2>2, <2>3
<1>4. Tallied'
  <2>1. InCalls' = InCalls
    BY <1>1 DEF InCalls
  <2>2. Rising(report.quantiles)'
    BY <1>3
  <2> QED BY <1>1, <1>2, <2>1, <2>2 DEF BenchmarkInv, Tallied, countVars
<1>5. Ramped'
  BY <1>1, RampedFrame
<1>6. BenchmarkTypeOK'
  <2>1. report'.total \in Nat
    <3>1. Len(latencies) \in Nat /\ failed \in Nat
      BY WorkersFinite DEF BenchmarkInv, BenchmarkTypeOK
    <3> QED BY <1>2, <3>1
  <2> QED BY <1>1, <2>1 DEF BenchmarkInv, BenchmarkTypeOK, countVars
<1> QED BY <1>4, <1>5, <1>6 DEF BenchmarkInv

\* A worker that may call is of the list, and the engine is not done.
LEMMA WorkerOfList ==
    ASSUME BenchmarkInv, NEW w \in Crowd, worker[w] \in {"loop", "call"}, w \notin doomed
    PROVE  engine # "done"
<1>1. w \in 1 .. size
  BY DEF BenchmarkInv, Ramped
<1> QED BY <1>1 DEF BenchmarkInv, Tallied

LEMMA WorkerMoves ==
    ASSUME BenchmarkInv, NEW w \in Crowd, worker[w] # "unborn",
           NEW x \in {"loop", "call", "ended"}, worker' = [worker EXCEPT ![w] = x], planVars' = planVars,
           clock' = clock
    PROVE  /\ Ramped' /\ worker' \in [Crowd -> {"unborn", "loop", "call", "ended"}]
           /\ InCalls' = IF x = "call" THEN InCalls \cup {w} ELSE InCalls \ {w}
<1>1. worker \in [Crowd -> {"unborn", "loop", "call", "ended"}]
  BY DEF BenchmarkInv, BenchmarkTypeOK
<1>2. /\ worker'[w] = x /\ \A v \in Crowd : v # w => worker'[v] = worker[v]
  BY <1>1
<1>3. \A v \in Crowd : worker[v] = "unborn" => worker'[v] = "unborn"
  BY <1>2
<1>4. Ramped'
  BY <1>3, RampedFrame DEF planVars
<1>5. InCalls' = IF x = "call" THEN InCalls \cup {w} ELSE InCalls \ {w}
  BY <1>2 DEF InCalls
<1> QED BY <1>1, <1>4, <1>5

LEMMA OneMore ==
    ASSUME NEW S, IsFiniteSet(S), NEW w
    PROVE  /\ w \notin S => Cardinality(S \cup {w}) = Cardinality(S) + 1
           /\ w \in S => Cardinality(S \ {w}) = Cardinality(S) - 1
BY FS_AddElement, FS_RemoveElement

LEMMA BeginKeeps == \A w \in Crowd : BenchmarkInv /\ BeginCall(w) => BenchmarkInv'
<1> SUFFICES ASSUME NEW w \in Crowd, BenchmarkInv, BeginCall(w) PROVE BenchmarkInv'
  OBVIOUS
<1>1. /\ worker[w] = "loop" /\ w \notin doomed /\ worker' = [worker EXCEPT ![w] = "call"]
      /\ planVars' = planVars /\ clock' = clock /\ calls' = calls + 1
      /\ began' = [began EXCEPT ![w] = clock]
      /\ UNCHANGED <<latencies, failed, chunks, aborted, report>>
  BY DEF BeginCall
<1>2. Ramped' /\ worker' \in [Crowd -> {"unborn", "loop", "call", "ended"}] /\ InCalls' = InCalls \cup {w}
  <2>1. worker[w] # "unborn"
    BY <1>1
  <2> QED BY <1>1, <2>1, WorkerMoves
<1>3. engine # "done"
  BY <1>1, WorkerOfList
<1>4. w \notin InCalls
  BY <1>1 DEF InCalls
<1>5. Cardinality(InCalls') = Cardinality(InCalls) + 1
  BY <1>2, <1>4, WorkersFinite, OneMore
<1>6. failed \in Nat /\ calls \in Nat
  BY DEF BenchmarkInv, BenchmarkTypeOK
<1>7. Tallied'
  <2>1. Len(latencies) + failed + Cardinality(InCalls) + Cardinality(aborted) = calls
    BY DEF BenchmarkInv, Tallied
  <2>2. Len(latencies) + failed + (Cardinality(InCalls) + 1) + Cardinality(aborted) = calls + 1
    BY <1>6, <2>1, WorkersFinite
  <2>3. \A v \in aborted : worker'[v] = "ended"
    BY <1>1 DEF BenchmarkInv, Tallied, BenchmarkTypeOK
  <2>4. aborted' \subseteq doomed' /\ Rising(report.quantiles)'
    BY <1>1 DEF BenchmarkInv, Tallied, planVars
  <2> QED BY <1>1, <1>3, <1>5, <2>2, <2>3, <2>4 DEF Tallied, planVars
<1>8. BenchmarkTypeOK'
  <2>1. began' \in [Crowd -> 0 .. MaxClock]
    BY <1>1 DEF BenchmarkInv, BenchmarkTypeOK
  <2>2. calls' \in Nat
    BY <1>1, <1>6
  <2> QED BY <1>1, <1>2, <2>1, <2>2 DEF BenchmarkInv, BenchmarkTypeOK, planVars
<1> QED BY <1>2, <1>7, <1>8 DEF BenchmarkInv

\* A call that has returned or raised, cancelled or not, is counted once.
LEMMA ReturnKeeps == \A w \in Crowd : BenchmarkInv /\ (CallReturns(w) \/ CallRaises(w)) => BenchmarkInv'
<1> SUFFICES ASSUME NEW w \in Crowd, BenchmarkInv, CallReturns(w) \/ CallRaises(w) PROVE BenchmarkInv'
  OBVIOUS
<1>1. /\ worker[w] = "call" /\ w \notin doomed /\ clock > began[w] /\ worker' = [worker EXCEPT ![w] = "loop"]
      /\ planVars' = planVars /\ clock' = clock
      /\ UNCHANGED <<began, calls, aborted, report>>
  BY DEF CallReturns, CallRaises, InCall
<1>2. Ramped' /\ worker' \in [Crowd -> {"unborn", "loop", "call", "ended"}] /\ InCalls' = InCalls \ {w}
  <2>1. worker[w] # "unborn"
    BY <1>1
  <2> QED BY <1>1, <2>1, WorkerMoves
<1>3. engine # "done"
  BY <1>1, WorkerOfList
<1>4. w \in InCalls
  BY <1>1 DEF InCalls
<1>5. Cardinality(InCalls') = Cardinality(InCalls) - 1
  BY <1>2, <1>4, WorkersFinite, OneMore
<1>6. failed \in Nat /\ calls \in Nat /\ chunks \in Nat /\ latencies \in Seq(1 .. MaxClock)
  BY DEF BenchmarkInv, BenchmarkTypeOK
<1>7. clock - began[w] \in 1 .. MaxClock
  <2>1. clock \in 0 .. MaxClock /\ began[w] \in 0 .. MaxClock
    BY DEF BenchmarkInv, BenchmarkTypeOK
  <2>2. MaxClock \in Nat
    BY BenchmarkAssumption
  <2> QED BY <1>1, <2>1, <2>2
<1>8. /\ latencies' \in Seq(1 .. MaxClock) /\ failed' \in Nat /\ chunks' \in Nat
      /\ Len(latencies') \in Nat /\ Len(latencies') + failed' = Len(latencies) + failed + 1
  <2>1. CASE CallReturns(w)
    <3>1. latencies' = Append(latencies, clock - began[w]) /\ failed' = failed
      BY <2>1 DEF CallReturns
    <3>2. latencies' \in Seq(1 .. MaxClock) /\ Len(latencies') = Len(latencies) + 1
      BY <1>6, <1>7, <3>1, AppendOf
    <3>3. chunks' \in Nat
      <4>1. ChunksReceived \subseteq Nat
        BY BenchmarkAssumption DEF ChunksReceived
      <4>2. PICK c \in ChunksReceived : chunks' = chunks + c
        BY <2>1 DEF CallReturns
      <4> QED BY <1>6, <4>1, <4>2
    <3>4. Len(latencies) \in Nat
      BY <1>6
    <3>5. Len(latencies') \in Nat /\ Len(latencies') + failed = Len(latencies) + failed + 1
      BY <1>6, <3>2, <3>4
    <3> QED BY <1>6, <3>1, <3>2, <3>3, <3>5
  <2>2. CASE CallRaises(w)
    <3>1. /\ failed' = failed + 1 /\ latencies' = latencies /\ chunks' = chunks
      BY <2>2 DEF CallRaises
    <3>2. Len(latencies) \in Nat
      BY <1>6
    <3>3. failed' \in Nat /\ Len(latencies) + failed' = Len(latencies) + failed + 1
      BY <1>6, <3>1, <3>2
    <3> QED BY <1>6, <3>1, <3>2, <3>3
  <2> QED BY <2>1, <2>2
<1>9. Tallied'
  <2>1. Len(latencies) + failed + Cardinality(InCalls) + Cardinality(aborted) = calls
    BY DEF BenchmarkInv, Tallied
  <2>2. Len(latencies') + failed' + (Cardinality(InCalls) - 1) + Cardinality(aborted) = calls
    BY <1>6, <1>8, <2>1, WorkersFinite
  <2>3. \A v \in aborted : worker'[v] = "ended"
    BY <1>1 DEF BenchmarkInv, Tallied, BenchmarkTypeOK
  <2>4. aborted' \subseteq doomed' /\ Rising(report.quantiles)'
    BY <1>1 DEF BenchmarkInv, Tallied, planVars
  <2> QED BY <1>1, <1>3, <1>5, <2>2, <2>3, <2>4 DEF Tallied, planVars
<1>10. BenchmarkTypeOK'
  BY <1>1, <1>2, <1>8 DEF BenchmarkInv, BenchmarkTypeOK, planVars
<1> QED BY <1>2, <1>9, <1>10 DEF BenchmarkInv

\* A worker that is cancelled loses its call, and is not of the list.
LEMMA CancelledKeeps == \A w \in Crowd : BenchmarkInv /\ Cancelled(w) => BenchmarkInv'
<1> SUFFICES ASSUME NEW w \in Crowd, BenchmarkInv, Cancelled(w) PROVE BenchmarkInv'
  OBVIOUS
<1>1. /\ worker[w] \in {"loop", "call"} /\ w \in doomed /\ worker' = [worker EXCEPT ![w] = "ended"]
      /\ planVars' = planVars /\ clock' = clock
      /\ aborted' = IF worker[w] = "call" THEN aborted \cup {w} ELSE aborted
      /\ UNCHANGED <<began, latencies, failed, chunks, calls, report>>
  BY DEF Cancelled
<1>2. Ramped' /\ worker' \in [Crowd -> {"unborn", "loop", "call", "ended"}] /\ InCalls' = InCalls \ {w}
  <2>1. worker[w] # "unborn"
    BY <1>1
  <2> QED BY <1>1, <2>1, WorkerMoves
<1>3. worker'[w] = "ended" /\ \A v \in Crowd : v # w => worker'[v] = worker[v]
  BY <1>1 DEF BenchmarkInv, BenchmarkTypeOK
<1>4. \A v \in aborted : v \in Crowd /\ worker[v] = "ended"
  BY WorkersFinite DEF BenchmarkInv, Tallied, PlanOK
<1>5. w \notin aborted
  BY <1>1, <1>4
<1>6. Cardinality(InCalls') + Cardinality(aborted') = Cardinality(InCalls) + Cardinality(aborted)
  <2>1. CASE worker[w] = "call"
    <3>1. w \in InCalls
      BY <2>1 DEF InCalls
    <3>2. Cardinality(InCalls') = Cardinality(InCalls) - 1
      BY <1>2, <3>1, WorkersFinite, OneMore
    <3>3. Cardinality(aborted') = Cardinality(aborted) + 1
      BY <1>1, <1>5, <2>1, WorkersFinite, OneMore
    <3> QED BY <3>2, <3>3, WorkersFinite
  <2>2. CASE worker[w] # "call"
    <3>1. InCalls' = InCalls
      BY <1>2, <2>2 DEF InCalls
    <3> QED BY <1>1, <2>2, <3>1
  <2> QED BY <2>1, <2>2
<1>7. aborted' \subseteq doomed /\ \A v \in aborted' : worker'[v] = "ended"
  BY <1>1, <1>3, <1>4 DEF BenchmarkInv, Tallied
<1>8. failed \in Nat /\ calls \in Nat
  BY DEF BenchmarkInv, BenchmarkTypeOK
<1>9. Cardinality(InCalls') \in Nat /\ Cardinality(aborted') \in Nat
  <2>1. IsFiniteSet(InCalls')
    BY <1>2, WorkersFinite, FS_Subset
  <2>2. IsFiniteSet(aborted')
    BY <1>7, WorkersFinite, FS_Subset
  <2> QED BY <2>1, <2>2, FS_CardinalityType
<1>10. Tallied'
  <2>1. Len(latencies) + failed + Cardinality(InCalls) + Cardinality(aborted) = calls
    BY DEF BenchmarkInv, Tallied
  <2>2. Len(latencies) + failed + Cardinality(InCalls') + Cardinality(aborted') = calls
    BY <1>6, <1>8, <1>9, <2>1, WorkersFinite
  <2>3. engine = "done" => /\ report.total = Len(latencies) + failed
                           /\ \A v \in 1 .. size : worker'[v] = "ended"
    <3>1. \A v \in 1 .. size : v \in Crowd
      BY WorkersFinite DEF PlanOK, BenchmarkInv, Ramped
    <3> QED BY <1>3, <3>1 DEF BenchmarkInv, Tallied
  <2>4. Rising(report.quantiles)'
    BY <1>1 DEF BenchmarkInv, Tallied
  <2> QED BY <1>1, <1>7, <2>2, <2>3, <2>4 DEF Tallied, planVars
<1>11. BenchmarkTypeOK'
  BY <1>1, <1>2 DEF BenchmarkInv, BenchmarkTypeOK, planVars
<1> QED BY <1>2, <1>10, <1>11 DEF BenchmarkInv

LEMMA EndKeeps == \A w \in Crowd : BenchmarkInv /\ EndWorker(w) => BenchmarkInv'
<1> SUFFICES ASSUME NEW w \in Crowd, BenchmarkInv, EndWorker(w) PROVE BenchmarkInv'
  OBVIOUS
<1>1. /\ worker[w] = "loop" /\ worker' = [worker EXCEPT ![w] = "ended"]
      /\ planVars' = planVars /\ clock' = clock /\ UNCHANGED <<began, countVars, report>>
  BY DEF EndWorker
<1>2. Ramped' /\ worker' \in [Crowd -> {"unborn", "loop", "call", "ended"}] /\ InCalls' = InCalls \ {w}
  <2>1. worker[w] # "unborn"
    BY <1>1
  <2> QED BY <1>1, <2>1, WorkerMoves
<1>3. InCalls' = InCalls
  BY <1>1, <1>2 DEF InCalls
<1>4. \A v \in Crowd : worker[v] = "ended" => worker'[v] = "ended"
  BY <1>1 DEF BenchmarkInv, BenchmarkTypeOK
<1>5. Tallied'
  <2>1. \A v \in 1 .. size : v \in Crowd
    BY WorkersFinite DEF PlanOK, BenchmarkInv, Ramped
  <2>2. \A v \in aborted : v \in Crowd
    BY WorkersFinite DEF PlanOK, BenchmarkInv, Tallied
  <2>3. Rising(report.quantiles)'
    BY <1>1 DEF BenchmarkInv, Tallied
  <2> QED BY <1>1, <1>3, <1>4, <2>1, <2>2, <2>3 DEF BenchmarkInv, Tallied, planVars, countVars
<1>6. BenchmarkTypeOK'
  BY <1>1, <1>2 DEF BenchmarkInv, BenchmarkTypeOK, planVars, countVars
<1> QED BY <1>2, <1>5, <1>6 DEF BenchmarkInv

LEMMA BenchmarkStep == BenchmarkInv /\ [BenchmarkNext]_benchmarkVars => BenchmarkInv'
<1> SUFFICES ASSUME BenchmarkInv, [BenchmarkNext]_benchmarkVars PROVE BenchmarkInv'
  OBVIOUS
<1>1. CASE UNCHANGED benchmarkVars
  <2>1. UNCHANGED <<plan, warm, engine, wake, step, size, doomed, stop, clock, worker, began,
                    latencies, failed, chunks, calls, aborted, report>>
    BY <1>1 DEF benchmarkVars, planVars, countVars
  <2>2. Tallied'
    BY <2>1, CountedFrame DEF countVars
  <2>3. Ramped'
    BY <2>1, RampedFrame
  <2>4. BenchmarkTypeOK'
    BY <2>1 DEF BenchmarkInv, BenchmarkTypeOK
  <2> QED BY <2>2, <2>3, <2>4 DEF BenchmarkInv
<1> QED BY <1>1, PassKeeps, WarmupKeeps, StartFixedKeeps, RampStepKeeps, StopKeeps, FinishKeeps,
           BeginKeeps, ReturnKeeps, CancelledKeeps, EndKeeps DEF BenchmarkNext

LEMMA BenchmarkCounts == BenchmarkInv => ResultsCounted
<1> SUFFICES ASSUME BenchmarkInv PROVE ResultsCounted
  OBVIOUS
<1>1. PlanOK /\ size \in Nat /\ size <= Limit /\ Limit \in Nat
  BY WorkersFinite DEF PlanOK, BenchmarkInv, Ramped
<1>2. Cardinality({w \in Crowd : worker[w] = "call" /\ w \notin doomed}) <= Larger(plan.concurrency, plan.max)
  <2> DEFINE S == {w \in Crowd : worker[w] = "call" /\ w \notin doomed}
  <2>1. S \subseteq 1 .. size
    BY DEF BenchmarkInv, Ramped
  <2> HIDE DEF S
  <2>2. IsFiniteSet(1 .. size) /\ Cardinality(1 .. size) = size
    <3>1. 1 \in Int /\ size \in Int
      BY <1>1
    <3>2. IsFiniteSet(1 .. size) /\ Cardinality(1 .. size) = IF 1 > size THEN 0 ELSE size - 1 + 1
      BY <3>1, FS_Interval
    <3> QED BY <1>1, <3>2
  <2>3. IsFiniteSet(S) /\ Cardinality(S) <= size
    BY <2>1, <2>2, FS_Subset
  <2>4. Cardinality(S) \in Nat
    BY <2>3, FS_CardinalityType
  <2> QED BY <1>1, <2>3, <2>4 DEF S, Limit
<1>3. ASSUME engine = "done"
      PROVE  /\ \A w \in Crowd : worker[w] \in {"loop", "call"} => w \in doomed
             /\ report.total + Cardinality({w \in doomed : worker[w] = "call" \/ w \in aborted}) = calls
  <2>1. \A w \in Crowd : worker[w] \in {"loop", "call"} => w \in doomed
    BY <1>3, WorkerOfList
  <2>2. {w \in doomed : worker[w] = "call" \/ w \in aborted} = InCalls \cup aborted
    <3>1. doomed \subseteq Crowd
      BY WorkersFinite DEF PlanOK
    <3> QED BY <2>1, <3>1 DEF BenchmarkInv, Tallied, InCalls
  <2>3. InCalls \cap aborted = {}
    BY DEF BenchmarkInv, Tallied, InCalls
  <2>4. Cardinality(InCalls \cup aborted) = Cardinality(InCalls) + Cardinality(aborted)
    <3>1. Cardinality(InCalls \cup aborted) = Cardinality(InCalls) + Cardinality(aborted) - Cardinality(InCalls \cap aborted)
      BY WorkersFinite, FS_Union
    <3>2. Cardinality(InCalls \cap aborted) = 0
      BY <2>3, FS_EmptySet
    <3> QED BY <3>1, <3>2, WorkersFinite
  <2>5. /\ report.total = Len(latencies) + failed
        /\ Len(latencies) + failed + Cardinality(InCalls) + Cardinality(aborted) = calls
        /\ failed \in Nat /\ calls \in Nat
    BY <1>3 DEF BenchmarkInv, Tallied, BenchmarkTypeOK
  <2>6. report.total + (Cardinality(InCalls) + Cardinality(aborted)) = calls
    BY <2>5, WorkersFinite
  <2> QED BY <2>1, <2>2, <2>4, <2>6
<1>4. \A i, j \in DOMAIN report.quantiles : i <= j => report.quantiles[i] <= report.quantiles[j]
  BY DEF BenchmarkInv, Tallied, Rising
<1> QED BY <1>2, <1>3, <1>4 DEF ResultsCounted

LEMMA BenchmarkInvariant == BenchmarkSpec => []BenchmarkInv
BY BenchmarkStarts, BenchmarkStep, PTL DEF BenchmarkSpec

\* Every reachable state of the load generators is type-correct, for any plans.
THEOREM BenchmarkTypeCorrect == BenchmarkSpec => []BenchmarkTypeOK
<1>1. BenchmarkInv => BenchmarkTypeOK
  BY DEF BenchmarkInv
<1> QED BY <1>1, BenchmarkInvariant, PTL

\* For any plan, number of workers and order of their calls: a result counts every call
\* once, unless a ramp has cancelled its worker in it, no more calls run at a time than the
\* plan allows, and the quantiles of a result are in order (_run_fixed, _run_ramp,
\* _percentile).
THEOREM ResultsAreCounted == BenchmarkSpec => []ResultsCounted
BY BenchmarkInvariant, BenchmarkCounts, PTL

-----------------------------------------------------------------------------
(* The seven together                                                      *)

\* A behaviour of the seven components together is one of each of them: what holds
\* of a component by itself holds of it beside the others.
THEOREM ComponentsCompose ==
    Spec => /\ EnsembleSpec /\ ArtifactsSpec /\ BenchmarkSpec /\ FrontEndSpec
            /\ LoaderSpec /\ LoggingSpec /\ OrchestrationSpec
<1>1. Init => /\ EnsembleInit /\ ArtifactsInit /\ BenchmarkInit /\ FrontEndInit
              /\ LoaderInit /\ LoggingInit /\ OrchestrationInit
  BY DEF Init
<1>2. ASSUME [Next]_<<part, ensembleVars, artifactVars, benchmarkVars, frontEndVars,
                      loaderVars, loggingVars, orchestrationVars>>
      PROVE  /\ [EnsembleNext]_ensembleVars /\ [ArtifactsNext]_artifactVars
             /\ [BenchmarkNext]_benchmarkVars /\ [FrontEndNext]_frontEndVars
             /\ [LoaderNext]_loaderVars /\ [LoggingNext]_loggingVars
             /\ [OrchestrationNext]_orchestrationVars
  BY <1>2 DEF Next
<1> QED BY <1>1, <1>2, PTL DEF Spec, EnsembleSpec, ArtifactsSpec, BenchmarkSpec,
           FrontEndSpec, LoaderSpec, LoggingSpec, OrchestrationSpec

\* Every component stays within its types, whichever of them takes steps.
THEOREM ComponentsTypeCorrect == Spec => []TypeOK
<1>1. /\ EnsembleTypeOK /\ ArtifactsTypeOK /\ BenchmarkTypeOK /\ FrontEndTypeOK
      /\ LoaderTypeOK /\ LoggingTypeOK /\ OrchestrationTypeOK
      => TypeOK
  BY DEF TypeOK
<1> QED BY <1>1, ComponentsCompose, EnsembleTypeCorrect, ArtifactsTypeCorrect,
           BenchmarkTypeCorrect, FrontEndTypeCorrect, LoaderTypeCorrect, LoggingTypeCorrect,
           OrchestrationTypeCorrect, PTL

=============================================================================
