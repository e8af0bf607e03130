---------------------------- MODULE AdminIPC_proofs ----------------------------
(***************************************************************************)
(* Proofs about AdminIPC, for any calls, HTTP workers and size of their    *)
(* executors: no result is given twice, and a call that no other call      *)
(* disturbs gets its own.                                                  *)
(***************************************************************************)
EXTENDS AdminIPC, DataLemmas

-----------------------------------------------------------------------------
(* Where the result of a command is                                        *)

\* The types of what the admin loop works on.
QueuesTyped ==
    /\ commands \in Seq(Calls)
    /\ handling \in Calls \cup {NoCall}
    /\ responses \in [Workers -> Seq(Calls)]
    /\ state \in [Calls -> {"new", "waiting", "returned", "timed_out"}]
    /\ answer \in [Calls -> Calls \cup {NoCall}]

\* No call has the result of d.
Untaken(d) == \A c \in Calls : answer[c] # d

\* No response queue holds the result of d.
Unanswered(d) == \A w \in Workers : \A i \in DOMAIN responses[w] : responses[w][i] # d

\* A command goes through the admin queue, the admin loop and one response queue to
\* at most one call, and is in at most one of these places, once.
OnePlace ==
    /\ \A c \in Calls : state[c] = "new" =>
          /\ \A i \in DOMAIN commands : commands[i] # c
          /\ handling # c /\ Unanswered(c) /\ Untaken(c)
    /\ \A i \in DOMAIN commands :
          /\ \A j \in DOMAIN commands : commands[i] = commands[j] => i = j
          /\ handling # commands[i] /\ Unanswered(commands[i]) /\ Untaken(commands[i])
    /\ handling # NoCall => Unanswered(handling) /\ Untaken(handling)
    /\ \A w \in Workers : \A i \in DOMAIN responses[w] :
          /\ \A j \in DOMAIN responses[w] : responses[w][i] = responses[w][j] => i = j
          /\ Worker[responses[w][i]] = w
          /\ Untaken(responses[w][i])
    /\ \A c, d \in Calls : answer[c] # NoCall /\ c # d => answer[c] # answer[d]

IInv == QueuesTyped /\ OnePlace

LEMMA PlaceInit == Init => IInv
<1> SUFFICES ASSUME Init PROVE IInv
  OBVIOUS
<1>1. QueuesTyped
  BY DEF Init, QueuesTyped
<1>2. OnePlace
  BY WorkerAssumption DEF Init, OnePlace, Unanswered, Untaken
<1> QED BY <1>1, <1>2 DEF IInv

LEMMA PlaceSend == ASSUME IInv, NEW c \in Calls, Send(c) PROVE IInv'
<1>1. /\ state[c] = "new" /\ state' = [state EXCEPT ![c] = "waiting"]
      /\ commands' = Append(commands, c)
      /\ handling' = handling /\ responses' = responses /\ answer' = answer
  BY DEF Send
<1>2. QueuesTyped'
  BY <1>1, AppendOf DEF IInv, QueuesTyped
<1>3. \A i \in DOMAIN commands' :
          \/ i \in DOMAIN commands /\ commands'[i] = commands[i]
          \/ i = Len(commands) + 1 /\ commands'[i] = c
  BY <1>1, AppendOf DEF IInv, QueuesTyped
<1>4. /\ \A i \in DOMAIN commands : commands[i] # c
      /\ handling # c /\ Unanswered(c) /\ Untaken(c)
  BY <1>1 DEF IInv, OnePlace
<1>5. ASSUME NEW d \in Calls, state'[d] = "new"
      PROVE  /\ \A i \in DOMAIN commands' : commands'[i] # d
             /\ handling' # d /\ Unanswered(d)' /\ Untaken(d)'
  <2>1. d # c /\ state[d] = "new"
    BY <1>1, <1>5 DEF IInv, QueuesTyped
  <2> QED BY <1>1, <1>3, <2>1 DEF IInv, OnePlace, Unanswered, Untaken
<1>6. ASSUME NEW i \in DOMAIN commands'
      PROVE  /\ \A j \in DOMAIN commands' : commands'[i] = commands'[j] => i = j
             /\ handling' # commands'[i]
             /\ \A w \in Workers : \A j \in DOMAIN responses'[w] : responses'[w][j] # commands'[i]
             /\ \A d \in Calls : answer'[d] # commands'[i]
  BY <1>1, <1>3, <1>4 DEF IInv, OnePlace, Unanswered, Untaken
<1>7. OnePlace'
  BY <1>1, <1>5, <1>6 DEF IInv, OnePlace, Unanswered, Untaken
<1> QED BY <1>2, <1>7 DEF IInv

LEMMA PlaceTake == IInv /\ TakeCommand => IInv'
<1> SUFFICES ASSUME IInv, TakeCommand PROVE IInv'
  OBVIOUS
<1>1. /\ handling = NoCall /\ handling' = Head(commands) /\ commands' = Tail(commands)
      /\ responses' = responses /\ state' = state /\ answer' = answer
      /\ commands \in Seq(Calls) /\ commands # <<>>
  BY DEF TakeCommand, IInv, QueuesTyped
<1>2. /\ Head(commands) = commands[1] /\ 1 \in DOMAIN commands
      /\ Head(commands) \in Calls /\ Tail(commands) \in Seq(Calls)
      /\ \A i \in DOMAIN commands' :
            commands'[i] = commands[i + 1] /\ i + 1 \in DOMAIN commands /\ i + 1 # 1
      /\ DOMAIN commands' \subseteq Nat
  BY <1>1, TailOf
<1>3. QueuesTyped'
  BY <1>1, <1>2 DEF IInv, QueuesTyped
<1>4. ASSUME NEW i \in DOMAIN commands', NEW j \in DOMAIN commands', commands'[i] = commands'[j]
      PROVE  i = j
  <2>1. i + 1 = j + 1
    BY <1>2, <1>4 DEF IInv, OnePlace
  <2> QED BY <1>2, <2>1
<1>5. ASSUME NEW i \in DOMAIN commands'
      PROVE  handling' # commands'[i]
  BY <1>1, <1>2 DEF IInv, OnePlace
<1>6. OnePlace'
  BY <1>1, <1>2, <1>4, <1>5 DEF IInv, OnePlace, Unanswered, Untaken
<1> QED BY <1>3, <1>6 DEF IInv

LEMMA PlacePut == IInv /\ PutResult => IInv'
<1> SUFFICES ASSUME IInv, PutResult PROVE IInv'
  OBVIOUS
<1> DEFINE u == Worker[handling]
<1>1. /\ handling # NoCall /\ handling' = NoCall /\ handling \in Calls /\ u \in Workers
      /\ responses' = [responses EXCEPT ![u] = Append(responses[u], handling)]
      /\ commands' = commands /\ state' = state /\ answer' = answer
  BY WorkerAssumption DEF PutResult, IInv, QueuesTyped
<1>2. responses \in [Workers -> Seq(Calls)] /\ responses[u] \in Seq(Calls)
  BY <1>1 DEF IInv, QueuesTyped
<1>3. QueuesTyped'
  <2>1. Append(responses[u], handling) \in Seq(Calls)
    BY <1>1, <1>2, AppendOf
  <2> QED BY <1>1, <1>2, <2>1 DEF IInv, QueuesTyped
<1>4. \A w \in Workers : \A i \in DOMAIN responses'[w] :
          \/ i \in DOMAIN responses[w] /\ responses'[w][i] = responses[w][i]
          \/ w = u /\ i = Len(responses[u]) + 1 /\ responses'[w][i] = handling
  <2>1. \A i \in DOMAIN Append(responses[u], handling) :
            \/ i \in DOMAIN responses[u] /\ Append(responses[u], handling)[i] = responses[u][i]
            \/ i = Len(responses[u]) + 1 /\ Append(responses[u], handling)[i] = handling
    BY <1>1, <1>2, AppendOf
  <2> QED BY <1>1, <1>2, <2>1
<1>5. /\ \A i \in DOMAIN commands : commands[i] # handling
      /\ Unanswered(handling) /\ Untaken(handling)
      /\ state[handling] # "new"
  BY <1>1 DEF IInv, OnePlace
<1>6. ASSUME NEW w \in Workers, NEW i \in DOMAIN responses'[w]
      PROVE  /\ \A j \in DOMAIN responses'[w] : responses'[w][i] = responses'[w][j] => i = j
             /\ Worker[responses'[w][i]] = w
             /\ \A c \in Calls : answer'[c] # responses'[w][i]
  BY <1>1, <1>4, <1>5 DEF IInv, OnePlace, Unanswered, Untaken
<1>7. ASSUME NEW d, d # handling, Unanswered(d)
      PROVE  Unanswered(d)'
  BY <1>4, <1>7 DEF Unanswered
<1>8. ASSUME NEW d, Untaken(d) PROVE Untaken(d)'
  BY <1>1, <1>8 DEF Untaken
<1>9. \A c \in Calls : NoCall # c
  BY WorkerAssumption
<1>10. \A c \in Calls : state[c] = "new" => Unanswered(c)'
  BY <1>5, <1>7 DEF IInv, OnePlace
<1>11. \A i \in DOMAIN commands : \A w \in Workers : \A j \in DOMAIN responses'[w] :
           responses'[w][j] # commands[i]
  BY <1>4, <1>5 DEF IInv, OnePlace, Unanswered
<1>12. \A i \in DOMAIN commands : NoCall # commands[i]
  BY <1>9 DEF IInv, QueuesTyped
<1>13. OnePlace'
  BY <1>1, <1>6, <1>8, <1>9, <1>10, <1>11, <1>12 DEF IInv, OnePlace, Unanswered, Untaken
<1> QED BY <1>3, <1>13 DEF IInv

LEMMA PlaceGet == ASSUME IInv, NEW c \in Calls, Get(c) PROVE IInv'
<1> DEFINE w == Worker[c]
           r == Head(responses[w])
<1>1. /\ w \in Workers /\ responses[w] \in Seq(Calls) /\ responses[w] # <<>>
      /\ answer' = [answer EXCEPT ![c] = r]
      /\ responses' = [responses EXCEPT ![w] = Tail(responses[w])]
      /\ commands' = commands /\ handling' = handling /\ state' = state
  BY WorkerAssumption DEF Get, IInv, QueuesTyped
<1>2. /\ r = responses[w][1] /\ 1 \in DOMAIN responses[w] /\ r \in Calls
      /\ Tail(responses[w]) \in Seq(Calls)
      /\ \A i \in DOMAIN Tail(responses[w]) :
            /\ Tail(responses[w])[i] = responses[w][i + 1]
            /\ i + 1 \in DOMAIN responses[w] /\ i + 1 # 1
      /\ DOMAIN Tail(responses[w]) \subseteq Nat
  BY <1>1, TailOf
<1>3. QueuesTyped'
  BY <1>1, <1>2 DEF IInv, QueuesTyped
\* Every result that is still in a queue was there before, and is not the one taken.
<1>4. ASSUME NEW v \in Workers, NEW i \in DOMAIN responses'[v]
      PROVE  /\ responses'[v][i] # r
             /\ \E k \in DOMAIN responses[v] : responses'[v][i] = responses[v][k]
             /\ \A j \in DOMAIN responses'[v] : responses'[v][i] = responses'[v][j] => i = j
  <2>1. CASE v = w
    <3>1. responses'[v] = Tail(responses[w])
      BY <1>1, <2>1 DEF IInv, QueuesTyped
    <3>2. \A j \in DOMAIN responses'[v] :
              /\ responses'[v][j] = responses[w][j + 1]
              /\ j + 1 \in DOMAIN responses[w] /\ j + 1 # 1 /\ j \in Nat
      BY <1>2, <3>1
    <3>3. \A j, k \in DOMAIN responses[w] : responses[w][j] = responses[w][k] => j = k
      BY <1>1 DEF IInv, OnePlace
    <3>4. ASSUME NEW j \in DOMAIN responses'[v], responses'[v][i] = responses'[v][j]
          PROVE  i = j
      <4>1. i + 1 = j + 1
        BY <3>2, <3>3, <3>4
      <4> QED BY <3>2, <4>1
    <3> QED BY <1>2, <2>1, <3>2, <3>3, <3>4
  <2>2. CASE v # w
    <3>1. responses'[v] = responses[v]
      BY <1>1, <2>2 DEF IInv, QueuesTyped
    <3>2. Worker[responses[v][i]] = v /\ Worker[r] = w
      BY <1>1, <1>2, <3>1 DEF IInv, OnePlace
    <3> QED BY <2>2, <3>1, <3>2 DEF IInv, OnePlace
  <2> QED BY <2>1, <2>2
<1>5. /\ Untaken(r) /\ state[r] # "new" /\ handling # r
      /\ \A i \in DOMAIN commands : commands[i] # r
  <2>1. ~ Unanswered(r)
    BY <1>1, <1>2 DEF Unanswered
  <2>2. Untaken(r)
    BY <1>1, <1>2 DEF IInv, OnePlace
  <2>3. r # NoCall
    BY <1>2, WorkerAssumption
  <2> QED BY <1>2, <2>1, <2>2, <2>3 DEF IInv, OnePlace
<1>6. ASSUME NEW d, d # r, Untaken(d) PROVE Untaken(d)'
  BY <1>1, <1>6 DEF Untaken, IInv, QueuesTyped
<1>7. ASSUME NEW d, Unanswered(d) PROVE Unanswered(d)'
  BY <1>4, <1>7 DEF Unanswered
<1>8. ASSUME NEW v \in Workers, NEW i \in DOMAIN responses'[v]
      PROVE  /\ \A j \in DOMAIN responses'[v] : responses'[v][i] = responses'[v][j] => i = j
             /\ Worker[responses'[v][i]] = v
             /\ \A d \in Calls : answer'[d] # responses'[v][i]
  <2>1. PICK k \in DOMAIN responses[v] : responses'[v][i] = responses[v][k]
    BY <1>4
  <2>2. Worker[responses[v][k]] = v /\ Untaken(responses[v][k])
    BY <2>1 DEF IInv, OnePlace
  <2> QED BY <1>1, <1>4, <2>1, <2>2 DEF Untaken, IInv, QueuesTyped
<1>9. \A a, b \in Calls : answer'[a] # NoCall /\ a # b => answer'[a] # answer'[b]
  BY <1>1, <1>5 DEF IInv, OnePlace, QueuesTyped, Untaken
<1>10. \A a \in Calls : state[a] = "new" => Unanswered(a)' /\ Untaken(a)'
  BY <1>5, <1>6, <1>7 DEF IInv, OnePlace
<1>11. \A i \in DOMAIN commands :
          /\ \A v \in Workers : \A j \in DOMAIN responses'[v] : responses'[v][j] # commands[i]
          /\ \A d \in Calls : answer'[d] # commands[i]
  <2> SUFFICES ASSUME NEW i \in DOMAIN commands, NEW d, d = commands[i]
               PROVE  Unanswered(d)' /\ Untaken(d)'
    BY <1>1 DEF Unanswered, Untaken
  <2>1. Unanswered(d) /\ Untaken(d) /\ d # r
    BY <1>5 DEF IInv, OnePlace
  <2> QED BY <1>6, <1>7, <2>1
<1>12. handling # NoCall =>
          /\ \A v \in Workers : \A j \in DOMAIN responses'[v] : responses'[v][j] # handling
          /\ \A d \in Calls : answer'[d] # handling
  <2> SUFFICES ASSUME handling # NoCall, NEW d, d = handling
               PROVE  Unanswered(d)' /\ Untaken(d)'
    BY <1>1 DEF Unanswered, Untaken
  <2>1. Unanswered(d) /\ Untaken(d) /\ d # r
    BY <1>5 DEF IInv, OnePlace
  <2> QED BY <1>6, <1>7, <2>1
<1>13. OnePlace'
  BY <1>1, <1>8, <1>9, <1>10, <1>11, <1>12 DEF IInv, OnePlace, Unanswered, Untaken
<1> QED BY <1>3, <1>13 DEF IInv

LEMMA PlaceNext == IInv /\ [Next]_vars => IInv'
<1> SUFFICES ASSUME IInv, [Next]_vars PROVE IInv'
  OBVIOUS
<1>1. CASE UNCHANGED <<commands, handling, responses, state, answer>>
  BY <1>1 DEF IInv, QueuesTyped, OnePlace, Unanswered, Untaken
<1>2. ASSUME NEW c \in Calls, state[c] # "new", NEW f \in {"returned", "timed_out"},
             state' = [state EXCEPT ![c] = f],
             UNCHANGED <<commands, handling, responses, answer>>
      PROVE  IInv'
  <2>1. QueuesTyped'
    BY <1>2 DEF IInv, QueuesTyped
  <2>2. \A d \in Calls : state'[d] = "new" => state[d] = "new"
    BY <1>2 DEF IInv, QueuesTyped
  <2> QED BY <1>2, <2>1, <2>2 DEF IInv, OnePlace, Unanswered, Untaken
<1>3. ASSUME NEW c \in Calls, Resume(c) \/ Timeout(c) PROVE IInv'
  BY <1>2, <1>3 DEF Resume, Timeout
<1>4. ASSUME Raise PROVE IInv'
  <2>1. /\ handling' = NoCall
        /\ UNCHANGED <<commands, responses, state, answer>>
    BY <1>4 DEF Raise
  <2>2. QueuesTyped'
    BY <2>1 DEF IInv, QueuesTyped
  <2>3. \A c \in Calls : NoCall # c
    BY WorkerAssumption
  <2>4. \A i \in DOMAIN commands : NoCall # commands[i]
    BY <2>3 DEF IInv, QueuesTyped
  <2> QED BY <2>1, <2>2, <2>3, <2>4 DEF IInv, OnePlace, Unanswered, Untaken
<1> QED BY <1>1, <1>3, <1>4, PlaceSend, PlaceTake, PlacePut, PlaceGet
        DEF Next, AdminLoop, StartGet, vars

\* No result is given to two calls, nor left in a queue once a call has it, however
\* the calls of a worker overlap and time out (HTTPState._admin_call).
THEOREM NoResultTwice == Spec => []ResultTakenOnce
<1>1. IInv => ResultTakenOnce
  <2> SUFFICES ASSUME IInv, NEW c \in Calls, NEW d \in Calls
               PROVE  /\ answer[c] # NoCall /\ c # d => answer[c] # answer[d]
                      /\ \A w \in Workers : answer[c] = d => d \notin ToSet(responses[w])
    BY DEF ResultTakenOnce
  <2> QED BY DEF IInv, OnePlace, Untaken, ToSet
<1> QED BY <1>1, PlaceInit, PlaceNext, PTL DEF Spec

-----------------------------------------------------------------------------
(* Calls that no other call disturbs                                       *)

\* The remaining types.
GettersTyped ==
    /\ pending \in [Workers -> Seq(Calls)]
    /\ getter \in [Calls -> {"none", "queued", "running", "done", "cancelled"}]
    /\ alone \subseteq Calls

\* The executor's work items are the get()s that have not started, each once; a call
\* that has returned had the result of its get().
Executors ==
    /\ \A w \in Workers : Distinct(pending[w])
    /\ \A w \in Workers : \A c \in ToSet(pending[w]) : Worker[c] = w /\ getter[c] = "queued"
    /\ \A c \in Calls : state[c] = "new" <=> getter[c] = "none"
    /\ \A c \in Calls : state[c] = "new" => answer[c] = NoCall
    /\ \A c \in Calls : state[c] = "returned" => getter[c] = "done"

\* As long as the get() of such a call has not ended, no other command of its worker is
\* on its way, so that only its own result can come.
Solitary ==
    \A c \in alone :
        /\ state[c] # "new" /\ answer[c] \in {c, NoCall}
        /\ getter[c] \notin {"done", "cancelled"} => Outstanding(Worker[c]) \subseteq {c}

Inv == IInv /\ GettersTyped /\ Executors /\ Solitary

LEMMA InitInv == Init => Inv
<1> SUFFICES ASSUME Init PROVE Inv
  OBVIOUS
<1>1. Distinct(<<>>) /\ ToSet(<<>>) = {} /\ <<>> \in Seq(Calls)
  BY DEF Distinct, ToSet
<1>2. GettersTyped /\ Executors /\ Solitary
  BY <1>1 DEF Init, GettersTyped, Executors, Solitary
<1> QED BY <1>2, PlaceInit DEF Inv

LEMMA TypesStep == Inv /\ [Next]_vars => GettersTyped'
<1> SUFFICES ASSUME Inv, [Next]_vars PROVE GettersTyped'
  OBVIOUS
<1>1. /\ pending \in [Workers -> Seq(Calls)] /\ alone \subseteq Calls
      /\ getter \in [Calls -> {"none", "queued", "running", "done", "cancelled"}]
  BY DEF Inv, GettersTyped
<1>2. CASE UNCHANGED <<pending, getter, alone>>
  BY <1>1, <1>2 DEF GettersTyped
<1>3. ASSUME NEW c \in Calls, Send(c) PROVE GettersTyped'
  <2>1. Worker[c] \in Workers /\ pending[Worker[c]] \in Seq(Calls)
    BY <1>1, WorkerAssumption
  <2>2. Append(pending[Worker[c]], c) \in Seq(Calls)
    BY <2>1, AppendOf
  <2>3. pending' = [pending EXCEPT ![Worker[c]] = Append(pending[Worker[c]], c)]
    BY <1>3 DEF Send
  <2>4. getter' \in [Calls -> {"none", "queued", "running", "done", "cancelled"}]
    BY <1>1, <1>3 DEF Send
  <2>5. alone' \subseteq Calls
    BY <1>1, <1>3 DEF Send
  <2>6. pending' \in [Workers -> Seq(Calls)]
    BY <1>1, <2>2, <2>3
  <2> QED BY <2>4, <2>5, <2>6 DEF GettersTyped
<1>4. ASSUME NEW w \in Workers, StartGet(w) PROVE GettersTyped'
  <2>1. pending[w] \in Seq(Calls) /\ pending[w] # <<>>
    BY <1>1, <1>4 DEF StartGet
  <2>2. Tail(pending[w]) \in Seq(Calls)
    BY <2>1, TailOf
  <2>3. pending' = [pending EXCEPT ![w] = Tail(pending[w])] /\ alone' = alone
    BY <1>4 DEF StartGet
  <2>4. getter' \in [Calls -> {"none", "queued", "running", "done", "cancelled"}]
    BY <1>1, <1>4 DEF StartGet
  <2>5. pending' \in [Workers -> Seq(Calls)]
    BY <1>1, <2>2, <2>3
  <2> QED BY <1>1, <2>3, <2>4, <2>5 DEF GettersTyped
<1>5. ASSUME NEW c \in Calls, Get(c) \/ Resume(c) PROVE GettersTyped'
  <2>1. getter' \in [Calls -> {"none", "queued", "running", "done", "cancelled"}]
    BY <1>1, <1>5 DEF Get, Resume
  <2> QED BY <1>1, <1>5, <2>1 DEF Get, Resume, GettersTyped
<1>6. ASSUME NEW c \in Calls, Timeout(c) PROVE GettersTyped'
  <2> DEFINE w == Worker[c]
  <2>1. w \in Workers /\ pending[w] \in Seq(Calls) /\ Distinct(pending[w])
    BY <1>1, WorkerAssumption DEF Inv, Executors
  <2>2. RemoveFirst(pending[w], c) \in Seq(Calls)
    BY <2>1, RemoveFirstLeaves
  <2>3. pending' = [pending EXCEPT ![w] = RemoveFirst(pending[w], c)] /\ alone' = alone
    BY <1>6 DEF Timeout
  <2>4. getter' \in [Calls -> {"none", "queued", "running", "done", "cancelled"}]
    BY <1>1, <1>6 DEF Timeout
  <2>5. pending' \in [Workers -> Seq(Calls)]
    BY <1>1, <2>2, <2>3
  <2> QED BY <1>1, <2>3, <2>4, <2>5 DEF GettersTyped
<1> QED BY <1>2, <1>3, <1>4, <1>5, <1>6
        DEF Next, AdminLoop, TakeCommand, PutResult, Raise, vars

LEMMA ExecutorsStep == Inv /\ [Next]_vars => Executors'
<1> SUFFICES ASSUME Inv, [Next]_vars PROVE Executors'
  OBVIOUS
<1>1. /\ pending \in [Workers -> Seq(Calls)] /\ Worker \in [Calls -> Workers]
      /\ getter \in [Calls -> {"none", "queued", "running", "done", "cancelled"}]
      /\ state \in [Calls -> {"new", "waiting", "returned", "timed_out"}]
      /\ answer \in [Calls -> Calls \cup {NoCall}]
      /\ Executors
      /\ \A w \in Workers : ToSet(pending[w]) \subseteq Calls
  BY WorkerAssumption DEF Inv, GettersTyped, IInv, QueuesTyped, ToSet
<1>2. CASE UNCHANGED <<pending, getter, state, answer>>
  BY <1>1, <1>2 DEF Executors
<1>3. ASSUME NEW c \in Calls, Send(c) PROVE Executors'
  <2> DEFINE u == Worker[c]
  <2>1. /\ state[c] = "new" /\ state' = [state EXCEPT ![c] = "waiting"]
        /\ getter' = [getter EXCEPT ![c] = "queued"]
        /\ pending' = [pending EXCEPT ![u] = Append(pending[u], c)] /\ answer' = answer
    BY <1>3 DEF Send
  <2>2. u \in Workers /\ pending[u] \in Seq(Calls) /\ Distinct(pending[u])
    BY <1>1 DEF Executors
  <2>3. \A w \in Workers : c \notin ToSet(pending[w])
    BY <1>1, <2>1 DEF Executors
  <2>4. PICK q : q = Append(pending[u], c)
    OBVIOUS
  <2>5. ToSet(q) = ToSet(pending[u]) \cup {c} /\ Distinct(q)
    BY <2>2, <2>3, <2>4, AppendSet
  <2>6. \A w \in Workers : pending'[w] = IF w = u THEN q ELSE pending[w]
    BY <1>1, <2>1, <2>4
  <2>7. \A d \in Calls : /\ getter'[d] = IF d = c THEN "queued" ELSE getter[d]
                         /\ state'[d] = IF d = c THEN "waiting" ELSE state[d]
    BY <1>1, <2>1
  <2>8. ASSUME NEW w \in Workers
        PROVE  /\ Distinct(pending'[w])
               /\ \A d \in ToSet(pending'[w]) : Worker[d] = w /\ getter'[d] = "queued"
    <3>1. CASE w = u
      BY <1>1, <2>2, <2>5, <2>6, <2>7, <3>1 DEF Executors
    <3>2. CASE w # u
      BY <1>1, <2>3, <2>6, <2>7, <3>2 DEF Executors
    <3> QED BY <3>1, <3>2
  <2> QED BY <1>1, <2>1, <2>7, <2>8 DEF Executors
<1>4. ASSUME NEW u \in Workers, StartGet(u) PROVE Executors'
  <2>1. PICK h : h = Head(pending[u])
    OBVIOUS
  <2>2. /\ state' = state /\ answer' = answer /\ getter' = [getter EXCEPT ![h] = "running"]
        /\ pending' = [pending EXCEPT ![u] = Tail(pending[u])]
        /\ pending[u] \in Seq(Calls) /\ pending[u] # <<>> /\ Distinct(pending[u])
    BY <1>1, <1>4, <2>1 DEF StartGet, Executors
  <2>3. PICK q : q = Tail(pending[u])
    OBVIOUS
  <2>4. /\ ToSet(pending[u]) = {h} \cup ToSet(q) /\ h \in Calls
        /\ Distinct(q) /\ h \notin ToSet(q)
    BY <2>1, <2>2, <2>3, TailSet
  <2>5. getter[h] = "queued" /\ Worker[h] = u
    BY <1>1, <2>4 DEF Executors
  <2>6. \A w \in Workers : pending'[w] = IF w = u THEN q ELSE pending[w]
    BY <1>1, <2>2, <2>3
  <2>7. \A d \in Calls : getter'[d] = IF d = h THEN "running" ELSE getter[d]
    BY <1>1, <2>2
  <2>8. ASSUME NEW w \in Workers
        PROVE  /\ Distinct(pending'[w])
               /\ \A d \in ToSet(pending'[w]) : Worker[d] = w /\ getter'[d] = "queued"
    <3>1. CASE w = u
      BY <1>1, <2>4, <2>6, <2>7, <3>1 DEF Executors
    <3>2. CASE w # u
      BY <1>1, <2>5, <2>6, <2>7, <3>2 DEF Executors
    <3> QED BY <3>1, <3>2
  <2>9. \A d \in Calls : /\ state[d] = "new" <=> getter'[d] = "none"
                         /\ state[d] = "returned" => getter'[d] = "done"
    BY <1>1, <2>4, <2>5, <2>7 DEF Executors
  <2> QED BY <1>1, <2>2, <2>8, <2>9 DEF Executors
<1>5. ASSUME NEW c \in Calls, Get(c) PROVE Executors'
  <2>1. /\ getter[c] = "running" /\ getter' = [getter EXCEPT ![c] = "done"]
        /\ UNCHANGED <<state, pending>> /\ answer' = [answer EXCEPT ![c] = Head(responses[Worker[c]])]
    BY <1>5 DEF Get
  <2>2. \A d \in Calls : /\ getter'[d] = IF d = c THEN "done" ELSE getter[d]
                         /\ d # c => answer'[d] = answer[d]
    BY <1>1, <2>1
  <2> QED BY <1>1, <2>1, <2>2 DEF Executors
<1>6. ASSUME NEW c \in Calls, Resume(c) PROVE Executors'
  <2>1. /\ getter[c] = "done" /\ state' = [state EXCEPT ![c] = "returned"]
        /\ UNCHANGED <<getter, pending, answer>>
    BY <1>6 DEF Resume
  <2>2. \A d \in Calls : state'[d] = IF d = c THEN "returned" ELSE state[d]
    BY <1>1, <2>1
  <2> QED BY <1>1, <2>1, <2>2 DEF Executors
<1>7. ASSUME NEW c \in Calls, Timeout(c) PROVE Executors'
  <2> DEFINE u == Worker[c]
  <2>1. /\ state[c] = "waiting" /\ state' = [state EXCEPT ![c] = "timed_out"]
        /\ getter' = [getter EXCEPT ![c] = IF @ = "queued" THEN "cancelled" ELSE @]
        /\ pending' = [pending EXCEPT ![u] = RemoveFirst(pending[u], c)] /\ answer' = answer
    BY <1>7 DEF Timeout
  <2>2. u \in Workers /\ pending[u] \in Seq(Calls) /\ Distinct(pending[u])
    BY <1>1 DEF Executors
  <2>3. PICK q : q = RemoveFirst(pending[u], c)
    OBVIOUS
  <2>4. ToSet(q) = ToSet(pending[u]) \ {c} /\ Distinct(q)
    BY <2>2, <2>3, RemoveFirstLeaves
  <2>5. \A w \in Workers : pending'[w] = IF w = u THEN q ELSE pending[w]
    BY <1>1, <2>1, <2>3
  <2>6. \A d \in Calls : /\ d # c => getter'[d] = getter[d] /\ state'[d] = state[d]
                         /\ state'[c] = "timed_out" /\ getter'[c] \in {getter[c], "cancelled"}
    BY <1>1, <2>1
  <2>7. ASSUME NEW w \in Workers
        PROVE  /\ Distinct(pending'[w])
               /\ \A d \in ToSet(pending'[w]) : Worker[d] = w /\ getter'[d] = "queued"
    <3>1. CASE w = u
      BY <1>1, <2>4, <2>5, <2>6, <3>1 DEF Executors
    <3>2. CASE w # u
      BY <1>1, <2>5, <2>6, <3>2 DEF Executors
    <3> QED BY <3>1, <3>2
  <2>8. \A d \in Calls : /\ state'[d] = "new" <=> getter'[d] = "none"
                         /\ state'[d] = "new" => answer'[d] = NoCall
                         /\ state'[d] = "returned" => getter'[d] = "done"
    BY <1>1, <2>1, <2>6 DEF Executors
  <2> QED BY <2>7, <2>8 DEF Executors
<1> QED BY <1>2, <1>3, <1>4, <1>5, <1>6, <1>7
        DEF Next, AdminLoop, TakeCommand, PutResult, Raise, vars

\* Only a new command comes on its way.
LEMMA OutstandingStep ==
    ASSUME Inv, [Next]_vars, \A c \in Calls : ~ Send(c), NEW w \in Workers
    PROVE  Outstanding(w)' \subseteq Outstanding(w)
<1>1. /\ commands \in Seq(Calls) /\ responses \in [Workers -> Seq(Calls)]
      /\ handling \in Calls \cup {NoCall}
  BY DEF Inv, IInv, QueuesTyped
<1>2. CASE UNCHANGED <<commands, handling, responses>>
  BY <1>2 DEF Outstanding, CallsOf
<1>3. CASE TakeCommand
  <2>1. /\ handling' = Head(commands) /\ commands' = Tail(commands) /\ responses' = responses
        /\ commands # <<>>
    BY <1>3 DEF TakeCommand
  <2>2. ToSet(commands) = {Head(commands)} \cup ToSet(Tail(commands))
    BY <1>1, <2>1, TailSet
  <2> QED BY <2>1, <2>2 DEF Outstanding, CallsOf
<1>4. CASE PutResult
  <2>1. /\ handling \in Calls /\ handling' = NoCall /\ commands' = commands
        /\ responses' = [responses EXCEPT ![Worker[handling]] = Append(@, handling)]
    BY <1>1, <1>4 DEF PutResult
  <2>2. ToSet(Append(responses[w], handling)) = ToSet(responses[w]) \cup {handling}
    BY <1>1, <2>1, AppendSet
  <2>3. responses'[w] \in {responses[w], Append(responses[w], handling)}
    BY <1>1, <2>1
  <2>4. \A c \in Calls : c # NoCall
    BY WorkerAssumption
  <2> QED BY <2>1, <2>2, <2>3, <2>4 DEF Outstanding, CallsOf
<1>5. CASE Raise
  <2>1. \A c \in Calls : c # NoCall
    BY WorkerAssumption
  <2> QED BY <1>5, <2>1 DEF Raise, Outstanding, CallsOf
<1>6. ASSUME NEW c \in Calls, Get(c) PROVE Outstanding(w)' \subseteq Outstanding(w)
  <2> DEFINE u == Worker[c]
  <2>1. /\ responses[u] # <<>> /\ u \in Workers /\ responses[u] \in Seq(Calls)
        /\ responses' = [responses EXCEPT ![u] = Tail(responses[u])]
        /\ UNCHANGED <<commands, handling>>
    BY <1>1, <1>6, WorkerAssumption DEF Get
  <2>2. ToSet(responses[u]) = {Head(responses[u])} \cup ToSet(Tail(responses[u]))
    BY <2>1, TailSet
  <2>3. ToSet(responses'[w]) \subseteq ToSet(responses[w])
    BY <1>1, <2>1, <2>2
  <2> QED BY <2>1, <2>3 DEF Outstanding, CallsOf
<1> QED BY <1>2, <1>3, <1>4, <1>5, <1>6 DEF Next, AdminLoop, StartGet, Resume, Timeout, vars

LEMMA SolitaryStep == Inv /\ [Next]_vars => Solitary'
<1> SUFFICES ASSUME Inv, [Next]_vars PROVE Solitary'
  OBVIOUS
<1>1. /\ pending \in [Workers -> Seq(Calls)] /\ Worker \in [Calls -> Workers]
      /\ getter \in [Calls -> {"none", "queued", "running", "done", "cancelled"}]
      /\ state \in [Calls -> {"new", "waiting", "returned", "timed_out"}]
      /\ answer \in [Calls -> Calls \cup {NoCall}]
      /\ responses \in [Workers -> Seq(Calls)] /\ commands \in Seq(Calls)
      /\ alone \subseteq Calls /\ Executors /\ Solitary
  BY WorkerAssumption DEF Inv, GettersTyped, IInv, QueuesTyped
\* A get() that has ended gives no other answer.
<1>2. ASSUME \A c \in Calls : ~ Send(c)
      PROVE  /\ alone' = alone /\ \A c \in Calls : state[c] # "new" => state'[c] # "new"
             /\ \A c \in Calls : getter[c] \in {"done", "cancelled"} => getter'[c] = getter[c]
             /\ \A c \in Calls : answer'[c] = answer[c] \/ Get(c)
  <2>1. ASSUME NEW u \in Workers, StartGet(u) PROVE getter[Head(pending[u])] = "queued"
    <3>1. pending[u] \in Seq(Calls) /\ pending[u] # <<>>
      BY <1>1, <2>1 DEF StartGet
    <3>2. Head(pending[u]) \in ToSet(pending[u])
      BY <3>1, TailSet
    <3> QED BY <1>1, <3>2 DEF Executors
  <2>2. ASSUME NEW u \in Workers, StartGet(u)
        PROVE  /\ UNCHANGED <<alone, state, answer>>
               /\ \A c \in Calls : getter[c] \in {"done", "cancelled"} => getter'[c] = getter[c]
    <3>1. UNCHANGED <<alone, state, answer>> /\ getter' = [getter EXCEPT ![Head(pending[u])] = "running"]
      BY <2>2 DEF StartGet
    <3> QED BY <1>1, <2>1, <2>2, <3>1
  <2>3. ASSUME NEW c \in Calls, Get(c) \/ Resume(c) \/ Timeout(c)
        PROVE  /\ alone' = alone /\ \A d \in Calls : state[d] # "new" => state'[d] # "new"
               /\ \A d \in Calls : getter[d] \in {"done", "cancelled"} => getter'[d] = getter[d]
               /\ \A d \in Calls : answer'[d] = answer[d] \/ (d = c /\ Get(c))
    BY <1>1, <2>3 DEF Get, Resume, Timeout
  <2>4. CASE UNCHANGED <<alone, state, answer, getter>>
    BY <2>4
  <2> QED BY <1>2, <2>2, <2>3, <2>4 DEF Next, AdminLoop, TakeCommand, PutResult, Raise, vars
<1>3. CASE \A c \in Calls : ~ Send(c)
  <2>1. ASSUME NEW c \in alone', getter'[c] \notin {"done", "cancelled"}
        PROVE  Outstanding(Worker[c])' \subseteq {c}
    <3>1. c \in alone /\ c \in Calls /\ Worker[c] \in Workers /\ getter[c] \notin {"done", "cancelled"}
      BY <1>1, <1>2, <1>3, <2>1
    <3>2. PICK w \in Workers : w = Worker[c]
      BY <3>1
    <3>3. Outstanding(w)' \subseteq Outstanding(w) /\ Outstanding(w) \subseteq {c}
      BY <1>1, <1>3, <3>1, <3>2, OutstandingStep DEF Solitary
    <3> QED BY <3>2, <3>3
  <2>2. ASSUME NEW c \in alone, Get(c) PROVE answer'[c] = c
    <3> DEFINE w == Worker[c]
    <3>1. /\ c \in Calls /\ w \in Workers /\ responses[w] \in Seq(Calls) /\ responses[w] # <<>>
          /\ answer'[c] = Head(responses[w]) /\ getter[c] = "running"
      BY <1>1, <2>2 DEF Get
    <3>2. Head(responses[w]) = responses[w][1] /\ 1 \in DOMAIN responses[w] /\ Head(responses[w]) \in Calls
      BY <3>1, TailOf
    <3>3. Worker[responses[w][1]] = w
      BY <3>1, <3>2 DEF Inv, IInv, OnePlace
    <3>4. Head(responses[w]) \in Outstanding(w)
      BY <3>2, <3>3 DEF Outstanding, CallsOf, ToSet
    <3> QED BY <1>1, <3>1, <3>4 DEF Solitary
  <2>3. ASSUME NEW c \in alone' PROVE state'[c] # "new" /\ answer'[c] \in {c, NoCall}
    BY <1>1, <1>2, <1>3, <2>2, <2>3 DEF Solitary
  <2> QED BY <2>1, <2>3 DEF Solitary
<1>4. ASSUME NEW c \in Calls, Send(c) PROVE Solitary'
  <2>1. PICK w \in Workers : w = Worker[c]
    BY <1>1
  <2>2. /\ state[c] = "new" /\ state' = [state EXCEPT ![c] = "waiting"]
        /\ getter' = [getter EXCEPT ![c] = "queued"]
        /\ commands' = Append(commands, c)
        /\ UNCHANGED <<handling, responses, answer>>
        /\ alone' = IF Quiet(w) THEN alone \cup {c}
                    ELSE {d \in alone : Worker[d] = w => state[d] = "returned"}
    BY <1>4, <2>1 DEF Send
  <2>3. ToSet(commands') = ToSet(commands) \cup {c}
    BY <1>1, <2>2, AppendSet
  <2>4. \A v \in Workers : Outstanding(v)' \subseteq Outstanding(v) \cup {c}
    BY <2>2, <2>3 DEF Outstanding, CallsOf
  <2>5. \A v \in Workers : v # w => Outstanding(v)' \subseteq Outstanding(v)
    BY <2>1, <2>2, <2>3 DEF Outstanding, CallsOf
  <2>6. c \notin alone
    BY <1>1, <2>2 DEF Solitary
  <2>7. ASSUME NEW d \in alone', d # c
        PROVE  /\ state'[d] # "new" /\ answer'[d] \in {d, NoCall}
               /\ getter'[d] \notin {"done", "cancelled"} => Outstanding(Worker[d])' \subseteq {d}
    <3>1. /\ d \in alone /\ d \in Calls /\ Worker[d] \in Workers
          /\ state'[d] = state[d] /\ getter'[d] = getter[d] /\ answer'[d] = answer[d]
      BY <1>1, <2>2, <2>7
    <3>2. state[d] # "new" /\ answer[d] \in {d, NoCall}
          /\ (getter[d] \notin {"done", "cancelled"} => Outstanding(Worker[d]) \subseteq {d})
      BY <1>1, <3>1 DEF Solitary
    <3>3. CASE Worker[d] # w
      <4>1. Outstanding(Worker[d])' \subseteq Outstanding(Worker[d])
        <5>1. PICK v \in Workers : v = Worker[d]
          BY <3>1
        <5> QED BY <2>5, <3>3, <5>1
      <4> QED BY <3>1, <3>2, <4>1
    <3>4. CASE Worker[d] = w /\ Quiet(w)
      <4>1. getter[d] \notin {"queued", "running"}
        BY <3>1, <3>4 DEF Quiet, CallsOf
      <4>2. getter[d] \in {"done", "cancelled"}
        BY <1>1, <3>1, <3>2, <4>1 DEF Executors
      <4> QED BY <1>1, <3>1, <3>2, <4>2
    <3>5. CASE Worker[d] = w /\ ~ Quiet(w)
      BY <1>1, <2>2, <2>7, <3>1, <3>2, <3>5 DEF Executors
    <3> QED BY <3>3, <3>4, <3>5
  <2>8. ASSUME c \in alone'
        PROVE  /\ state'[c] # "new" /\ answer'[c] \in {c, NoCall}
               /\ Outstanding(Worker[c])' \subseteq {c}
    <3>1. Quiet(w)
      BY <2>2, <2>6, <2>8
    <3>2. Outstanding(w)' \subseteq {c}
      BY <2>4, <3>1 DEF Quiet
    <3>3. state'[c] = "waiting" /\ answer'[c] = NoCall
      BY <1>1, <2>2 DEF Executors
    <3> QED BY <2>1, <3>2, <3>3
  <2> QED BY <2>7, <2>8 DEF Solitary
<1> QED BY <1>3, <1>4

LEMMA NextInv == Inv /\ [Next]_vars => Inv'
BY PlaceNext, TypesStep, ExecutorsStep, SolitaryStep DEF Inv

LEMMA Invariance == Spec => []Inv
BY InitInv, NextInv, PTL DEF Spec

\* Every part of the state keeps its type (HTTPState._admin_call, _start_admin_loop).
THEOREM AdminTypeCorrect == Spec => []TypeOK
<1>1. Inv => TypeOK
  BY DEF Inv, IInv, QueuesTyped, GettersTyped, TypeOK
<1> QED BY <1>1, Invariance, PTL

\* A call that finds its worker quiet and is not joined by another gets its own result or
\* none, whatever went wrong with earlier calls of the worker (HTTPState._admin_call).
THEOREM UndisturbedCallsMatch == Spec => []SerialCallsMatch
<1>1. Inv => SerialCallsMatch
  BY DEF Inv, Solitary, SerialCallsMatch
<1> QED BY <1>1, Invariance, PTL
================================================================================
