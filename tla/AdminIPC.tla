------------------------------ MODULE AdminIPC ------------------------------
(***************************************************************************)
(* Admin commands from HTTP worker processes to the main process:          *)
(* HTTPState._admin_call (http/state.py) and the admin loop of             *)
(* LightServer._start_admin_loop (core/server.py).                         *)
(*                                                                         *)
(* All workers put commands into one queue; the admin loop handles them    *)
(* one after the other and puts each result into the response queue of the *)
(* worker that asked.  A result does not say which command it belongs to:  *)
(* a thread of the worker's default executor takes whatever comes first.   *)
(***************************************************************************)
EXTENDS Naturals, FiniteSets, Sequences, SequencesExt

CONSTANTS
    Calls,      \* calls of _admin_call, one command each
    Workers,    \* HTTP worker processes
    Worker,     \* the worker a call is made in
    PoolSize,   \* threads of a worker's default executor
    NoCall      \* no call

ASSUME WorkerAssumption == Worker \in [Calls -> Workers] /\ NoCall \notin Calls
ASSUME PoolAssumption == PoolSize \in Nat \ {0}
ASSUME CallsAssumption == IsFiniteSet(Calls)

VARIABLES
    commands,   \* the admin queue
    handling,   \* the command the admin loop is executing
    responses,  \* per worker: its response queue; a result is named for its command
    pending,    \* per worker: work items no executor thread has picked up
    getter,     \* per call: its blocking get() in an executor thread
    state,      \* per call: the coroutine
    answer,     \* per call: the result its get() has returned
    alone       \* history: calls that found their worker quiet and were not joined

vars == <<commands, handling, responses, pending, getter, state, answer, alone>>

-----------------------------------------------------------------------------
CallsOf(w) == {c \in Calls : Worker[c] = w}

Running(w) == {c \in CallsOf(w) : getter[c] = "running"}

\* Commands that have been sent and whose result nobody has taken.
Outstanding(w) ==
    {c \in CallsOf(w) : c = handling \/ c \in ToSet(commands) \/ c \in ToSet(responses[w])}

\* Nothing is on its way to or from the worker, and nothing waits in it.
Quiet(w) ==
    /\ Outstanding(w) = {}
    /\ \A c \in CallsOf(w) : /\ getter[c] \notin {"queued", "running"}
                             /\ state[c] # "waiting"

-----------------------------------------------------------------------------
Init ==
    /\ commands = <<>>
    /\ handling = NoCall
    /\ responses = [w \in Workers |-> <<>>]
    /\ pending = [w \in Workers |-> <<>>]
    /\ getter = [c \in Calls |-> "none"]
    /\ state = [c \in Calls |-> "new"]
    /\ answer = [c \in Calls |-> NoCall]
    /\ alone = {}

\* _admin_call up to its await: the command is put, and response_queue.get is
\* handed to the executor.
Send(c) ==
    LET w == Worker[c] IN
    /\ state[c] = "new"
    /\ state' = [state EXCEPT ![c] = "waiting"]
    /\ commands' = Append(commands, c)
    /\ pending' = [pending EXCEPT ![w] = Append(@, c)]
    /\ getter' = [getter EXCEPT ![c] = "queued"]
    /\ alone' = IF Quiet(w) THEN alone \cup {c}
                ELSE {d \in alone : Worker[d] = w => state[d] = "returned"}
    /\ UNCHANGED <<handling, responses, answer>>

\* A free thread of the executor starts the next get().
StartGet(w) ==
    /\ pending[w] # <<>>
    /\ Cardinality(Running(w)) < PoolSize
    /\ getter' = [getter EXCEPT ![Head(pending[w])] = "running"]
    /\ pending' = [pending EXCEPT ![w] = Tail(@)]
    /\ UNCHANGED <<commands, handling, responses, state, answer, alone>>

\* Variant with a bug: a thread takes a result without removing it.
Get_Peeks(c) ==
    LET w == Worker[c] IN
    /\ getter[c] = "running" /\ responses[w] # <<>>
    /\ getter' = [getter EXCEPT ![c] = "done"]
    /\ answer' = [answer EXCEPT ![c] = Head(responses[w])]
    /\ UNCHANGED <<commands, handling, responses, pending, state, alone>>

\* get() returns the first result in the worker's queue, whoever asked for it
\* and even if its own coroutine has given up.
Get(c) ==
    LET w == Worker[c] IN
    /\ getter[c] = "running" /\ responses[w] # <<>>
    /\ getter' = [getter EXCEPT ![c] = "done"]
    /\ answer' = [answer EXCEPT ![c] = Head(responses[w])]
    /\ responses' = [responses EXCEPT ![w] = Tail(@)]
    /\ UNCHANGED <<commands, handling, pending, state, alone>>

\* The event loop resumes the coroutine with the result.
Resume(c) ==
    /\ state[c] = "waiting" /\ getter[c] = "done"
    /\ state' = [state EXCEPT ![c] = "returned"]
    /\ UNCHANGED <<commands, handling, responses, pending, getter, answer, alone>>

\* Variant with a bug: nothing limits the wait.
Timeout_Never(c) == FALSE /\ UNCHANGED vars

\* wait_for gives up after 60 seconds, also when the result has been taken but
\* the event loop has not seen it.  A get() that has not started is cancelled;
\* one that is running cannot be.
Timeout(c) ==
    LET w == Worker[c] IN
    /\ state[c] = "waiting"
    /\ state' = [state EXCEPT ![c] = "timed_out"]
    /\ getter' = [getter EXCEPT ![c] = IF @ = "queued" THEN "cancelled" ELSE @]
    /\ pending' = [pending EXCEPT ![w] = RemoveFirst(@, c)]
    /\ UNCHANGED <<commands, handling, responses, answer, alone>>

-----------------------------------------------------------------------------
(* The admin loop                                                          *)

TakeCommand ==
    /\ handling = NoCall /\ commands # <<>>
    /\ handling' = Head(commands)
    /\ commands' = Tail(commands)
    /\ UNCHANGED <<responses, pending, getter, state, answer, alone>>

\* Variant with a bug: the result goes to the queue of some worker.
PutResult_AnyQueue ==
    /\ handling # NoCall
    /\ \E w \in Workers : responses' = [responses EXCEPT ![w] = Append(@, handling)]
    /\ handling' = NoCall
    /\ UNCHANGED <<commands, pending, getter, state, answer, alone>>

\* Variant with a bug: the command is forgotten before its result is put.
PutResult_ForgetsFirst ==
    /\ handling # NoCall
    /\ handling' = NoCall
    /\ \E w \in Workers : responses' = [responses EXCEPT ![w] = Append(@, handling')]
    /\ UNCHANGED <<commands, pending, getter, state, answer, alone>>

PutResult ==
    /\ handling # NoCall
    /\ responses' = [responses EXCEPT ![Worker[handling]] = Append(@, handling)]
    /\ handling' = NoCall
    /\ UNCHANGED <<commands, pending, getter, state, answer, alone>>

\* Variant with a bug: a command that has raised is tried again.
Raise_Requeues ==
    /\ handling # NoCall
    /\ handling' = NoCall
    /\ commands' = Append(commands, handling)
    /\ UNCHANGED <<responses, pending, getter, state, answer, alone>>

\* The command raises: the exception is logged and nothing is put.
Raise ==
    /\ handling # NoCall
    /\ handling' = NoCall
    /\ UNCHANGED <<commands, responses, pending, getter, state, answer, alone>>

-----------------------------------------------------------------------------
AdminLoop == TakeCommand \/ PutResult \/ Raise

Next ==
    \/ \E c \in Calls : Send(c) \/ Get(c) \/ Resume(c) \/ Timeout(c)
    \/ \E w \in Workers : StartGet(w)
    \/ AdminLoop

Spec == Init /\ [][Next]_vars

\* The admin loop is a thread of its own whose commands end; event loops fire
\* their timers and resume what is ready.
FairSpec ==
    /\ Spec
    /\ WF_vars(AdminLoop)
    /\ \A c \in Calls : WF_vars(Resume(c) \/ Timeout(c))

-----------------------------------------------------------------------------
(* Properties                                                              *)

TypeOK ==
    /\ commands \in Seq(Calls)
    /\ handling \in Calls \cup {NoCall}
    /\ responses \in [Workers -> Seq(Calls)]
    /\ pending \in [Workers -> Seq(Calls)]
    /\ getter \in [Calls -> {"none", "queued", "running", "done", "cancelled"}]
    /\ state \in [Calls -> {"new", "waiting", "returned", "timed_out"}]
    /\ answer \in [Calls -> Calls \cup {NoCall}]
    /\ alone \subseteq Calls

\* Every result is taken at most once: two calls never get the same one, and
\* one that has been taken is not still in a queue.
ResultTakenOnce ==
    \A c, d \in Calls :
        /\ answer[c] # NoCall /\ c # d => answer[c] # answer[d]
        /\ \A w \in Workers : answer[c] = d => d \notin ToSet(responses[w])

\* A call that finds its worker quiet, and that no other call of the worker
\* joins before it ends, is never given the result of another command.
SerialCallsMatch ==
    \A c \in alone : answer[c] \in {c, NoCall}

\* Again and again the admin loop has executed every command that was sent,
\* whatever happened to the calls that sent them.
CommandsExecuted == []<>(commands = <<>> /\ handling = NoCall)

\* Every admin request is answered or times out: again and again no call waits.
CallsEnd == []<>(\A c \in Calls : state[c] # "waiting")

\* What the routes built on _admin_call assume: the result that a call returns
\* is the result of its own command.
ResultMatches ==
    \A c \in Calls : state[c] = "returned" => answer[c] = c
=============================================================================
