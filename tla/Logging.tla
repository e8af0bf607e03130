-------------------------------- MODULE Logging --------------------------------
(***************************************************************************)
(* Log records from every process to files (logging/queue_handler.py,      *)
(* logging/consumer.py, LightServer._setup_logging and the end of          *)
(* LightServer.shutdown).                                                  *)
(*                                                                         *)
(* A multiprocessing.Queue is a buffer in every process, whose feeder      *)
(* thread takes a lock that all processes share to write to one pipe, and  *)
(* a lock for the readers.  The consumer thread of the main process reads  *)
(* it; in shutdown the main thread reads it too, to drain it.              *)
(***************************************************************************)
EXTENDS Naturals, FiniteSets, Sequences, SequencesExt

CONSTANTS
    Parent,       \* the main process
    Children,   \* HTTP and inference worker processes
    Outputs,    \* handlers of the consumer: info_output, error_output, console
    Strict,     \* those with level ERROR
    MaxLogged,  \* bound: records logged, per process
    PipeSize    \* capacity of the pipe

Processes == Children \cup {Parent}

ASSUME LoggingAssumption ==
    /\ Parent \notin Children /\ Strict \subseteq Outputs /\ PipeSize \in Nat
    /\ MaxLogged \in [Processes -> Nat]

\* A record: its process, its number there, and whether it is an error.
Records == [from : Processes, nr : Nat \ {0}, severe : BOOLEAN]

NoRecord == [from |-> Parent, nr |-> 0, severe |-> FALSE]

\* Part of a record, written by a process that was killed meanwhile.
Torn == [from |-> Parent, nr |-> 0, severe |-> TRUE]

VARIABLES
    logged,     \* per process: its records so far, as they were put
    buffered,   \* per process: buffer of the queue
    writer,     \* processes whose feeder holds the lock of the writers
    pipe,
    living,     \* processes that live
    consumer,   \* the thread: "build", "test", "get", "emit", "stuck", "closed" or "dead"
    got,        \* its record
    built,      \* _handlers
    closer,     \* the main thread: "serve", "drain", "emit", "stuck", "join", "flush" or "done"
    taken,      \* its record
    stopped,    \* _stop_event
    written,    \* per handler: the records emitted
    lost        \* history: records in a killed process, or taken too early

queueVars == <<logged, buffered, writer, pipe, living>>
threadVars == <<consumer, got, built>>
closerVars == <<closer, taken, stopped>>
loggingVars == <<queueVars, threadVars, closerVars, written, lost>>

LoggingInit ==
    /\ logged = [p \in Processes |-> <<>>] /\ buffered = [p \in Processes |-> <<>>]
    /\ writer = {} /\ pipe = <<>> /\ living = Processes
    /\ consumer = "build" /\ got = NoRecord /\ built = {}
    /\ closer = "serve" /\ taken = NoRecord /\ stopped = FALSE
    /\ written = [h \in Outputs |-> <<>>]
    /\ lost = {}

Admits(h, r) == h \in Strict => r.severe

-----------------------------------------------------------------------------
(* Processes that log                                                      *)

\* MPQueueHandler of the root logger: the record goes into the buffer, until in
\* the main process the queue is closed.
Log(p) ==
    /\ p \in living /\ Len(logged[p]) < MaxLogged[p]
    /\ p = Parent => closer \notin {"flush", "done"}
    /\ \E severe \in BOOLEAN :
          LET r == [from |-> p, nr |-> Len(logged[p]) + 1, severe |-> severe] IN
          /\ logged' = [logged EXCEPT ![p] = Append(@, r)]
          /\ buffered' = [buffered EXCEPT ![p] = Append(@, r)]
    /\ UNCHANGED <<writer, pipe, living, threadVars, closerVars, written, lost>>

FeederLocks(p) ==
    /\ p \in living /\ buffered[p] # <<>> /\ writer = {}
    /\ writer' = {p}
    /\ UNCHANGED <<logged, buffered, pipe, living, threadVars, closerVars, written, lost>>

FeederWrites(p) ==
    /\ p \in writer \cap living /\ Len(pipe) < PipeSize
    /\ pipe' = Append(pipe, Head(buffered[p]))
    /\ buffered' = [buffered EXCEPT ![p] = Tail(@)]
    /\ writer' = {}
    /\ UNCHANGED <<logged, living, threadVars, closerVars, written, lost>>

\* A worker process is terminated or crashes.  What it has in its buffer is
\* lost, but a record that its feeder was writing may be in the pipe, or part of
\* it, and the lock stays taken.
Kill(p) ==
    /\ p \in living \cap Children
    /\ living' = living \ {p}
    /\ buffered' = [buffered EXCEPT ![p] = <<>>]
    /\ \/ pipe' = pipe /\ lost' = lost \cup Range(buffered[p])
       \/ /\ p \in writer /\ Len(pipe) < PipeSize
          /\ pipe' = Append(pipe, Head(buffered[p]))
          /\ lost' = lost \cup Range(Tail(buffered[p]))
       \/ /\ p \in writer /\ Len(pipe) < PipeSize
          /\ pipe' = Append(pipe, Torn)
          /\ lost' = lost \cup Range(buffered[p])
    /\ UNCHANGED <<logged, writer, threadVars, closerVars, written>>

-----------------------------------------------------------------------------
(* Reading                                                                 *)

\* queue.get finds a record, and no reader is in the middle of one.
CanGet == pipe # <<>> /\ "stuck" \notin {consumer, closer}

\* for _name, handler in self._handlers: emit.
EmitTo(handlers, r) ==
    written' = [h \in Outputs |->
                  IF h \in handlers /\ Admits(h, r) THEN Append(written[h], r) ELSE written[h]]

\* _run: the handlers are made, each once the last is in the list; one whose
\* file cannot be opened ends the thread.
BuildHandler(h) ==
    /\ consumer = "build" /\ h \notin built
    /\ \/ built' = built \cup {h} /\ UNCHANGED consumer
       \/ consumer' = "dead" /\ UNCHANGED built
    /\ UNCHANGED <<queueVars, got, closerVars, written, lost>>

HandlersBuilt ==
    /\ consumer = "build" /\ built = Outputs
    /\ consumer' = "test"
    /\ UNCHANGED <<queueVars, got, built, closerVars, written, lost>>

\* while not self._stop_event.is_set(), and at the end the files are closed.
TestStop ==
    /\ consumer = "test"
    /\ consumer' = IF stopped THEN "closed" ELSE "get"
    /\ UNCHANGED <<queueVars, got, built, closerVars, written, lost>>

\* A record, or Empty after 0.1 s.  Of a torn record the rest never comes.
ConsumerGets ==
    /\ consumer = "get"
    /\ \/ /\ CanGet
          /\ got' = Head(pipe) /\ pipe' = Tail(pipe)
          /\ consumer' = IF Head(pipe) = Torn THEN "stuck" ELSE "emit"
       \/ /\ ~CanGet
          /\ consumer' = "test" /\ UNCHANGED <<got, pipe>>
    /\ UNCHANGED <<logged, buffered, writer, living, built, closerVars, written, lost>>

ConsumerEmits ==
    /\ consumer = "emit"
    /\ EmitTo(built, got)
    /\ got' = NoRecord /\ consumer' = "test"
    /\ UNCHANGED <<queueVars, built, closerVars, lost>>

-----------------------------------------------------------------------------
(* LogConsumer.stop and the end of shutdown                                *)

\* Variant with a bug: the consumer is told to stop before the queue is drained.
StopLogging_EventFirst ==
    /\ closer = "serve"
    /\ closer' = "drain" /\ stopped' = TRUE
    /\ UNCHANGED <<queueVars, threadVars, taken, written, lost>>

\* stop begins.  (The flush of the handlers before it does nothing: QueueHandler
\* has none.)
StopLogging ==
    /\ closer = "serve"
    /\ closer' = "drain"
    /\ UNCHANGED <<queueVars, threadVars, taken, stopped, written, lost>>

\* The main thread takes records until there is none for 0.1 s; then it stops
\* the consumer.
DrainGets ==
    /\ closer = "drain"
    /\ \/ /\ CanGet
          /\ taken' = Head(pipe) /\ pipe' = Tail(pipe)
          /\ closer' = IF Head(pipe) = Torn THEN "stuck" ELSE "emit"
          /\ UNCHANGED stopped
       \/ /\ ~CanGet
          /\ closer' = "join" /\ stopped' = TRUE
          /\ UNCHANGED <<taken, pipe>>
    /\ UNCHANGED <<logged, buffered, writer, living, threadVars, written, lost>>

\* It emits a record with the handlers that are there.
DrainEmits ==
    /\ closer = "emit"
    /\ EmitTo(built, taken)
    /\ lost' = IF built = Outputs THEN lost ELSE lost \cup {taken}
    /\ taken' = NoRecord /\ closer' = "drain"
    /\ UNCHANGED <<queueVars, threadVars, stopped>>

\* The thread ends within two seconds, or is left alone; the queue is closed.
JoinConsumer ==
    /\ closer = "join"
    /\ closer' = "flush"
    /\ UNCHANGED <<queueVars, threadVars, taken, stopped, written, lost>>

\* join_thread waits for the feeder of the main process.
FlushQueue ==
    /\ closer = "flush" /\ buffered[Parent] = <<>>
    /\ closer' = "done"
    /\ UNCHANGED <<queueVars, threadVars, taken, stopped, written, lost>>

LoggingNext ==
    \/ HandlersBuilt \/ TestStop \/ ConsumerGets \/ ConsumerEmits
    \/ StopLogging \/ DrainGets \/ DrainEmits \/ JoinConsumer \/ FlushQueue
    \/ \E p \in Processes : Log(p) \/ FeederLocks(p) \/ FeederWrites(p) \/ Kill(p)
    \/ \E h \in Outputs : BuildHandler(h)

LoggingSpec == LoggingInit /\ [][LoggingNext]_loggingVars

-----------------------------------------------------------------------------
(* Properties                                                              *)

Taken == Records \cup {NoRecord, Torn}

LoggingTypeOK ==
    /\ logged \in [Processes -> Seq(Records)] /\ buffered \in [Processes -> Seq(Records)]
    /\ Range(pipe) \subseteq Records \cup {Torn} /\ Len(pipe) <= PipeSize
    /\ writer \cup living \subseteq Processes
    /\ consumer \in {"build", "test", "get", "emit", "stuck", "closed", "dead"}
    /\ closer \in {"serve", "drain", "emit", "stuck", "join", "flush", "done"}
    /\ got \in Taken /\ taken \in Taken /\ stopped \in BOOLEAN
    /\ built \subseteq Outputs
    /\ written \in [Outputs -> Seq(Records)]
    /\ lost \subseteq Records

\* Where record r is still on its way.
OnItsWay(r) ==
    \/ r \in Range(buffered[r.from]) \/ r \in Range(pipe)
    \/ consumer = "emit" /\ got = r
    \/ closer = "emit" /\ taken = r

\* Of all records, whatever the two threads that read the queue do to each other:
\* one that is not on its way and was not lost with its process or for want of
\* handlers has been written, by every handler that admits it and by no other,
\* once; those of a process are in order until the main thread drains the queue
\* beside the consumer; and the handlers are not closed while the main thread
\* still uses them (LogConsumer.stop, LogConsumer._run).
RecordsWritten ==
    /\ \A p \in Processes : \A r \in Range(logged[p]) \ lost : \A h \in Outputs :
          LET copies == {i \in DOMAIN written[h] : written[h][i] = r} IN
          Cardinality(copies) = IF Admits(h, r) /\ ~OnItsWay(r) THEN 1 ELSE 0
    /\ closer = "serve" =>
          \A h \in Outputs : \A i, j \in DOMAIN written[h] :
              i < j /\ written[h][i].from = written[h][j].from => written[h][i].nr < written[h][j].nr
    /\ closer \in {"drain", "emit"} => consumer # "closed"
=============================================================================
