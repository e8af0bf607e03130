------------------------------- MODULE Batching -------------------------------
(***************************************************************************)
(* Batched inference: the worker's AdaptiveBatchedLoop (core/loops.py) and *)
(* the shared memory through which large payloads reach it                 *)
(* (core/shm_buffer.py, offloaded by submit_infer).                        *)
(*                                                                         *)
(* Every HTTP process has a ShmPayloadBuffer of its own, which knows the   *)
(* segments that it has created.  The worker unlinks a segment when it has *)
(* read it, and tells nobody; a buffer collects what it created long ago,  *)
(* when something is offloaded; and it collects everything when its        *)
(* process ends.                                                           *)
(***************************************************************************)
EXTENDS Naturals, Sequences, SequencesExt

CONSTANTS
    Requests,
    Large,          \* requests whose payload exceeds the threshold
    Buffers,        \* HTTP processes
    Home,           \* the process that submits a request
    MaxBatch,       \* max_batch_size of the model
    BatchTimeout,   \* is batch_timeout above zero?
    RequestTimeout, \* age at which a request has timed out; 0: never
    GCInterval,     \* gc_interval_seconds
    QueueSize,      \* max_queue_size of the worker's request queue
    MaxTime         \* bound of the clock

ASSUME BatchingAssumption ==
    /\ Large \subseteq Requests
    /\ Home \in [Requests -> Buffers]
    /\ MaxBatch \in Nat \ {0, 1}
    /\ BatchTimeout \in BOOLEAN
    /\ {RequestTimeout, MaxTime} \subseteq Nat
    /\ {GCInterval, QueueSize} \subseteq Nat \ {0}

VARIABLES
    now,        \* time.monotonic()
    queue,      \* request queue of the worker
    stamp,      \* per request: the time at which it was submitted
    byRef,      \* requests queued as a reference to a segment
    segments,   \* shared memory: a segment is named by its request
    created,    \* per buffer: _created_at, the time of each segment it knows
    lastGC,     \* per buffer: _last_gc
    ended,      \* processes that have shut their buffer down
    phase,      \* the worker: position in its loop
    batch,      \* the worker: payloads, as taken from the queue
    late,       \* the worker: timed_out_uids
    restored,   \* the worker: number of payloads of the batch restored
    result      \* per request: "new", "queued", "refused", or its response

shmVars == <<byRef, segments, created, lastGC, ended>>
loopVars == <<phase, batch, late, restored>>
vars == <<now, queue, stamp, shmVars, loopVars, result>>

-----------------------------------------------------------------------------
Init ==
    /\ now = 0
    /\ queue = <<>>
    /\ stamp = [r \in Requests |-> 0]
    /\ byRef = {} /\ segments = {}
    /\ created = [b \in Buffers |-> <<>>]
    /\ lastGC = [b \in Buffers |-> 0]
    /\ ended = {}
    /\ phase = "idle" /\ batch = <<>> /\ late = {} /\ restored = 0
    /\ result = [r \in Requests |-> "new"]

Tick ==
    /\ now < MaxTime
    /\ now' = now + 1
    /\ UNCHANGED <<queue, stamp, shmVars, loopVars, result>>

-----------------------------------------------------------------------------
(* The HTTP process                                                        *)

\* Variant with a bug: the age of a segment is not looked at.
Stale_All(b) ==
    IF now - lastGC[b] < GCInterval THEN {} ELSE DOMAIN created[b]

\* _maybe_gc: what it collects now.
Stale(b) ==
    IF now - lastGC[b] < GCInterval THEN {}
    ELSE {r \in DOMAIN created[b] : now - created[b][r] > GCInterval}

\* offload, for a payload that goes to a segment (shared = {r}) or directly
\* (shared = {}).  It collects stale segments first.
Offload(r, b, shared) ==
    /\ lastGC' = [lastGC EXCEPT ![b] = IF now - @ < GCInterval THEN @ ELSE now]
    /\ segments' = (segments \ Stale(b)) \cup shared
    /\ created' = [created EXCEPT ![b] =
                     [q \in (DOMAIN @ \ Stale(b)) \cup shared |->
                        IF q \in shared THEN now ELSE @[q]]]

\* submit_infer: the payload is offloaded, then the item is queued or refused.
\* A large payload goes directly when there is no shared memory left.
Submit(r) ==
    LET b == Home[r] IN
    /\ result[r] = "new" /\ b \notin ended
    /\ \E shared \in SUBSET ({r} \cap Large) :
          /\ Offload(r, b, shared)
          /\ byRef' = byRef \cup shared
    /\ stamp' = [stamp EXCEPT ![r] = now]
    /\ \/ /\ Len(queue) < QueueSize
          /\ queue' = Append(queue, r)
          /\ result' = [result EXCEPT ![r] = "queued"]
       \/ /\ Len(queue) = QueueSize
          /\ result' = [result EXCEPT ![r] = "refused"]
          /\ UNCHANGED queue
    /\ UNCHANGED <<now, ended, loopVars>>

\* The process ends: its buffer unlinks every segment it knows.
Shutdown(b) ==
    /\ b \notin ended
    /\ ended' = ended \cup {b}
    /\ segments' = segments \ DOMAIN created[b]
    /\ created' = [created EXCEPT ![b] = <<>>]
    /\ UNCHANGED <<now, queue, stamp, byRef, lastGC, loopVars, result>>

-----------------------------------------------------------------------------
(* The worker: get_batch_requests                                          *)

TimedOut(r) == RequestTimeout # 0 /\ now - stamp[r] > RequestTimeout

\* A request is taken from the queue, into the batch or as timed out.
Take ==
    LET r == Head(queue) IN
    /\ queue # <<>>
    /\ queue' = Tail(queue)
    /\ \/ TimedOut(r) /\ late' = late \cup {r} /\ UNCHANGED batch
       \/ ~TimedOut(r) /\ batch' = Append(batch, r) /\ UNCHANGED late
    /\ UNCHANGED <<now, stamp, shmVars, restored, result>>

\* Step 1 blocks until there is a request.
TakeFirst ==
    /\ phase = "idle"
    /\ Take
    /\ phase' = "drain"

\* Step 2 takes what is there.
Drain ==
    /\ phase = "drain" /\ Len(batch) < MaxBatch
    /\ Take
    /\ UNCHANGED phase

\* Step 3: a full batch goes on at once.
Full ==
    /\ phase = "drain" /\ Len(batch) = MaxBatch
    /\ phase' = "restore"
    /\ UNCHANGED <<now, queue, stamp, shmVars, batch, late, restored, result>>

FoundEmpty ==
    /\ phase = "drain" /\ Len(batch) < MaxBatch /\ queue = <<>>
    /\ phase' = "depth"
    /\ UNCHANGED <<now, queue, stamp, shmVars, batch, late, restored, result>>

\* Step 4: more requests are waited for if some have come since the queue was
\* found empty, or if the batch is not a single request.
Decide ==
    /\ phase = "depth"
    /\ phase' = IF BatchTimeout /\ (queue # <<>> \/ Len(batch) # 1) THEN "wait" ELSE "restore"
    /\ UNCHANGED <<now, queue, stamp, shmVars, batch, late, restored, result>>

Await ==
    /\ phase = "wait" /\ Len(batch) < MaxBatch
    /\ Take
    /\ UNCHANGED phase

\* Variant with a bug: only a full batch ends the wait.
Enough_FullOnly ==
    /\ phase = "wait" /\ Len(batch) = MaxBatch
    /\ phase' = "restore"
    /\ UNCHANGED <<now, queue, stamp, shmVars, batch, late, restored, result>>

\* The batch is full or a millisecond or two are over.
Enough ==
    /\ phase = "wait"
    /\ phase' = "restore"
    /\ UNCHANGED <<now, queue, stamp, shmVars, batch, late, restored, result>>

\* Variant with a bug: the payload that has failed is counted as well.
Restore_Miscounts ==
    LET r == batch[restored + 1] IN
    /\ phase = "restore" /\ restored < Len(batch)
    /\ restored' = restored + 2
    /\ segments' = segments \ {r}
    /\ UNCHANGED <<now, queue, stamp, byRef, created, lastGC, ended, phase, batch, late, result>>

\* The payloads are restored one by one; a segment is unlinked when it has been
\* read, if the system allows.  One that is gone raises outside of every try of
\* the loop: the worker ends, with its batch.
Restore ==
    LET r == batch[restored + 1] IN
    /\ phase = "restore" /\ restored < Len(batch)
    /\ \/ /\ r \notin byRef
          /\ restored' = restored + 1
          /\ UNCHANGED <<segments, phase>>
       \/ /\ r \in byRef /\ r \in segments
          /\ segments' \in {segments, segments \ {r}}
          /\ restored' = restored + 1
          /\ UNCHANGED phase
       \/ /\ r \in byRef /\ r \notin segments
          /\ phase' = "dead"
          /\ UNCHANGED <<segments, restored>>
    /\ UNCHANGED <<now, queue, stamp, byRef, created, lastGC, ended, batch, late, result>>

\* The batch is computed, or fails as a whole, and every request of it gets a
\* response; those that have timed out get an error.
Respond ==
    /\ phase = "restore" /\ restored = Len(batch)
    /\ result' = [r \in Requests |-> IF r \in late THEN "timed out"
                                     ELSE IF r \in ToSet(batch) THEN "answered"
                                     ELSE result[r]]
    /\ phase' = "idle" /\ batch' = <<>> /\ late' = {} /\ restored' = 0
    /\ UNCHANGED <<now, queue, stamp, shmVars>>

-----------------------------------------------------------------------------
Worker ==
    \/ TakeFirst \/ Drain \/ Full \/ FoundEmpty \/ Decide \/ Await \/ Enough
    \/ Restore \/ Respond

Next ==
    \/ Tick \/ Worker
    \/ \E r \in Requests : Submit(r)
    \/ \E b \in Buffers : Shutdown(b)

Spec == Init /\ [][Next]_vars

\* The worker process runs; only its wait for a first request has no end.
FairSpec == Spec /\ WF_vars(Worker)

-----------------------------------------------------------------------------
(* Properties                                                              *)

TypeOK ==
    /\ now \in 0 .. MaxTime
    /\ queue \in Seq(Requests) /\ Len(queue) <= QueueSize
    /\ stamp \in [Requests -> 0 .. MaxTime]
    /\ byRef \subseteq Large /\ segments \subseteq byRef
    /\ DOMAIN created = Buffers
    /\ \A b \in Buffers : /\ DOMAIN created[b] \subseteq {r \in byRef : Home[r] = b}
                          /\ \A r \in DOMAIN created[b] : created[b][r] = stamp[r]
    /\ lastGC \in [Buffers -> 0 .. MaxTime]
    /\ ended \subseteq Buffers
    /\ phase \in {"idle", "drain", "depth", "wait", "restore", "dead"}
    /\ batch \in Seq(Requests) /\ Len(batch) <= MaxBatch
    /\ late \subseteq Requests
    /\ restored \in 0 .. Len(batch)
    /\ result \in [Requests -> {"new", "queued", "refused", "answered", "timed out"}]

\* The segment may have been unlinked before its request is served: it is older
\* than the interval of the collection, or its process has ended.
Expired(r) == now - stamp[r] > GCInterval \/ Home[r] \in ended

Taken(r) == r \in ToSet(batch) \cup late

\* Shared memory is accounted for (shm_buffer.py).  The payload of a request that
\* waits in the queue or in a batch is there when the worker comes to read it,
\* for as long as the interval of the collection.  And no segment is left
\* behind: what exists is known to the buffer that will collect it, whoever gave
\* up its request (a full queue, a time-out, a dead worker).
SegmentsAccounted ==
    /\ \A r \in byRef :
        \/ r \in segments \/ Expired(r)
        \/ result[r] # "queued"
        \/ \E i \in 1 .. restored : batch[i] = r
    /\ \A r \in segments : r \in DOMAIN created[Home[r]]

\* Every request that the worker has taken is answered, although its loop
\* waits for others; the one exception is a batch with an expired segment,
\* which the worker loses with itself.
TakenAnswered ==
    \A r \in Requests :
        Taken(r) ~> (result[r] # "queued" \/ (phase = "dead" /\ Expired(batch[restored + 1])))
=============================================================================
