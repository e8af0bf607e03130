---------------------------- MODULE Batching_proofs ----------------------------
(***************************************************************************)
(* Proofs about Batching, for any requests, HTTP processes, batch size,    *)
(* queue size and times.                                                   *)
(***************************************************************************)
EXTENDS Batching, SequenceTheorems, TLAPS

\* What SegmentsAccounted needs besides the types: a request that has not been
\* submitted has no segment, and the worker begins each batch with an empty one.
Fresh ==
    /\ \A r \in byRef : result[r] # "new"
    /\ phase = "idle" => batch = <<>> /\ restored = 0

IInv == TypeOK /\ Fresh /\ SegmentsAccounted

-----------------------------------------------------------------------------
(* Helpers                                                                 *)

LEMMA TailTyped ==
    ASSUME NEW S, NEW q \in Seq(S), q # <<>>
    PROVE  Head(q) \in S /\ Tail(q) \in Seq(S) /\ Len(Tail(q)) = Len(q) - 1
BY HeadTailProperties

LEMMA AppendTyped ==
    ASSUME NEW S, NEW q \in Seq(S), NEW e \in S
    PROVE  /\ Append(q, e) \in Seq(S) /\ Len(Append(q, e)) = Len(q) + 1
           /\ \A i \in 1 .. Len(q) : Append(q, e)[i] = q[i]
BY AppendProperties

\* What a collection unlinks has expired.
LEMMA StaleExpired ==
    ASSUME TypeOK, NEW b \in Buffers, NEW r \in Stale(b)
    PROVE  r \in byRef /\ Home[r] = b /\ r \in DOMAIN created[b] /\ Expired(r)
<1>1. r \in DOMAIN created[b] /\ now - created[b][r] > GCInterval
  BY DEF Stale
<1> QED BY <1>1 DEF TypeOK, Expired

-----------------------------------------------------------------------------
(* The steps of the HTTP processes                                         *)

LEMMA TypeInit == Init => TypeOK
<1> SUFFICES ASSUME Init PROVE TypeOK
  OBVIOUS
<1>1. queue \in Seq(Requests) /\ Len(queue) = 0 /\ batch \in Seq(Requests) /\ Len(batch) = 0
  BY DEF Init
<1>2. \A b \in Buffers : DOMAIN created[b] = {}
  BY DEF Init
<1> QED BY <1>1, <1>2, BatchingAssumption DEF Init, TypeOK

LEMMA InitIInv == Init => IInv
BY TypeInit DEF Init, IInv, Fresh, SegmentsAccounted

LEMMA SubmitIInv == ASSUME IInv, NEW r \in Requests, Submit(r) PROVE IInv'
<1> DEFINE b == Home[r]
<1>1. b \in Buffers /\ result[r] = "new" /\ r \notin byRef
  BY BatchingAssumption DEF Submit, IInv, Fresh
<1>2. PICK shared \in SUBSET ({r} \cap Large) :
          Offload(r, b, shared) /\ byRef' = byRef \cup shared
  BY DEF Submit
<1>3. /\ stamp' = [stamp EXCEPT ![r] = now]
      /\ \/ /\ Len(queue) < QueueSize /\ queue' = Append(queue, r)
            /\ result' = [result EXCEPT ![r] = "queued"]
         \/ queue' = queue /\ result' = [result EXCEPT ![r] = "refused"]
      /\ now' = now /\ ended' = ended
      /\ phase' = phase /\ batch' = batch /\ late' = late /\ restored' = restored
  BY DEF Submit, loopVars
<1>4. /\ segments' = (segments \ Stale(b)) \cup shared
      /\ lastGC' = [lastGC EXCEPT ![b] = IF now - @ < GCInterval THEN @ ELSE now]
      /\ \A a \in Buffers : a # b => created'[a] = created[a]
      /\ DOMAIN created'[b] = (DOMAIN created[b] \ Stale(b)) \cup shared
      /\ \A q \in DOMAIN created'[b] :
             created'[b][q] = IF q \in shared THEN now ELSE created[b][q]
      /\ DOMAIN created' = Buffers
  BY <1>1, <1>2 DEF Offload, IInv, TypeOK
<1>5. TypeOK'
  <2>1. queue' \in Seq(Requests) /\ Len(queue') <= QueueSize
    <3>1. /\ queue \in Seq(Requests) /\ Len(queue) <= QueueSize /\ Len(queue) \in Nat
          /\ QueueSize \in Nat
      <4>1. queue \in Seq(Requests) /\ Len(queue) <= QueueSize
        BY DEF IInv, TypeOK
      <4>2. QueueSize \in Nat
        BY BatchingAssumption
      <4> QED BY <4>1, <4>2, LenProperties
    <3>2. Append(queue, r) \in Seq(Requests) /\ Len(Append(queue, r)) = Len(queue) + 1
      BY <3>1, AppendTyped
    <3> QED BY <1>3, <3>1, <3>2
  <2>2. /\ now' \in 0 .. MaxTime /\ stamp' \in [Requests -> 0 .. MaxTime]
        /\ result' \in [Requests -> {"new", "queued", "refused", "answered", "timed out"}]
    BY <1>3 DEF IInv, TypeOK
  <2>3. lastGC' \in [Buffers -> 0 .. MaxTime]
    BY <1>1, <1>4 DEF IInv, TypeOK
  <2>4. byRef' \subseteq Large /\ segments' \subseteq byRef'
    BY <1>2, <1>4 DEF IInv, TypeOK
  <2>5. ASSUME NEW a \in Buffers
        PROVE  /\ DOMAIN created'[a] \subseteq {q \in byRef' : Home[q] = a}
               /\ \A q \in DOMAIN created'[a] : created'[a][q] = stamp'[q]
    <3>1. /\ DOMAIN created[a] \subseteq {q \in byRef : Home[q] = a}
          /\ \A q \in DOMAIN created[a] : created[a][q] = stamp[q]
      BY DEF IInv, TypeOK
    <3>2. \A q \in byRef : q # r /\ q \in Requests /\ stamp'[q] = stamp[q]
      BY <1>1, <1>3, BatchingAssumption DEF IInv, TypeOK
    <3>3. stamp'[r] = now
      BY <1>3 DEF IInv, TypeOK
    <3>4. CASE a # b
      BY <1>2, <1>4, <3>1, <3>2, <3>4
    <3>5. CASE a = b
      BY <1>2, <1>4, <3>1, <3>2, <3>3, <3>5
    <3> QED BY <3>4, <3>5
  <2>6. /\ ended' \subseteq Buffers
        /\ phase' \in {"idle", "drain", "depth", "wait", "restore", "dead"}
        /\ batch' \in Seq(Requests) /\ Len(batch') <= MaxBatch
        /\ late' \subseteq Requests /\ restored' \in 0 .. Len(batch')
    BY <1>3 DEF IInv, TypeOK
  <2> QED BY <1>4, <2>1, <2>2, <2>3, <2>4, <2>5, <2>6 DEF TypeOK
<1>6. \A q \in byRef' : result'[q] # "new"
  <2>1. result'[r] # "new"
    BY <1>3 DEF IInv, TypeOK
  <2>2. \A q \in Requests : q # r => result'[q] = result[q]
    BY <1>3 DEF IInv, TypeOK
  <2>3. \A q \in byRef' : q \in Requests /\ (q = r \/ q \in byRef)
    BY <1>2, BatchingAssumption DEF IInv, TypeOK
  <2> QED BY <2>1, <2>2, <2>3 DEF IInv, Fresh
<1>7. Fresh'
  BY <1>3, <1>6 DEF IInv, Fresh
<1>8. ASSUME NEW q \in byRef', q \notin segments', ~ Expired(q)'
      PROVE  \/ result'[q] # "queued"
             \/ \E i \in 1 .. restored' : batch'[i] = q
  <2>1. q \in byRef /\ q # r /\ q \in Requests
    <3>1. q \in byRef
      BY <1>2, <1>4, <1>8
    <3>2. byRef \subseteq Requests
      BY BatchingAssumption DEF IInv, TypeOK
    <3> QED BY <1>1, <3>1, <3>2
  <2>2. ~ Expired(q)
    BY <1>3, <1>8, <2>1 DEF Expired, IInv, TypeOK
  <2>3. q \notin segments
    BY <1>1, <1>4, <1>8, <2>2, StaleExpired DEF IInv
  <2>4. result'[q] = result[q]
    BY <1>3, <2>1 DEF IInv, TypeOK
  <2> QED BY <1>3, <2>1, <2>2, <2>3, <2>4 DEF IInv, SegmentsAccounted
<1>9. ASSUME NEW q \in segments' PROVE q \in DOMAIN created'[Home[q]]
  <2>1. CASE q \in shared
    BY <1>1, <1>2, <1>4, <2>1
  <2>2. CASE q \in segments /\ q \notin Stale(b)
    <3>1. q \in DOMAIN created[Home[q]] /\ Home[q] \in Buffers
      BY <2>2, BatchingAssumption DEF IInv, SegmentsAccounted, TypeOK
    <3> QED BY <1>4, <2>2, <3>1
  <2> QED BY <1>4, <2>1, <2>2
<1> QED BY <1>5, <1>7, <1>8, <1>9 DEF IInv, SegmentsAccounted

LEMMA ShutdownIInv == ASSUME IInv, NEW b \in Buffers, Shutdown(b) PROVE IInv'
<1>1. /\ ended' = ended \cup {b}
      /\ segments' = segments \ DOMAIN created[b]
      /\ \A a \in Buffers : a # b => created'[a] = created[a]
      /\ DOMAIN created'[b] = {} /\ DOMAIN created' = Buffers
      /\ UNCHANGED <<now, queue, stamp, byRef, lastGC, loopVars, result>>
  <2>1. /\ created' = [created EXCEPT ![b] = <<>>]
        /\ DOMAIN created = Buffers
    BY DEF Shutdown, IInv, TypeOK
  <2>2. DOMAIN created' = Buffers /\ created'[b] = <<>>
    BY <2>1
  <2>3. DOMAIN created'[b] = {}
    <3>1. \A q : q = <<>> => DOMAIN q = {}
      OBVIOUS
    <3> QED BY <2>2, <3>1
  <2> QED BY <2>1, <2>2, <2>3 DEF Shutdown
<1>2. TypeOK'
  <2>1. ASSUME NEW a \in Buffers
        PROVE  /\ DOMAIN created'[a] \subseteq {q \in byRef' : Home[q] = a}
               /\ \A q \in DOMAIN created'[a] : created'[a][q] = stamp'[q]
    <3>1. CASE a = b
      BY <1>1, <3>1
    <3>2. CASE a # b
      <4>1. created'[a] = created[a] /\ byRef' = byRef /\ stamp' = stamp
        BY <1>1, <3>2
      <4>2. /\ DOMAIN created[a] \subseteq {q \in byRef : Home[q] = a}
            /\ \A q \in DOMAIN created[a] : created[a][q] = stamp[q]
        BY DEF IInv, TypeOK
      <4> QED BY <4>1, <4>2
    <3> QED BY <3>1, <3>2
  <2>2. segments' \subseteq byRef' /\ ended' \subseteq Buffers
    BY <1>1 DEF IInv, TypeOK
  <2> QED BY <1>1, <2>1, <2>2 DEF IInv, TypeOK, loopVars
<1>3. Fresh'
  BY <1>1 DEF IInv, Fresh, loopVars
<1>4. ASSUME NEW q \in byRef', q \notin segments', ~ Expired(q)'
      PROVE  \/ result'[q] # "queued"
             \/ \E i \in 1 .. restored' : batch'[i] = q
  <2>1. q \in byRef /\ Home[q] # b /\ ~ Expired(q)
    BY <1>1, <1>4 DEF Expired
  <2>2. q \notin segments
    BY <1>1, <1>4, <2>1 DEF IInv, TypeOK
  <2> QED BY <1>1, <2>1, <2>2 DEF IInv, SegmentsAccounted, loopVars
<1>5. ASSUME NEW q \in segments' PROVE q \in DOMAIN created'[Home[q]]
  <2>1. q \in DOMAIN created[Home[q]] /\ q \notin DOMAIN created[b] /\ Home[q] \in Buffers
    BY <1>1, <1>5, BatchingAssumption DEF IInv, SegmentsAccounted, TypeOK
  <2> QED BY <1>1, <2>1
<1> QED BY <1>2, <1>3, <1>4, <1>5 DEF IInv, SegmentsAccounted

LEMMA TickIInv == IInv /\ Tick => IInv'
<1> SUFFICES ASSUME IInv, Tick PROVE IInv'
  OBVIOUS
<1>1. /\ now \in 0 .. MaxTime /\ now < MaxTime /\ now' = now + 1 /\ MaxTime \in Nat
      /\ UNCHANGED <<queue, stamp, shmVars, loopVars, result>>
  BY BatchingAssumption DEF Tick, IInv, TypeOK
<1>2. TypeOK'
  <2>1. now' \in 0 .. MaxTime
    BY <1>1
  <2> QED BY <1>1, <2>1 DEF IInv, TypeOK, shmVars, loopVars
<1>3. Fresh'
  BY <1>1 DEF IInv, Fresh, shmVars, loopVars
<1>4. ASSUME NEW q \in byRef, Expired(q) PROVE Expired(q)'
  <2>1. stamp[q] \in Nat /\ GCInterval \in Nat /\ stamp' = stamp /\ ended' = ended
    <3>1. GCInterval \in Nat
      BY BatchingAssumption
    <3>2. stamp[q] \in 0 .. MaxTime
      <4>1. q \in Requests
        BY BatchingAssumption DEF IInv, TypeOK
      <4> QED BY <4>1 DEF IInv, TypeOK
    <3> QED BY <1>1, <3>1, <3>2 DEF shmVars
  <2> QED BY <1>1, <1>4, <2>1 DEF Expired
<1>5. SegmentsAccounted'
  BY <1>1, <1>4 DEF IInv, SegmentsAccounted, shmVars, loopVars
<1> QED BY <1>2, <1>3, <1>5 DEF IInv

-----------------------------------------------------------------------------
(* The steps of the worker                                                 *)

\* The worker leaves the clock, and the memory of the buffers, alone.
LEMMA WorkerExpired ==
    ASSUME UNCHANGED <<now, stamp, ended>>, NEW q
    PROVE  Expired(q)' <=> Expired(q)
BY DEF Expired

\* Take lengthens a batch that is not full, behind what has been restored.
LEMMA TakeIInv ==
    ASSUME IInv, Take, Len(batch) < MaxBatch, phase' \in {"drain", "wait"}
    PROVE  IInv'
<1>1. /\ queue \in Seq(Requests) /\ queue # <<>> /\ queue' = Tail(queue)
      /\ \/ late' = late \cup {Head(queue)} /\ batch' = batch
         \/ batch' = Append(batch, Head(queue)) /\ late' = late
      /\ UNCHANGED <<now, stamp, shmVars, restored, result>>
      /\ batch \in Seq(Requests) /\ restored \in 0 .. Len(batch)
  BY DEF Take, IInv, TypeOK
<1>2. Head(queue) \in Requests /\ queue' \in Seq(Requests) /\ Len(queue') <= QueueSize
  <2>1. Len(queue) <= QueueSize /\ QueueSize \in Nat /\ Len(queue) \in Nat
    <3>1. QueueSize \in Nat
      BY BatchingAssumption
    <3>2. Len(queue) <= QueueSize
      BY DEF IInv, TypeOK
    <3> QED BY <1>1, <3>1, <3>2, LenProperties
  <2> QED BY <1>1, <2>1, TailTyped
<1>3. /\ batch' \in Seq(Requests) /\ Len(batch') <= MaxBatch /\ restored' \in 0 .. Len(batch')
      /\ \A i \in 1 .. restored : batch'[i] = batch[i]
  <2>1. Len(batch) \in Nat /\ MaxBatch \in Nat
    BY <1>1, BatchingAssumption
  <2>2. Append(batch, Head(queue)) \in Seq(Requests)
        /\ Len(Append(batch, Head(queue))) = Len(batch) + 1
        /\ \A i \in 1 .. Len(batch) : Append(batch, Head(queue))[i] = batch[i]
    BY <1>1, <1>2, AppendTyped
  <2>3. restored \in Nat /\ restored <= Len(batch) /\ restored' = restored
    BY <1>1, <2>1
  <2>4. CASE batch' = batch
    BY <1>1, <2>1, <2>3, <2>4 DEF IInv, TypeOK
  <2>5. CASE batch' = Append(batch, Head(queue))
    <3>1. batch' \in Seq(Requests) /\ Len(batch') = Len(batch) + 1
      BY <2>2, <2>5
    <3>2. Len(batch') <= MaxBatch /\ restored' \in 0 .. Len(batch')
      BY <2>1, <2>3, <3>1
    <3>3. \A i \in 1 .. restored : batch'[i] = batch[i]
      BY <2>1, <2>2, <2>3, <2>5
    <3> QED BY <3>1, <3>2, <3>3
  <2> QED BY <1>1, <2>4, <2>5
<1>4. TypeOK'
  <2>1. late' \subseteq Requests
    <3>1. late \subseteq Requests
      BY DEF IInv, TypeOK
    <3> QED BY <1>1, <1>2, <3>1
  <2> QED BY <1>1, <1>2, <1>3, <2>1 DEF IInv, TypeOK, shmVars
<1>5. Fresh'
  BY <1>1 DEF IInv, Fresh, shmVars
<1>6. SegmentsAccounted'
  <2>1. \A q : Expired(q)' <=> Expired(q)
    BY <1>1, WorkerExpired DEF shmVars
  <2> QED BY <1>1, <1>3, <2>1 DEF IInv, SegmentsAccounted, shmVars
<1> QED BY <1>4, <1>5, <1>6 DEF IInv

\* A step that only moves the worker on, not back to the start.
LEMMA PhaseIInv ==
    ASSUME IInv, phase' \in {"depth", "wait", "restore"},
           UNCHANGED <<now, queue, stamp, shmVars, batch, late, restored, result>>
    PROVE  IInv'
<1>1. TypeOK' /\ Fresh'
  BY DEF IInv, TypeOK, Fresh, shmVars
<1>2. SegmentsAccounted'
  BY WorkerExpired DEF IInv, SegmentsAccounted, shmVars
<1> QED BY <1>1, <1>2 DEF IInv

LEMMA RestoreIInv == IInv /\ Restore => IInv'
<1> SUFFICES ASSUME IInv, Restore PROVE IInv'
  OBVIOUS
<1> DEFINE r == batch[restored + 1]
<1>1. /\ phase = "restore" /\ restored < Len(batch) /\ restored \in Nat /\ Len(batch) \in Nat
      /\ UNCHANGED <<now, queue, stamp, byRef, created, lastGC, ended, batch, late, result>>
      /\ \/ segments' = segments /\ phase' = "dead" /\ restored' = restored
         \/ /\ segments' \in {segments, segments \ {r}} /\ phase' = phase
            /\ restored' = restored + 1
  <2>1. batch \in Seq(Requests) /\ restored \in 0 .. Len(batch)
    BY DEF IInv, TypeOK
  <2> QED BY <2>1, LenProperties DEF Restore
<1>2. TypeOK'
  <2>1. restored' \in 0 .. Len(batch') /\ phase' \in {"restore", "dead"}
    BY <1>1
  <2>2. segments' \subseteq byRef'
    BY <1>1 DEF IInv, TypeOK
  <2> QED BY <1>1, <2>1, <2>2 DEF IInv, TypeOK
<1>3. Fresh'
  BY <1>1 DEF IInv, Fresh
<1>4. ASSUME NEW q \in byRef', q \notin segments', ~ Expired(q)'
      PROVE  \/ result'[q] # "queued"
             \/ \E i \in 1 .. restored' : batch'[i] = q
  <2>1. q \in byRef /\ ~ Expired(q)
    BY <1>1, <1>4, WorkerExpired
  <2>2. CASE q \in segments
    <3>1. q = r /\ restored' = restored + 1
      BY <1>1, <1>4, <2>2
    <3>2. restored + 1 \in 1 .. restored'
      BY <1>1, <3>1
    <3> QED BY <1>1, <3>1, <3>2
  <2>3. CASE q \notin segments
    <3>1. result[q] # "queued" \/ \E i \in 1 .. restored : batch[i] = q
      BY <2>1, <2>3 DEF IInv, SegmentsAccounted
    <3>2. 1 .. restored \subseteq 1 .. restored'
      BY <1>1
    <3> QED BY <1>1, <3>1, <3>2
  <2> QED BY <2>2, <2>3
<1>5. ASSUME NEW q \in segments' PROVE q \in DOMAIN created'[Home[q]]
  BY <1>1, <1>5 DEF IInv, SegmentsAccounted
<1> QED BY <1>2, <1>3, <1>4, <1>5 DEF IInv, SegmentsAccounted

LEMMA RespondIInv == IInv /\ Respond => IInv'
<1> SUFFICES ASSUME IInv, Respond PROVE IInv'
  OBVIOUS
<1>1. /\ restored = Len(batch) /\ batch \in Seq(Requests)
      /\ result' = [r \in Requests |-> IF r \in late THEN "timed out"
                                       ELSE IF r \in ToSet(batch) THEN "answered"
                                       ELSE result[r]]
      /\ phase' = "idle" /\ batch' = <<>> /\ late' = {} /\ restored' = 0
      /\ UNCHANGED <<now, queue, stamp, shmVars>>
  BY DEF Respond, IInv, TypeOK
<1>2. /\ batch' \in Seq(Requests) /\ Len(batch') <= MaxBatch /\ restored' \in 0 .. Len(batch')
  <2>1. MaxBatch \in Nat /\ Len(batch') = 0
    BY <1>1, BatchingAssumption
  <2>2. 0 \in 0 .. 0 /\ <<>> \in Seq(Requests) /\ 0 <= MaxBatch
    BY <2>1
  <2> QED BY <1>1, <2>1, <2>2
<1>3. result' \in [Requests -> {"new", "queued", "refused", "answered", "timed out"}]
  BY <1>1 DEF IInv, TypeOK
<1>4. TypeOK'
  BY <1>1, <1>2, <1>3 DEF IInv, TypeOK, shmVars
<1>5. \A q \in byRef : q \in Requests
  BY BatchingAssumption DEF IInv, TypeOK
<1>6. Fresh'
  BY <1>1, <1>5 DEF IInv, Fresh, shmVars
<1>7. ASSUME NEW q \in byRef', q \notin segments', ~ Expired(q)'
      PROVE  result'[q] # "queued"
  <2>1. q \in byRef /\ ~ Expired(q) /\ q \notin segments /\ q \in Requests
    BY <1>1, <1>5, <1>7, WorkerExpired DEF shmVars
  <2>2. CASE result[q] # "queued"
    BY <1>1, <2>1, <2>2
  <2>3. CASE \E i \in 1 .. restored : batch[i] = q
    <3>1. q \in ToSet(batch)
      <4>1. DOMAIN batch = 1 .. restored
        BY <1>1, LenProperties
      <4> QED BY <2>3, <4>1 DEF ToSet
    <3> QED BY <1>1, <2>1, <3>1
  <2> QED BY <2>1, <2>2, <2>3 DEF IInv, SegmentsAccounted
<1>8. ASSUME NEW q \in segments' PROVE q \in DOMAIN created'[Home[q]]
  BY <1>1, <1>8 DEF IInv, SegmentsAccounted, shmVars
<1> QED BY <1>4, <1>6, <1>7, <1>8 DEF IInv, SegmentsAccounted

-----------------------------------------------------------------------------
LEMMA NextIInv == IInv /\ [Next]_vars => IInv'
<1> SUFFICES ASSUME IInv, [Next]_vars PROVE IInv'
  OBVIOUS
<1>1. ASSUME TakeFirst \/ Drain \/ Await PROVE IInv'
  <2>1. Take /\ phase' \in {"drain", "wait"}
    BY <1>1 DEF TakeFirst, Drain, Await
  <2>2. Len(batch) < MaxBatch
    <3>1. CASE TakeFirst
      <4>1. batch = <<>> /\ Len(<<>>) = 0
        BY <3>1 DEF TakeFirst, IInv, Fresh
      <4>2. 0 < MaxBatch
        BY BatchingAssumption
      <4> QED BY <4>1, <4>2
    <3> QED BY <1>1, <3>1 DEF Drain, Await
  <2> QED BY <2>1, <2>2, TakeIInv
<1>2. ASSUME Full \/ FoundEmpty \/ Decide \/ Enough PROVE IInv'
  BY <1>2, PhaseIInv DEF Full, FoundEmpty, Decide, Enough
<1>3. CASE UNCHANGED vars
  <2>1. TypeOK' /\ Fresh'
    BY <1>3 DEF IInv, TypeOK, Fresh, vars, shmVars, loopVars
  <2>2. SegmentsAccounted'
    BY <1>3, WorkerExpired DEF IInv, SegmentsAccounted, vars, shmVars, loopVars
  <2> QED BY <2>1, <2>2 DEF IInv
<1> QED BY <1>1, <1>2, <1>3, TickIInv, SubmitIInv, ShutdownIInv, RestoreIInv, RespondIInv
        DEF Next, Worker

\* Every state is well typed: the queue and the batch keep their limits, and a buffer
\* knows only segments that are its own, with the time at which they were made.
THEOREM BatchingTypeCorrect == Spec => []TypeOK
<1>1. IInv => TypeOK
  BY DEF IInv
<1> QED BY <1>1, InitIInv, NextIInv, PTL DEF Spec

\* The payload of a request that waits is there when the worker reads it, unless it
\* has expired, and no segment is left that no buffer will collect, whatever became
\* of its request (ShmPayloadBuffer, submit_infer, AdaptiveBatchedLoop).
THEOREM SegmentsNeverLeak == Spec => []SegmentsAccounted
<1>1. IInv => SegmentsAccounted
  BY DEF IInv
<1> QED BY <1>1, InitIInv, NextIInv, PTL DEF Spec
================================================================================
