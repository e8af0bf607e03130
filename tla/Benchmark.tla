------------------------------ MODULE Benchmark ------------------------------
(***************************************************************************)
(* Load generation (analyzer/benchmark.py): the two benchmark engines, for *)
(* requests and for streams, in fixed and in ramp mode.  Coroutines of one *)
(* event loop call a target over and over; the engine sleeps, adds workers *)
(* or cancels them, stops them, and builds the result.                     *)
(*                                                                         *)
(* A coroutine runs from one await to the next.  The asyncio.Lock of the   *)
(* ramp mode is never held across one, and changes nothing.                *)
(***************************************************************************)
EXTENDS Naturals, FiniteSets, Sequences, Functions

CONSTANTS
    Plans,      \* what the engine is called with, see PlanType
    Warmups,    \* warmup_requests
    MaxChunks,  \* bound: chunks that a stream receives
    MaxClock    \* bound of the clock, in steps of the ramp mode

\* duration: in steps.  concurrency may exceed max, the maximum for ramps.
PlanType == [mode : {"fixed", "ramp"}, streaming : BOOLEAN,
             concurrency : Nat, max : Nat, duration : Nat]

Larger(a, b) == IF a > b THEN a ELSE b
Smaller(a, b) == IF a < b THEN a ELSE b

ASSUME BenchmarkAssumption ==
    Plans \subseteq PlanType /\ {Warmups, MaxChunks, MaxClock} \subseteq Nat

VARIABLES
    plan,       \* arguments of the engine
    engine,     \* "warmup", "sleep", "gather" or "done"
    warm,       \* warm-up requests still to be made
    clock,      \* time since the measurement began
    wake,       \* the time at which the engine has slept enough
    step,       \* steps of the ramp
    size,       \* the list of tasks: workers 1 .. size
    worker,     \* per worker: its position
    began,      \* per worker: start of its call
    doomed,     \* workers that have been cancelled
    stop,       \* stop_event
    latencies,  \* of the calls that have succeeded
    failed,     \* fail_count
    chunks,     \* chunks that successful streams have received
    calls,      \* history: calls begun
    aborted,    \* history: workers cancelled in a call
    report      \* the result

planVars == <<plan, warm, engine, wake, step, size, doomed, stop>>
countVars == <<latencies, failed, chunks, calls, aborted>>
benchmarkVars == <<planVars, clock, worker, began, countVars, report>>

Crowd == UNION {1 .. Larger(p.concurrency, p.max) : p \in Plans}

NoReport == [total |-> 0, throughput |-> <<0, 1>>, quantiles |-> <<>>, chunks |-> 0]

BenchmarkInit ==
    /\ plan \in Plans
    /\ engine = "warmup" /\ warm = Warmups
    /\ clock = 0 /\ wake = 0 /\ step = 0
    /\ size = 0
    /\ worker = [w \in Crowd |-> "unborn"] /\ began = [w \in Crowd |-> 0]
    /\ doomed = {} /\ stop = FALSE
    /\ latencies = <<>> /\ failed = 0 /\ chunks = 0 /\ calls = 0 /\ aborted = {}
    /\ report = NoReport

Pass ==
    /\ clock < MaxClock /\ engine \notin {"warmup", "done"}
    /\ clock' = clock + 1
    /\ UNCHANGED <<planVars, worker, began, countVars, report>>

-----------------------------------------------------------------------------
(* The result                                                              *)

\* _percentile of a sorted, non-empty list, times 1000: p is in thousandths.
Percentile(sorted, p) ==
    LET k == (Len(sorted) - 1) * p
        f == k \div 1000
        c == Smaller(f + 1, Len(sorted) - 1)
    IN IF f = c THEN 1000 * sorted[f + 1]
       ELSE sorted[f + 1] * (1000 * c - k) + sorted[c + 1] * (k - 1000 * f)

\* sorted: at k, the value of which fewer than k are smaller, and at least k no larger.
Sorted(s) ==
    LET upTo(x) == Cardinality({i \in DOMAIN s : s[i] <= x})
    IN [k \in DOMAIN s |-> CHOOSE x \in Range(s) : upTo(x - 1) < k /\ k <= upTo(x)]

\* min, p50, p90, p99, p99.9 and max.
Quantiles(sorted) ==
    IF sorted = <<>> THEN <<>>
    ELSE <<1000 * sorted[1], Percentile(sorted, 500), Percentile(sorted, 900),
           Percentile(sorted, 990), Percentile(sorted, 999), 1000 * sorted[Len(sorted)]>>

\* The result of a run of the given duration, throughput as a fraction.
BuildResult(duration) ==
    [total |-> Len(latencies) + failed,
     throughput |-> <<Len(latencies), duration>>,
     quantiles |-> Quantiles(Sorted(latencies)),
     chunks |-> 0]

\* Streams: latencies do not apply; time-outs between tokens are left out.
BuildStreamingResult(duration) ==
    [total |-> Len(latencies) + failed,
     throughput |-> <<Len(latencies), duration>>,
     quantiles |-> <<>>,
     chunks |-> chunks]

-----------------------------------------------------------------------------
(* The engine                                                              *)

\* A warm-up request succeeds or fails.
Warmup ==
    /\ engine = "warmup" /\ warm > 0
    /\ warm' = warm - 1
    /\ UNCHANGED <<plan, engine, wake, step, size, doomed, stop, clock, worker, began,
                   countVars, report>>

\* Workers are started or, the last first, cancelled until there are n.
Resize(n) ==
    /\ size' = n
    /\ worker' = [w \in Crowd |-> IF w \in (size + 1) .. n THEN "loop" ELSE worker[w]]
    /\ doomed' = doomed \cup ((n + 1) .. size)

\* The engine sleeps.
Sleep(ticks) ==
    /\ engine' = "sleep"
    /\ wake' = clock + ticks

StartFixed ==
    /\ engine = "warmup" /\ warm = 0 /\ plan.mode = "fixed"
    /\ Resize(plan.concurrency)
    /\ Sleep(plan.duration)
    /\ UNCHANGED <<plan, warm, step, stop, clock, began, countVars, report>>

\* Variant with a bug: the limit is ignored.
CurrentConcurrency_NoLimit(n) == plan.concurrency * 2 ^ n

\* current_concurrency after some steps.
CurrentConcurrency(n) ==
    IF n = 0 THEN plan.concurrency ELSE Smaller(plan.concurrency * 2 ^ n, plan.max)

\* The loop of the ramp is entered, or passed again, with time left.
RampStep ==
    /\ plan.mode = "ramp" /\ clock < plan.duration
    /\ \/ engine = "warmup" /\ warm = 0 /\ step' = 0
       \/ engine = "sleep" /\ clock >= wake /\ step' = step + 1
    /\ Resize(CurrentConcurrency(step'))
    /\ Sleep(1)
    /\ UNCHANGED <<plan, warm, stop, clock, began, countVars, report>>

\* Time is up: no worker begins another call, and those of the list are waited
\* for.
Stop ==
    /\ \/ engine = "sleep" /\ clock >= wake
       \/ engine = "warmup" /\ warm = 0 /\ plan.mode = "ramp"
    /\ plan.mode = "ramp" => clock >= plan.duration
    /\ stop' = TRUE
    /\ engine' = "gather"
    /\ UNCHANGED <<plan, warm, wake, step, size, doomed, clock, worker, began, countVars, report>>

\* The duration of a fixed run is the one that was asked for.
Finish ==
    LET duration == IF plan.mode = "fixed" THEN plan.duration ELSE clock IN
    /\ engine = "gather" /\ \A w \in 1 .. size : worker[w] = "ended"
    /\ engine' = "done"
    /\ report' = IF plan.streaming THEN BuildStreamingResult(duration) ELSE BuildResult(duration)
    /\ UNCHANGED <<plan, warm, wake, step, size, doomed, stop, clock, worker, began, countVars>>

-----------------------------------------------------------------------------
(* A worker                                                                *)

\* while not stop_event.is_set().
BeginCall(w) ==
    /\ worker[w] = "loop" /\ w \notin doomed /\ ~stop
    /\ worker' = [worker EXCEPT ![w] = "call"]
    /\ began' = [began EXCEPT ![w] = clock]
    /\ calls' = calls + 1
    /\ UNCHANGED <<planVars, clock, latencies, failed, chunks, aborted, report>>

\* A call takes some time, and its worker has not been cancelled.
InCall(w) == worker[w] = "call" /\ w \notin doomed /\ clock > began[w]

\* The target of a stream sends its chunks and receives until half a second has
\* passed without one; it may have received none.
ChunksReceived == IF plan.streaming THEN 0 .. MaxChunks ELSE {0}

\* Variant with a bug: a worker that has been told to stop drops its call.
CallReturns_StopDrops(w) ==
    /\ InCall(w)
    /\ latencies' = IF stop THEN latencies ELSE Append(latencies, clock - began[w])
    /\ chunks' \in {chunks + c : c \in ChunksReceived}
    /\ worker' = [worker EXCEPT ![w] = "loop"]
    /\ UNCHANGED <<planVars, clock, began, failed, calls, aborted, report>>

\* The call succeeds.  For a stream, however few chunks it has received.
CallReturns(w) ==
    /\ InCall(w)
    /\ latencies' = Append(latencies, clock - began[w])
    /\ chunks' \in {chunks + c : c \in ChunksReceived}
    /\ worker' = [worker EXCEPT ![w] = "loop"]
    /\ UNCHANGED <<planVars, clock, began, failed, calls, aborted, report>>

\* It raises; the worker lets the others run once.
CallRaises(w) ==
    /\ InCall(w)
    /\ failed' = failed + 1
    /\ worker' = [worker EXCEPT ![w] = "loop"]
    /\ UNCHANGED <<planVars, clock, began, latencies, chunks, calls, aborted, report>>

\* CancelledError is raised where the worker waits, and nothing handles it: a
\* call is lost, even one that has been answered.
Cancelled(w) ==
    /\ w \in doomed /\ worker[w] \in {"loop", "call"}
    /\ aborted' = IF worker[w] = "call" THEN aborted \cup {w} ELSE aborted
    /\ worker' = [worker EXCEPT ![w] = "ended"]
    /\ UNCHANGED <<planVars, clock, began, latencies, failed, chunks, calls, report>>

EndWorker(w) ==
    /\ worker[w] = "loop" /\ w \notin doomed /\ stop
    /\ worker' = [worker EXCEPT ![w] = "ended"]
    /\ UNCHANGED <<planVars, clock, began, countVars, report>>

BenchmarkNext ==
    \/ Pass \/ Warmup \/ StartFixed \/ RampStep \/ Stop \/ Finish
    \/ \E w \in Crowd : \/ BeginCall(w) \/ CallReturns(w) \/ CallRaises(w)
                        \/ Cancelled(w) \/ EndWorker(w)

BenchmarkSpec == BenchmarkInit /\ [][BenchmarkNext]_benchmarkVars

-----------------------------------------------------------------------------
(* Properties                                                              *)

BenchmarkTypeOK ==
    /\ plan \in Plans
    /\ engine \in {"warmup", "sleep", "gather", "done"} /\ warm \in 0 .. Warmups
    /\ clock \in 0 .. MaxClock /\ wake \in Nat /\ step \in 0 .. MaxClock
    /\ {size} \cup doomed \cup aborted \subseteq Crowd \cup {0}
    /\ worker \in [Crowd -> {"unborn", "loop", "call", "ended"}]
    /\ began \in [Crowd -> 0 .. MaxClock]
    /\ stop \in BOOLEAN
    /\ latencies \in Seq(1 .. MaxClock)
    /\ {failed, chunks, calls, report.total} \subseteq Nat

\* A result counts every call: whatever was begun, in whichever step, has
\* succeeded or failed, also when the workers were told to stop meanwhile, and
\* only a worker that was cancelled has dropped a call, its last.  No worker of
\* the list still runs then; there were never more than one of the two limits
\* allows; and the quantiles are in order (_run_fixed, _run_ramp, _percentile).
ResultsCounted ==
    /\ Cardinality({w \in Crowd : worker[w] = "call" /\ w \notin doomed})
          <= Larger(plan.concurrency, plan.max)
    /\ engine = "done" =>
          /\ \A w \in Crowd : worker[w] \in {"loop", "call"} => w \in doomed
          /\ report.total + Cardinality({w \in doomed : worker[w] = "call" \/ w \in aborted}) = calls
          /\ \A i, j \in DOMAIN report.quantiles :
                i <= j => report.quantiles[i] <= report.quantiles[j]
=============================================================================
