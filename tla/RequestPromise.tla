--------------------------- MODULE RequestPromise ---------------------------
(***************************************************************************)
(* What the server promises the client of a unary inference request, over  *)
(* HTTP or gRPC: a request that is refused is never executed, so that it   *)
(* can be sent again; an answer comes only from an execution; and a        *)
(* request that is accepted ends, answered or failed.                      *)
(***************************************************************************)
CONSTANT Requests

VARIABLES
    state,      \* of each request, as its client sees it
    executed    \* requests that an inference worker has taken up

vars == <<state, executed>>

Init ==
    /\ state = [r \in Requests |-> "new"]
    /\ executed = {}

End(r, from, to) ==
    /\ state[r] = from
    /\ state' = [state EXCEPT ![r] = to]
    /\ UNCHANGED executed

Refuse(r) == End(r, "new", "refused")

Accept(r) == End(r, "new", "accepted")

\* A worker may take up a request that has failed in the meantime.
Execute(r) ==
    /\ state[r] \in {"accepted", "failed"} /\ r \notin executed
    /\ executed' = executed \cup {r}
    /\ UNCHANGED state

Answer(r) == r \in executed /\ End(r, "accepted", "answered")

Fail(r) == End(r, "accepted", "failed")

Next == \E r \in Requests :
            Refuse(r) \/ Accept(r) \/ Execute(r) \/ Answer(r) \/ Fail(r)

Spec ==
    /\ Init /\ [][Next]_vars
    /\ \A r \in Requests : WF_vars(Answer(r) \/ Fail(r))
=============================================================================
