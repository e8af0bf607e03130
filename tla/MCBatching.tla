------------------------------ MODULE MCBatching ------------------------------
(* A small instance of Batching. *)
EXTENDS Batching

CONSTANTS r1, r2, r3, p1, p2

\* Large payloads of two processes.
MCHome == [r \in Requests |-> IF r \in {r1, r2} THEN p1 ELSE p2]
=============================================================================
