----------------------------- MODULE MCAdminIPC -----------------------------
(* Small instances of AdminIPC: three calls in one worker, one in another. *)
EXTENDS AdminIPC

CONSTANTS a1, a2, a3, b1, wa, wb

MCWorker == [c \in Calls |-> IF c = b1 THEN wb ELSE wa]
=============================================================================
