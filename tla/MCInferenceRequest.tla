------------------------- MODULE MCInferenceRequest -------------------------
(* Small instances of InferenceRequest. *)
EXTENDS InferenceRequest, TLC

CONSTANTS r1, r2, w1, w2
=============================================================================
