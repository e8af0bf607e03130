--------------------------- MODULE MCStreamSession ---------------------------
(* Small instances of StreamSession. *)
EXTENDS StreamSession, TLC

CONSTANTS s1, s2

\* One stream with data and one that is only opened, closed and ended.
MCMaxChunks == (s1 :> 1) @@ (s2 :> 0)
MCMaxOutputs == (s1 :> 2) @@ (s2 :> 0)
=============================================================================
