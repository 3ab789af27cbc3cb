----------------------------- MODULE MCWarPolling -----------------------------
(* WarPolling with the symmetry the safety runs use: keys and requests are *)
(* alike.  The liveness run does not use it.                               *)
EXTENDS WarPolling, TLC

Symmetry == Permutations(Keys) \cup Permutations(Requests)
=============================================================================
