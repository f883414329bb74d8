--------------------------- MODULE MCClientCache ---------------------------
(* ClientCache for TLC: calls (which name cursors too) and changes are      *)
(* interchangeable.                                                         *)
EXTENDS ClientCache, TLC

CallSymmetry == Permutations(Requests) \cup Permutations(Changes)
=============================================================================
