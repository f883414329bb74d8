------------------------- MODULE MCClientDispatcher -------------------------
(* Symmetry for checking ClientDispatcher.                                 *)
EXTENDS ClientDispatcher, TLC

CallSymmetry == Permutations(Owners) \cup Permutations(Ids)
=============================================================================
