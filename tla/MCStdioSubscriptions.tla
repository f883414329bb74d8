------------------------ MODULE MCStdioSubscriptions ------------------------
(***************************************************************************)
(* StdioSubscriptions for TLC: nothing distinguishes two listen requests,  *)
(* two ids or two publishers.                                              *)
(***************************************************************************)
EXTENDS StdioSubscriptions, TLC

Symmetry == Permutations(Subs) \cup Permutations(Ids) \cup Permutations(Publishers)
=============================================================================
