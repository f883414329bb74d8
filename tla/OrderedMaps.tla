---------------------------- MODULE OrderedMaps ----------------------------
(***************************************************************************)
(* A JavaScript Map as the modules use it: a sequence, in insertion order, *)
(* that is deleted from while it is walked.                                *)
(***************************************************************************)
EXTENDS Naturals, Sequences

\* A walk over the map in order that deletes what is in gone; the rest keeps its
\* order.
Kept(s, gone) ==
  LET kept[n \in 0..Len(s)] ==
        IF n = 0 THEN <<>>
        ELSE IF s[n] \in gone THEN kept[n - 1] ELSE Append(kept[n - 1], s[n])
  IN  kept[Len(s)]
=============================================================================
