----------------------------- MODULE MCMultiTab -----------------------------
(***************************************************************************)
(* MultiTab for TLC: symmetry.                                              *)
(***************************************************************************)
EXTENDS MultiTabProperties, TLC

Symmetry == Permutations(Tab) \cup Permutations(Win)
=============================================================================
