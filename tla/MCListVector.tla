---------------------------- MODULE MCListVector ----------------------------
(* Model-checking instance of ListVector.                                   *)
EXTENDS ListVector, TLC

(* Items are only moved, never looked at.                                   *)
Symmetry == Permutations(Items)
=============================================================================
