--------------------------- MODULE MCResultReader ---------------------------
(* Model-checking instance of ResultReader.                                 *)
EXTENDS ResultReader, TLC

(* Reads are interchangeable in the safety properties.                      *)
Symmetry == Permutations(Reads)
=============================================================================
