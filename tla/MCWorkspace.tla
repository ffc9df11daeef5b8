------------------------------ MODULE MCWorkspace ------------------------------
(* Workspace for TLC: call slots, keys and tables are interchangeable.     *)
EXTENDS Workspace, TLC

Symmetry == Permutations(Calls) \cup Permutations(Keys) \cup Permutations(Tables)
=============================================================================
