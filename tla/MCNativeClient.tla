--------------------------- MODULE MCNativeClient ---------------------------
(* Model-checking instance of NativeClient.                                 *)
EXTENDS NativeClient, TLC

(* Connections, statements and addresses are interchangeable.               *)
Symmetry == Permutations(Conns) \cup Permutations(Stmts) \cup Permutations(Addresses)
=============================================================================
