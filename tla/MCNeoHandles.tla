---------------------------- MODULE MCNeoHandles ----------------------------
(* Model-checking instance of NeoHandles.                                   *)
EXTENDS NeoHandles, TLC

(* Addresses, connections and statements are interchangeable: no action and *)
(* no property names a particular one, and every checked property is a      *)
(* safety property.                                                         *)
Symmetry == Permutations(Addrs) \cup Permutations(Conns) \cup Permutations(Stmts)
=============================================================================
