---------------------------- MODULE NeoLifecycle ----------------------------
(***************************************************************************)
(* What the drop-in layer promises about the lifetime of native objects,   *)
(* with no address in sight: every wrapper owns at most one native object; *)
(* once that object is gone the wrapper never owns one again; closing an   *)
(* instance or a statement ends that object only; closing a connection     *)
(* ends that connection and statements of its own, never anything that     *)
(* belongs to another wrapper; and a statement is only ever created on a   *)
(* connection that is open.                                                *)
(***************************************************************************)
CONSTANTS Instances, Conns, Stmts, Null

VARIABLES
  open,    \* wrappers whose native object exists
  closed,  \* wrappers whose native object has been freed
  parent   \* the connection a statement was created on

Init == /\ open = {}
        /\ closed = {}
        /\ parent = [s \in Stmts |-> Null]

Fresh(w) == w \notin open \cup closed

OpenInstance(i) ==
  /\ Fresh(i)
  /\ open' = open \cup {i}
  /\ UNCHANGED <<closed, parent>>

OpenConnection(i, c) ==
  /\ i \in open /\ Fresh(c)
  /\ open' = open \cup {c}
  /\ UNCHANGED <<closed, parent>>

CreateStatement(c, s) ==
  /\ c \in open /\ Fresh(s)
  /\ open' = open \cup {s}
  /\ parent' = [parent EXCEPT ![s] = c]
  /\ UNCHANGED closed

(* The objects in W, and no others, cease to exist.                        *)
End(W) ==
  /\ open' = open \ W
  /\ closed' = closed \cup (W \cap open)
  /\ UNCHANGED parent

CloseConnection(c) ==
  \E S \in SUBSET {s \in Stmts : parent[s] = c} : End(S \cup {c})

Next ==
  \/ \E i \in Instances : OpenInstance(i) \/ End({i})
  \/ \E i \in Instances, c \in Conns : OpenConnection(i, c)
  \/ \E c \in Conns, s \in Stmts : CreateStatement(c, s)
  \/ \E c \in Conns : CloseConnection(c)
  \/ \E s \in Stmts : End({s})

Spec == Init /\ [][Next]_<<open, closed, parent>>
=============================================================================
