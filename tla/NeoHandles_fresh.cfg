\* Addresses are never handed out twice.
SPECIFICATION Spec
CONSTANTS
  Instances = {i1}
  Conns = {c1, c2}
  Stmts = {s1, s2}
  Addrs = {a1, a2, a3, a4, a5, a6}
  Null = Null
  AddressReuse = FALSE
SYMMETRY Symmetry
INVARIANTS LiveSetsExact GuardsFindOwnObject LiveStatementsRegistered
PROPERTY LifecycleSpec
CHECK_DEADLOCK FALSE
