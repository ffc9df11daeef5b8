\* Addresses may be handed out again after a free.
SPECIFICATION Spec
CONSTANTS
  Instances = {i1}
  Conns = {c1, c2}
  Stmts = {s1, s2}
  Addrs = {a1, a2, a3, a4}
  Null = Null
  AddressReuse = TRUE
SYMMETRY Symmetry
PROPERTY SecondDestroyIsNoOp
CHECK_DEADLOCK FALSE
