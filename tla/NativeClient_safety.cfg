\* Two connections, two statements, results of up to two chunks; an address
\* for each object and none to spare, so that they are used again.
SPECIFICATION ClientSpec
CONSTANTS
  Conns = {c1, c2}
  Stmts = {s1, s2}
  Db = db
  NoWrapper = NoWrapper
  Addresses = {a1, a2, a3, a4}
  NoAddress = NoAddress
  MaxChunks = 2
  MaxErrors = 2
SYMMETRY Symmetry
INVARIANTS OnlyDecodeErrorsLeak ObjectsFollowWrappers
CHECK_DEADLOCK FALSE
