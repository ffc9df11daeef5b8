SPECIFICATION ChunkSpec
CONSTANTS
  Data = {a}
  Junk = Junk
  Null = Null
  None = None
  MaxRows = 3
  WordBits = 2
  MaxCalls = 3
INVARIANTS ColumnKeepsWhatWasSet SlicesAliasOrSnapshot
CHECK_DEADLOCK FALSE
