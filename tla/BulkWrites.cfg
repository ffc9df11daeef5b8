SPECIFICATION Spec
CONSTANTS
  Half = 8
  HalfInt = 8
  Byte = 3
  Inline = 2
  MaskBits = 2
  Safe = 4
  Scales <- MCScales
  MaxScale = 1024
  Ten = 3
  Unit = 2
  Sixty = 2
  MonthDays = 2
  ShortDays <- MCShortDays
  JsDays <- MCJsDays
  JsMillis <- MCJsMillis
  Subjects <- MCSubjects
  MaxRows = 3
  MaxThrows = 1
  FlushAt = 3
INVARIANTS RowsAreWhole AckedRowsAreKept OnlyKnownLosses
CHECK_DEADLOCK FALSE
