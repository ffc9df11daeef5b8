\* Two rows, lists of at most one item, a slice.
SPECIFICATION Spec
CONSTANTS
  Items = {a, b}
  MaxLen = 1
  N = 2
  Capacity = 2
  Slices = {s}
  Null = Null
  Unread = Unread
SYMMETRY Symmetry
INVARIANTS WellLaidOut PublishedUnlessMisread ReadsWhatWasSet SlicesAreSnapshots
CHECK_DEADLOCK FALSE
