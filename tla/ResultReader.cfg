\* Three overlapping reads of a result of up to four chunks.  No symmetry:
\* one of the properties is a liveness property.
SPECIFICATION FairSpec
CONSTANTS
  Reads = {r1, r2, r3}
  Sizes = {1, 2}
  MaxChunks = 4
  MaxTarget = 4
INVARIANTS ChunksInOrder ValueFindsEveryRow ReadsGetWhatTheyAsked DoneMeansComplete
PROPERTIES EveryReadSettles
CHECK_DEADLOCK FALSE
