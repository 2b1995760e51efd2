SPECIFICATION FairSigningSpec
CONSTANTS
  Workers = {w1, w2}
  Input <- FourSets
  KeyRecords = 2
  MaxChunk = 2
  Capacity = 1
  MaxSignerDeaths = 1
INVARIANTS
  NothingLost
  SetsWhole
PROPERTIES
  AllSent
  Ends
\* The transfer is over.
CHECK_DEADLOCK FALSE
