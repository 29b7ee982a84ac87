\* Two calls on one statement; requests of one row, chunks of two.
CONSTANTS
  Calls = {c1, c2}
  Batches <- MCBatches
  FullWidth = 2
  ChunkSize = 2
  MaxBlock = 1
  QueryTimeout = TRUE
  Drops = TRUE
SPECIFICATION FairSpec
INVARIANTS TypeOK CountsAreTrue RowsInOrder FormatsAgreeUnlessMixed
PROPERTY CallsEnd
CHECK_DEADLOCK FALSE
