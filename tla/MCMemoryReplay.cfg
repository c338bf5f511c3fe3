SPECIFICATION Spec
CONSTANTS
  m1 = m1 m2 = m2 w1 = w1 w2 = w2
  Memories = {m1}
  Workers = {w1, w2}
  Batches <- OneBatch
  QueryStatuses <- TwoQueries
  NoMemory = NoMemory
  MaxRevisions = 2
  MaxRequests = 2
  MaxCrashes = 1
INVARIANTS StreamsReplay
CHECK_DEADLOCK FALSE
