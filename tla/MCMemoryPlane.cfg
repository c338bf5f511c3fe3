SPECIFICATION FairSpec
CONSTANTS
  m1 = m1 m2 = m2 w1 = w1 w2 = w2
  Memories = {m1, m2}
  Workers = {w1, w2}
  Batches <- TwoBatches
  QueryStatuses <- TwoQueries
  NoMemory = NoMemory
  MaxRevisions = 3
  MaxRequests = 3
  MaxCrashes = 1
INVARIANTS LagIsReported DisclosuresAudited
PROPERTIES ImplementsAggregate EveryItemJournalled
CHECK_DEADLOCK FALSE
