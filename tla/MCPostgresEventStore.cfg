SPECIFICATION FairSpec
CONSTANTS
  w1 = w1  w2 = w2  s1 = s1  s2 = s2  e1 = e1  e2 = e2  e3 = e3  e4 = e4
  Writers = {w1, w2}
  Streams = {s1, s2}
  StreamTypes = {"run", "tool"}
  EventIds = {e1, e2, e3, e4}
  Batches <- AllBatches
  MaxBatch = 2
  MaxVersion = 1
  MaxAppends = 3
  NoType = NoType
  NoWriter = NoWriter
INVARIANTS RaceLosersGetWrongVersion 
PROPERTIES ReplayNeverSeesGap CursorSeesVersionsInOrder ImplementsPort AppendsTerminate
CHECK_DEADLOCK FALSE
