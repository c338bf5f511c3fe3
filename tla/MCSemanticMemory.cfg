SPECIFICATION Spec
CONSTANTS
  a = a b = b k = k o = o w1 = w1 w2 = w2 x = x y = y z = z
  Claims = {a, b}
  Contradictions = {k}
  Observations = {o}
  Workers = {w1, w2}
  StartStatus <- StartOf
  Existing = {a}
  Contents = {x, y, z}
  Says <- Stated
  Conflicts <- Apart
  Same <- Equal
  About <- AboutA
  Critical = {k}
  None = None
  MaxRevisions = 3
  MaxRequests = 3
  MaxCrashes = 1
SYMMETRY AnyWorker
INVARIANTS JudgedSupportsAgree ClaimStreamsReplay WikiNeverGoesBack
PROPERTIES ImplementsAggregate
CHECK_DEADLOCK FALSE
