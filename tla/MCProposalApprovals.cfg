SPECIFICATION Spec
CONSTANTS
  p1 = p1 o1 = o1 o2 = o2 e1 = e1 e2 = e2 a1 = a1 a2 = a2
  Proposals = {p1}
  Operators = {o1, o2}
  Engineers = {e1, e2}
  People = {a1, a2}
  Patches = {x1}
  Tier <- TierOne
  MaxPerWeakness = 1
  NoProposal = NoProposal
  NoExperiment = NoExperiment
  MaxRequests = 2
  MaxCrashes = 1
  MaxChanges = 1
  MaxStages = 10
SYMMETRY Anyone
INVARIANTS ApprovalIsSingle
CHECK_DEADLOCK FALSE
