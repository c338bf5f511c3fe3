SPECIFICATION Spec
CONSTANTS
  r1 = r1  r2 = r2  x1 = x1  c1 = c1  c2 = c2
  Runners = {r1, r2}
  Cancellers = {x1}
  Continuers = {c1, c2}
  Steps = {1, 2, 3}
  Kind <- ToolKinds
  Tool <- TwoTools
  Plans <- RacePlans
  Budget <- RaceBudget
  MaxIterations = 3
  Criteria = 1
  HasArtifacts = TRUE
  HasVerification = TRUE
  MaxFails = 1
  NoStep = NoStep
INVARIANTS ReplaySucceeds NothingAfterTheEnd SingleDriver EndStopsCalls TokenConsumedOnce WriteAhead
CHECK_DEADLOCK FALSE
