SPECIFICATION FairSpec
CONSTANTS
  r1 = r1  r2 = r2  x1 = x1  c1 = c1  c2 = c2
  Runners = {r1}
  Cancellers = {x1}
  Continuers = {}
  Steps = {1, 2, 3}
  Kind <- QuietKinds
  Tool <- OneTool
  Plans <- QuietPlans
  Budget <- QuietBudget
  MaxIterations = 3
  Criteria = 1
  HasArtifacts = FALSE
  HasVerification = FALSE
  MaxFails = 1
  NoStep = NoStep
PROPERTIES EveryRunEnds
CHECK_DEADLOCK FALSE
