SPECIFICATION FairSpec
CONSTANTS
  r1 = r1  r2 = r2  x1 = x1  c1 = c1  c2 = c2
  Runners = {r1}
  Cancellers = {}
  Continuers = {c1, c2}
  Steps = {1, 2, 3}
  Kind <- ToolKinds
  Tool <- OneTool
  Plans <- RepairPlans
  Budget <- RepairBudget
  MaxIterations = 3
  Criteria = 1
  HasArtifacts = TRUE
  HasVerification = TRUE
  MaxFails = 1
  NoStep = NoStep
INVARIANTS CleanEnd CallsBounded SchedulerNeverRaises
PROPERTY ClarificationResumes
CHECK_DEADLOCK FALSE
