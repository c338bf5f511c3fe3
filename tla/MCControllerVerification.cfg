SPECIFICATION Spec
CONSTANTS
  N = 4
  Verifiers = {"exact", "schema", "missing"}
  VerifierOf <- FourCriteria
  Required = {1, 2, 3}
  Available = {"exact", "schema"}
  MaxCalls = 3
INVARIANTS AcceptanceIsEvidenced VerdictsAreJournalled
CHECK_DEADLOCK FALSE
