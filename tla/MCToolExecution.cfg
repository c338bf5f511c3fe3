SPECIFICATION Spec
CONSTANTS
  k1 = k1  k2 = k2  k3 = k3  p1 = p1  p2 = p2  p3 = p3
  Calls = {k1, k2, k3}
  Tasks = {1, 2}
  Tools = {"fetch", "wipe"}
  Args = {"a", "b"}
  Task <- CallTasks
  Tool <- CallTools
  Arg <- CallArgs
  InScope = {k1, k2, k3}
  Enabled = {"fetch", "wipe"}
  Sandboxed = {}
  Risk <- Risks
  Preconfigured <- Approvals
  AnyArgs = AnyArgs
  NoApproval = NoApproval
INVARIANTS AuthorityRespected AllowOnceIsSingleUse TerminalEventsTrue
PROPERTIES ImplementsChildCall
CHECK_DEADLOCK FALSE
