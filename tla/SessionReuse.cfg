CONSTANTS
  ScopeIds = {s1}
  Topics = {"a", "b"}
  DriverIds = {"claude", "codex"}
  SessionMaxExecutions = 2
  MaxRevision = 4
  MaxEpoch = 4
  None = None
SPECIFICATION Spec
CHECK_DEADLOCK FALSE
INVARIANT SessionMissesNothing
