CONSTANTS
  ScopeIds = {s1, s2}
  RequestIds = {r1}
  Participants = {p1}
  ExecutionIds = {e1}
  MaxActiveScopes = 1
  MaxParticipantsPerScope = 1
  MaxDriverProcesses = 2
  MaxConcurrentExecutions = 2
  MaxEpoch = 2
  None = None
SPECIFICATION Spec
CHECK_DEADLOCK FALSE
INVARIANT OneScopePerRequest
INVARIANT ClosedScopeWindsDown
INVARIANT RecordsAndTurnsAgree
PROPERTY ScopesClose
PROPERTY ExecutionsEnd
