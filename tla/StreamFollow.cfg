SPECIFICATION StreamSpec
CONSTANTS
  ExecutionIds = {e1}
  ScopeIds = {s1}
  Connections = {c1}
  ExecutionBufferBytes = 3
  MaxEventConnections = 1
  MaxSeq = 4
  None = None
  Execution = e1
  Scope = s1
  Connection = c1
CHECK_DEADLOCK FALSE
INVARIANTS
  StopsForCause
  PreviewShowsTheBuffer
PROPERTIES
  FollowerSettles
