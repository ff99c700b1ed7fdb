SPECIFICATION Spec
CONSTANTS
  ExecutionIds = {e1}
  ScopeIds = {s1, s2}
  Connections = {c1}
  ExecutionBufferBytes = 5
  MaxEventConnections = 1
  MaxSeq = 5
  None = None
CHECK_DEADLOCK FALSE
INVARIANTS
  BufferIsInOrder
  NothingMissedLive
PROPERTIES
  CoalescingKeepsText
  EndedMeansNothingLeft
  ImplementsLifecycle
