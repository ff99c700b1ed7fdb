SPECIFICATION Spec
CONSTANTS
  None = None
  MessageTurns = 2
  MaxFaults = 2
INVARIANTS
  CommittedIsDurable
  ArtifactsTellTheVerdict
  NothingRunsOn
PROPERTIES
  InterruptedRunEnds
CHECK_DEADLOCK FALSE
