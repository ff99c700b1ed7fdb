INIT Init
NEXT Next
CONSTANTS
  None = None
  Protocols = {"v1", "v2"}
  MaxRuns = 2
  OuterMax = 2
  SourceFixMax = 2
  MaxLoops = 2
  MaxSpawns = 2
  MaxShas = 4
  Faults = {"crash", "stop", "push"}
  MaxFaults = 1
INVARIANTS
  ApprovedIsReviewed
  ChainCoversCycles
  CertifiedExecutionIsDead
PROPERTIES
  PushIsReviewed
  LeaseKeepsLiveWriters
CHECK_DEADLOCK FALSE
