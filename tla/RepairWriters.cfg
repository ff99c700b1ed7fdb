INIT Init
NEXT Next
CONSTANTS
  None = None
  Protocols = {"v2"}
  MaxRuns = 2
  OuterMax = 1
  SourceFixMax = 2
  MaxLoops = 3
  MaxSpawns = 2
  MaxShas = 3
  Faults = {"crash"}
  MaxFaults = 1
INVARIANTS
  OneWriter
CHECK_DEADLOCK FALSE
