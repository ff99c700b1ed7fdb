INIT OrchestratorInit
NEXT OrchestratorNext
CONSTANTS
  None = None
  p = p
  q = q
  t1 = t1
  t2 = t2
  Participants = {"a", "f"}
  Facilitator = "f"
  Orders <- MCOrders
  Topics = {"topic"}
  RoundIds = {1}
  ExecutionIds = {1, 2, 3}
  BindingIds = {1, 2}
  Tokens = {1, 2, 3}
  MaxUserWrites = 1
  Pages = {p, q}
  Tasks = {t1, t2}
  MaxIntents = 2
  MaxRestarts = 0
  MaxReloads = 1
  MaxHandovers = 1
  MaxLost = 1
  MaxMissed = 1
SYMMETRY Interchangeable
INVARIANTS
  SettledMeansStopped
  NoWarmScopeLeaks
  AckMatchesRow
CONSTRAINT Bounded
CHECK_DEADLOCK FALSE
