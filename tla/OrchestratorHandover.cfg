SPECIFICATION OrchestratorSpec
CONSTANTS
  None = None
  p = p
  t1 = t1
  Participants = {"a", "f"}
  Facilitator = "f"
  Orders <- MCOrders
  Topics = {"topic"}
  RoundIds = {1}
  ExecutionIds = {1}
  BindingIds = {1, 2}
  Tokens = {1, 2, 3}
  MaxUserWrites = 0
  Pages = {p}
  Tasks = {t1}
  MaxIntents = 1
  MaxRestarts = 0
  MaxReloads = 0
  MaxHandovers = 1
  MaxLost = 0
  MaxMissed = 0
PROPERTIES
  FinishedTurnIsSettled
CHECK_DEADLOCK FALSE
