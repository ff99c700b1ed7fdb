SPECIFICATION OrchestratorSpec
CONSTANTS
  None = None
  p = p
  t1 = t1
  Participants = {"a", "f"}
  Facilitator = "f"
  Orders <- MCOrders
  Topics = {"topic"}
  RoundIds = {1}
  ExecutionIds = {1, 2, 3}
  BindingIds = {1, 2}
  Tokens = {1, 2, 3, 4}
  MaxUserWrites = 0
  Pages = {p}
  Tasks = {t1}
  MaxIntents = 1
  MaxRestarts = 1
  MaxReloads = 1
  MaxHandovers = 0
  MaxLost = 1
  MaxMissed = 1
PROPERTIES
  CallsEnd
CHECK_DEADLOCK FALSE
