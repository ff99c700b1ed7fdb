SPECIFICATION Spec
CONSTANTS
  p = p
  f = f
  None = None
  Participants = {p, f}
  Facilitator = f
  Orders <- MCOrders
  RoundIds = {1, 2}
  ExecutionIds = {1, 2, 3, 4, 5, 6}
  BindingIds = {"b1", "b2"}
  Tokens = {"t1", "t2"}
  Topics = {"a", "b"}
  MaxUserWrites = 1
  MaxFailures = 1
  MaxSettledAcks = 0
INVARIANTS
  AtMostOneLiveExecution
  LiveExecutionIsAnchored
  OneUnfinishedRound
  PausedRoundIsRetryable
  CommittedExactlyOnce
  SpokenInOrder
  PassedSlotsAccounted
  SerialContext
  ConcludedRoomIsClosed
  OneLiveBinding
PROPERTIES
  TerminalRowsAreFinal
  RevisionTracksProjection
CONSTRAINT Bounded
CHECK_DEADLOCK FALSE
