\* Two inputs, queues of one; two connections, or an approval; crashes.
CONSTANTS
  Inputs = {i1, i2}
  None = None
  Submitters = {"receiver", "recognize"}
  Streaming = {TRUE, FALSE}
  QueueLimit = 1
  MaxTurns = 2
  TextLimit = 1
  MaxInterrupts = 1
  MaxConnections = 2
  MayCrash = TRUE
SPECIFICATION Spec
ACTION_CONSTRAINT Kept
INVARIANTS TypeOK ExecutedOnce QuietWhenOff
PROPERTIES CancelledStaysCancelled HeardIsFinal ApprovalRespected
SYMMETRY Interchangeable
CHECK_DEADLOCK FALSE
