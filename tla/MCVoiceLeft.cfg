\* A connection that ends in order, without a crash.
CONSTANTS
  Inputs = {i1}
  None = None
  Submitters = {"receiver", "recognize"}
  Streaming = {TRUE}
  QueueLimit = 1
  MaxTurns = 2
  TextLimit = 1
  MaxInterrupts = 0
  MaxConnections = 1
  MayCrash = FALSE
SPECIFICATION Spec
INVARIANT NoTurnLeftRunning
CHECK_DEADLOCK FALSE
