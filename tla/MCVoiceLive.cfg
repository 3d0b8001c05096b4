\* One connection, an agent whose answer is spoken while it is generated.
CONSTANTS
  Inputs = {i1, i2}
  None = None
  Submitters = {"receiver"}
  Streaming = {TRUE}
  QueueLimit = 1
  MaxTurns = 2
  TextLimit = 1
  MaxInterrupts = 0
  MaxConnections = 1
  MayCrash = FALSE
SPECIFICATION FairSpec
ACTION_CONSTRAINT LastTurnLeftAlone
PROPERTY ComesToRest
CHECK_DEADLOCK FALSE
