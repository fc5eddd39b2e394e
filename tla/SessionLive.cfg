SPECIFICATION LiveSpec
CONSTANTS
  MaxRequests = 3
  CommTimeouts = {TRUE, FALSE}
  NumModules = 2
  Loaded = {1, 2}
  OddBodies = TRUE
  BareBodies = TRUE
  MaxAsked = 2
  MaxClients = 1
PROPERTIES
  Answered
  WorkerReleased
CHECK_DEADLOCK FALSE
