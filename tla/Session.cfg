SPECIFICATION Spec
CONSTANTS
  MaxRequests = 3
  CommTimeouts = {TRUE}
  NumModules = 3
  Loaded = {1, 3}
  OddBodies = FALSE
  BareBodies = FALSE
  MaxAsked = 2
  MaxClients = 2
INVARIANTS
  TypeOK
  AnswersInOrder
  NoMutualWait
  BudgetHolds
  WholeBody
PROPERTIES
  ContinueProper
CHECK_DEADLOCK FALSE
