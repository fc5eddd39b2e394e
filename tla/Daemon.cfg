SPECIFICATION FairSpec
CONSTANTS
  Starts = {s1, s2}
  RunDepths = {0, 2}
  LogDepths = {1}
  MaxPrints = 1
INVARIANTS
  TypeOK
  OneDaemon
  PidFileNames
  SomeoneServes
PROPERTIES
  StartSettles
CHECK_DEADLOCK FALSE
