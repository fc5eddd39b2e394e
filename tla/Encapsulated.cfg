SPECIFICATION FairSpec
CONSTANTS
  MaxSize = 2
  BareBodies = FALSE
INVARIANTS
  TypeOK
  PartsRead
  OffsetsKept
  LastIsKept
  ResponseDescribed
PROPERTIES
  Answered
CHECK_DEADLOCK FALSE
