SPECIFICATION Spec
CONSTANTS
  Buffer = 2
  Base = 2
  MaxData = 5
INVARIANTS
  TypeOK
  PayloadIsPrefix
  ReadExactly
  NeverStarves
  SmallIsSentWhole
  SentInOrder
CHECK_DEADLOCK FALSE
