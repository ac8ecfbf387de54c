SPECIFICATION Spec
CONSTANTS
  Sessions = {1, 2}
  BufferCap = 2
  MaxEvents = 2
  MaxMoves = 1
INVARIANTS
  TypeOK
  HooksRemoved
  JourneyIsFaithful
  ClearOnlyIfMoved
PROPERTIES
  CancelReturns
CHECK_DEADLOCK FALSE
