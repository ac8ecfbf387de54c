SPECIFICATION Spec
CONSTANTS
  Sessions = {1}
  BufferCap = 2
  MaxEvents = 2
  MaxMoves = 1
INVARIANT TypedSecretsRedacted
CHECK_DEADLOCK FALSE
