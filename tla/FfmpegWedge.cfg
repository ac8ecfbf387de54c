SPECIFICATION Spec
CONSTANTS
  Raisers = {"ladder"}
  QueueCap = 1
  MaxRings = 0
  Faults = {"pipe"}
PROPERTY CloseReturns
CHECK_DEADLOCK FALSE
