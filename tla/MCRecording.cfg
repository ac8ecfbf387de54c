SPECIFICATION Spec
CONSTANTS
  Raisers = {"ladder", "rung"}
  QueueCap = 2
  MaxRings = 1
  Faults = {"encoder", "write", "finalize", "overlay", "draw"}
INVARIANTS
  BannerIsMarked
  ChildReaped
  NoStrayWindows
PROPERTIES
  BannersGetThrough
  RaiseReturns
  CloseReturns
CHECK_DEADLOCK FALSE
