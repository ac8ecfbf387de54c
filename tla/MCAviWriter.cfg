SPECIFICATION Spec
CONSTANTS
  MaxField = 340
  Lengths <- SomeLengths
INVARIANTS
  NeverClamped
  IndexAddressesFrames
  FinalizedIsWhole
