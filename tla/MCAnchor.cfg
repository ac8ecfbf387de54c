SPECIFICATION Spec
CONSTANTS
  MaxWork = 4
  Writer = TRUE
INVARIANTS
  AnchorsAreEarned
PROPERTIES
  ActivityIsAnchored
