SPECIFICATION Spec
CONSTANTS
  c1 = c1
  c2 = c2
  c3 = c3
  Callers = {c1, c2, c3}
  Workloads <- Mixes
  Elements = {e1, e2}
  MaxNodes = 2
INVARIANTS
  TypeOK
  LiveElements
  RefsAccounted
PROPERTIES
  ServesJobs
  CallsReturn
  ThreadEnds
