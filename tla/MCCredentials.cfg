SPECIFICATION Spec
CONSTANTS
  t1 = t1
  t2 = t2
  Targets = {t1, t2}
  Files <- SomeFiles
  Callers = {exit, ladder}
  Units = 2
INVARIANTS
  NothingLeftInstalled
  AuditAccounts
  LandsWhereConfirmed
PROPERTIES
  OneFailureStopsNothing
