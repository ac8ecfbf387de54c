SPECIFICATION Spec
CONSTANTS
  t1 = t1
  t2 = t2
  Targets = {t1}
  Files <- OneFile
  Callers = {exit}
  Units = 2
INVARIANT RemovesExactlyWhatItAdded
