SPECIFICATION Spec
CONSTANTS
  c1 = c1
  c2 = c2
  Callers = {c1, c2}
  MaxPoint = 2
  Elements <- Elems
  Info <- Infos
  Screens <- Views
  First = {"form"}
  Shows <- Layout
  Title <- Titles
  Tabs <- Order
  Requests <- All
  Plans <- Mixes
  MaxBatch = 2
  MaxText = 3
  MaxMishaps = 1
INVARIANTS
  TypeOK
  KeysComeUp
  TextWhole
  ActsOnMeant
PROPERTIES
  FillsItsFields
  CallsEnd
