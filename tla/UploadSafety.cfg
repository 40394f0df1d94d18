SPECIFICATION Spec
CONSTANTS
  Docs = {1}
  Completions = {c1, c2}
  Aborts = {a1}
  Sweepers = {s1}
  a1 = a1
  c1 = c1
  c2 = c2
  s1 = s1
  NoDoc = NoDoc
  NoKey = NoKey
  Impatient = TRUE
  MaxCompletes = 2
  MaxPuts = 2
  MaxObjects = 2
  MaxDeaths = 1
SYMMETRY Interchangeable
CHECK_DEADLOCK FALSE
INVARIANT TypeOK
INVARIANT ReadyDocsOpen
INVARIANT OnlyCheckedContentOpens
INVARIANT ConfirmedUploadsSurvive
INVARIANT OrphansAreGone
