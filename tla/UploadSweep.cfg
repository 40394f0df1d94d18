SPECIFICATION FairSpec
CONSTANTS
  Docs = {1, 2}
  Completions = {c1}
  Aborts = {a1}
  Sweepers = {s1}
  a1 = a1
  c1 = c1
  s1 = s1
  NoDoc = NoDoc
  NoKey = NoKey
  Impatient = FALSE
  MaxCompletes = 1
  MaxPuts = 1
  MaxObjects = 2
  MaxDeaths = 0
CHECK_DEADLOCK FALSE
PROPERTY OrphansDisappear
