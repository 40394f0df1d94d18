SPECIFICATION Spec
CONSTANTS
  Docs = {d1, d2}
  Readers = {r1, r2}
  Singles = {x1, x2}
  Bulks = {b1}
  NoDoc = NoDoc
  MaxTouches = 2
  MaxFaults = 1
  d1 = d1
  d2 = d2
  r1 = r1
  r2 = r2
  x1 = x1
  x2 = x2
  b1 = b1
SYMMETRY Interchangeable
CHECK_DEADLOCK FALSE
INVARIANT TypeOK
INVARIANT ChainIsUnbroken
INVARIANT DeletionsAreOnRecord
PROPERTY KeepsLedger
