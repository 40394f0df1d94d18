\* One document completed twice, two overlapping cron runs, one crash anywhere.
CONSTANTS
  Docs = {d1}
  Runs = {w1, w2}
  d1 = d1
  d2 = d2
  w1 = w1
  w2 = w2
  NoClaim = NoClaim
  MaxAttempts = 2
  ClaimLimit = 1
  MaxCompletes = 2
  MaxAborts = 1
SPECIFICATION Spec
SYMMETRY Symmetry
INVARIANTS
  TypeOK
  HighRiskIsBlocked
  ServableContentWasScanned
  AttemptsAreAccounted
PROPERTIES
  DisabledNeedsOwner
  ScansAreNotForgotten
