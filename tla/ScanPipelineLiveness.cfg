\* Liveness: two runs, one crash.
CONSTANTS
  d1 = d1
  d2 = d2
  w1 = w1
  w2 = w2
  Docs = {d1}
  Runs = {w1, w2}
  NoClaim = NoClaim
  MaxAttempts = 2
  ClaimLimit = 1
  MaxCompletes = 1
  MaxAborts = 1
SPECIFICATION FairSpec
PROPERTIES
  ScanJobsSettle
