SPECIFICATION FairSpec
CONSTANTS
  Docs = {1}
  Keys = {k1, k2}
  EnvActive = k1
  Workers = {w1, w2}
  Jobs = {1}
  Requests <- BothWays
  Broken = {}
  BatchSize = 1
  k1 = k1
  k2 = k2
  w1 = w1
  w2 = w2
  NoKey = NoKey
  NoJob = NoJob
  MaxCompletes = 1
  MaxDirect = 1
  MaxFaults = 2
CHECK_DEADLOCK FALSE
INVARIANT TypeOK
INVARIANT DataKeysSurvive
INVARIANT JobsReportTruly
PROPERTY RevokedKeysTakeOnlyLateDocs
PROPERTY JobsFinish
