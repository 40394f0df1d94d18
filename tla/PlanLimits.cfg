SPECIFICATION FairSpec
CONSTANTS
  Visits = {v1, v2}
  Creates = {c1}
  Servers = {s1}
  MaxViews = 1
  MaxShares = 1
  FarViews = 3
  FarShares = 2
  FarLapsed = 1
  MaxFaults = 1
  v1 = v1
  v2 = v2
  c1 = c1
  c2 = c2
  s1 = s1
  s2 = s2
  NoServer = NoServer
CHECK_DEADLOCK FALSE
INVARIANT TypeOK
INVARIANT CountsStayNearLimits
PROPERTY LimitsTakeHold
