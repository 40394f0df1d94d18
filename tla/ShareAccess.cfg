SPECIFICATION Spec
CONSTANTS
  s1 = s1
  v1 = v1
  v2 = v2
  x1 = x1
  x2 = x2
  Shares <- OneShare
  Visits <- TwoVisits
  Target <- SameTarget
  Knowing <- FirstKnows
  Taps = {x1, x2}
  NoVisit = NoVisit
  Limits = {0, 1}
  Replay = FALSE
  MaxEdits = 2
SYMMETRY Interchangeable
CHECK_DEADLOCK FALSE
INVARIANT TypeOK
INVARIANT OneResponsePerView
INVARIANT SentWhileServable
INVARIANT OnlyKnowingVisitsCounted
PROPERTY KeepsContract
