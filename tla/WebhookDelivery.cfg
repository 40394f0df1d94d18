SPECIFICATION FairSpec
CONSTANTS
  Hooks = {h1}
  Events = {e1}
  Tests = {t1, t2}
  Followed = {}
  Cron = Cron
  MaxAttempts = 2
  BatchSize = 2
  NoDelivery = NoDelivery
  MaxFaults = 1
  h1 = h1
  h2 = h2
  e1 = e1
  t1 = t1
  t2 = t2
CHECK_DEADLOCK FALSE
INVARIANT TypeOK
INVARIANT FinalStatusesAreEarned
INVARIANT SendsAreCounted
INVARIANT EmittedEventsAreServed
PROPERTY OverIsOver
PROPERTY DeliveriesComeToRest
