SPECIFICATION FairSpec
CONSTANTS
  Users = {1, 2}
  Subs = {s1, s2}
  Owner <- TwoOwners
  Events = {created, renewal, other}
  Kind <- Story
  Concerns <- Subject
  At <- When
  Handlers = {h1}
  MaxUsers = 1
  NoEvent = NoEvent
  MaxRepeats = 1
  MaxFaults = 1
  s1 = s1
  s2 = s2
  h1 = h1
  h2 = h2
  created = created
  renewal = renewal
  updated = updated
  cancel = cancel
  other = other
  ended = ended
CHECK_DEADLOCK FALSE
PROPERTY PlansConverge
