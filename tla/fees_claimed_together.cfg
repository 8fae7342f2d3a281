SPECIFICATION Spec
CONSTANTS
  ShortLife = 1
  LongLife = 2
  Calls = {1, 2}
  Started = {}
  WaitTimeout = 1
  PollTimeout = 1
  MaxRetries = 1
  MaxSends = 2
INVARIANT
  ClaimsDoNotCollide
CHECK_DEADLOCK FALSE
