SPECIFICATION ClientsSpec
CONSTANTS
  ShortLife = 1
  LongLife = 2
  Calls = {1, 2}
  Started <- AllMethods
  WaitTimeout = 1
  PollTimeout = 1
  MaxRetries = 1
  MaxSends = 2
  MaxProposals = 2
  MaxStage = 2
  Probes = 4
  GapLimit = 2
  MaxTime = 1
  MaxArg = 6
  Bp = 10
  Kilo = 10
  Base = 3
  Decimals = 3
INVARIANTS
  SuccessIsConfirmed
  FailureIsFinal
  ListIsFaithful
  
  
PROPERTIES
  EveryCallSettles
CHECK_DEADLOCK FALSE
