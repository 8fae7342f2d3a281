SPECIFICATION GSpec

CONSTANTS
  NumUsers = 2
  Genesis <- EvenUsers
  MinDuration = 1
  MaxDuration = 2
  Amounts = {2}
  MaxSupply = 4
  MaxDelegated = 2
  MaxTime = 4
  ProposalThreshold = 1
  QuorumBps = 5000
  TimelockDelay = 1
  GracePeriod = 1
  Durations = {1}
  MaxProposals = 1
  MaxVotes = 4

INVARIANTS
  TokensConserved
  
  PassedHaveMajority
  NoticeBeforeExecution

PROPERTIES
  
  DecidedIsFinal

CHECK_DEADLOCK FALSE
