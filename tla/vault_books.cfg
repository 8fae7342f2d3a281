SPECIFICATION Spec

CONSTANTS
  NumUsers = 2
  Treasuries = {"treasury", "dao"}
  FirstTreasury = "treasury"
  InitialFunds = 3
  FeeRate = 2000
  WithdrawalFee = 5000
  HarvestFee = 4000
  PendingRewards = 3
  TimelockDelay = 2
  DepositAmounts <- MixedDeposits
  MinimumShares = {0, 2}
  MinimumOuts <- SomeMinimum
  Proposals <- Nothing
  PriceUpdates <- Nothing
  PacingSettings <- Nothing
  SignerSets <- Nothing
  Thresholds = {}
  ApprovalLists <- Nothing
  MaxHarvests = 1
  MaxTime = 0
  MaxActions = 0

INVARIANTS
  TypeOK
  SharesConserved
  BooksMatchTokens
  FullExitPossible

PROPERTIES
  DepositKeepsShareValue
  WithdrawLeavesOthersShare
