SPECIFICATION HSpec

CONSTANTS
  NumUsers = 2
  Treasuries = {"treasury", "dao"}
  FirstTreasury = "treasury"
  InitialFunds = 6
  FeeRate = 5000
  WithdrawalFee = 0
  HarvestFee = 0
  PendingRewards = 3
  TimelockDelay = 2
  DepositAmounts <- EvenDeposits
  MinimumShares = {0}
  MinimumOuts <- NoMinimum
  Proposals <- Nothing
  PriceUpdates <- Nothing
  PacingSettings <- Nothing
  SignerSets <- Nothing
  Thresholds = {}
  ApprovalLists <- Nothing
  MaxHarvests = 1
  MaxTime = 0
  MaxActions = 0

PROPERTIES
  NoFeeAtCost

CHECK_DEADLOCK FALSE
