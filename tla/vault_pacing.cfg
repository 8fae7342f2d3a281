SPECIFICATION Spec

CONSTANTS
  NumUsers = 2
  Treasuries = {"treasury", "dao"}
  FirstTreasury = "treasury"
  InitialFunds = 4
  FeeRate = 0
  WithdrawalFee = 0
  HarvestFee = 1000
  PendingRewards = 3
  TimelockDelay = 1
  DepositAmounts <- EvenDeposits
  MinimumShares = {0}
  MinimumOuts <- NoMinimum
  Proposals <- MinimumChange
  PriceUpdates <- Nothing
  PacingSettings <- ManyWindows
  SignerSets <- Nothing
  Thresholds = {}
  ApprovalLists <- Nothing
  MaxHarvests = 0
  MaxTime = 4
  MaxActions = 1

INVARIANTS
  VaultWindowCoversUsers

CHECK_DEADLOCK FALSE
