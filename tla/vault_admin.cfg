SPECIFICATION HSpec

CONSTANTS
  NumUsers = 1
  Treasuries = {"treasury", "dao"}
  FirstTreasury = "treasury"
  InitialFunds = 2
  FeeRate = 2000
  WithdrawalFee = 1000
  HarvestFee = 1000
  PendingRewards = 3
  TimelockDelay = 2
  DepositAmounts <- WholeDeposits
  MinimumShares = {0}
  MinimumOuts <- NoMinimum
  Proposals <- DelayChanges
  PriceUpdates <- OtherPrices
  PacingSettings <- Nothing
  SignerSets <- OneSigner
  Thresholds = {2}
  ApprovalLists <- Lists
  MaxHarvests = 0
  MaxTime = 5
  MaxActions = 3

PROPERTIES
  NoticeBeforeEffect
  PausedFreezesLedger

CHECK_DEADLOCK FALSE
