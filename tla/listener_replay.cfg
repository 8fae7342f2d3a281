SPECIFICATION Spec

CONSTANTS
  StartLedger = 1
  PageSize = 2
  EventIds = TRUE
  MaxLedger = 2
  MaxPerLedger = 2
  MaxFaults = 1

INVARIANTS
  NeverHandledTwice
