SPECIFICATION Spec
CONSTANTS
  Setups <- MCSetups
  NumInst = 2
  MaxMaps = 3
  MaxGid = 2
  MaxEntries = 3
INVARIANTS RefsExact OneOwner ReleasedStays
CHECK_DEADLOCK FALSE
