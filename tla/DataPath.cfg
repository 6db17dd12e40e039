SPECIFICATION FairSpec
CONSTANTS
  Setups <- MCSetups
  MaxGid = 2
  MaxSet = 2
  MaxWire = 2
  MaxEntries = 2
INVARIANTS SameInstance BundlesRight
PROPERTIES InstanceEnds LastArrives
CHECK_DEADLOCK FALSE
