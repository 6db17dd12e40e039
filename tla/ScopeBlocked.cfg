SPECIFICATION Spec
CONSTANTS
  Setups <- Scoped
  MaxGid = 2
  MaxSet = 2
  MaxWire = 2
  MaxEntries = 2
INVARIANT ScopeKept
CHECK_DEADLOCK FALSE
