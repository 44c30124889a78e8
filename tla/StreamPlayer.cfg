SPECIFICATION StreamFairSpec
CONSTANTS
  Items = {m1}
  Placeholder = none
  Unplayable = {m1}
  MaxCommands = 2
  MaxCalls = 1
  None = None
INVARIANTS
  NoSilentFailure
  
PROPERTIES
  PositionArrives
CHECK_DEADLOCK FALSE
