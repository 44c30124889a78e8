SPECIFICATION FairSpec
CONSTANTS
  Length <- MCLength
  FirstRequest = 1
  SingleRequest = 2
  MaxRead = 2
  WaterLine = 2
  Capacity = 2
  MaxCaches = 2
  ReadSize = 1
  MaxLoads = 4
  MaxPending = 2
  MaxFds = 3
  SeekTo = {1}
  MaxSeeks = 1
  MaxLate = 1
  None = None
INVARIANTS FdsAreHeld 
PROPERTIES ServedIsReadToTheEnd
CHECK_DEADLOCK FALSE
