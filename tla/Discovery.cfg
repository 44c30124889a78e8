CONSTANTS
  Devices = {d1}
  Kinds = {"ble"}
  Clients = {c1, c2}
  Sessions = {s1}
  Watchers = {w1}
  Finders = {f1}
  MaxCalls = 3
  TimeoutCount = 3
  NoDevice = NoDevice
SPECIFICATION Spec
SYMMETRY Requests
INVARIANTS DeadlocksAskUnderLock ListedIsReported StartHasRunner
PROPERTIES OfflineIsDue
CHECK_DEADLOCK FALSE
