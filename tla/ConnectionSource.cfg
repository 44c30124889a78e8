CONSTANTS
  Devices = {d1}
  Single = {d1}
  Sources = {a, b}
  Sinks = {}
  Sockets = {k1, k2}
  Threads = {t1, t2}
  PeersMayClose = FALSE
  None = None
SPECIFICATION Spec
SYMMETRY Operations
INVARIANTS TransportsHaveOneOwner
PROPERTIES OpeningAccountsForSocket
CHECK_DEADLOCK FALSE
