CONSTANTS
  Devices = {d1}
  Single = {}
  Sources = {a}
  Sinks = {x, y}
  Sockets = {k1, k2}
  Threads = {t1}
  PeersMayClose = TRUE
  None = None
SPECIFICATION Spec
SYMMETRY Operations
INVARIANTS SessionServesOneConnection
CHECK_DEADLOCK FALSE
