CONSTANTS
  Modules = {"rtsp", "stream"}
  Links = {"TCP", "SOFT_BUS"}
  Ends = {TRUE, FALSE}
  MaxConnections = 2
  MaxSessions = 2
SPECIFICATION ChannelsFairSpec
INVARIANTS ClosedIsReturned LockSurvives
PROPERTIES PacketsAreOwn ReadersEnd
CHECK_DEADLOCK FALSE
