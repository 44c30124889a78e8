SPECIFICATION Spec
CONSTANTS
  Immediate = {MSG_CONNECT}
  Delayed = MSG_CONNECT_TIMEOUT
  Timeout = 2
  MaxTime = 4
  MaxMessages = 4
CHECK_DEADLOCK FALSE
PROPERTIES KeepsPromise StopIsFinal
