\* A URB answered with an earlier URB's RET_UNLINK.
SPECIFICATION LibusbHandlerSpec
CONSTANTS
  MaxUrbs = 2
  MaxUnlinks = 1
  MaxSessions = 1
  ArgsPoolSize = 1
INVARIANT UnlinkProtocolAlways
CHECK_DEADLOCK FALSE
