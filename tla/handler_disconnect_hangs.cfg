SPECIFICATION HostFairSpec
CONSTANTS
  Urbs <- MCShared
  Endpoints <- MCEndpoints
  ControlEndpoints <- MCControl
  EpOf <- MCSharedEpOf
  MaxSessions = 1
  ResubmitMayFail = FALSE
PROPERTIES
  DisconnectEnds
\* Clients leave, the device is unplugged: there may be nothing left to do.
CHECK_DEADLOCK FALSE
