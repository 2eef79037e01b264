SPECIFICATION FairSpec
CONSTANTS
  Urbs <- MCShared
  Endpoints <- MCEndpoints
  ControlEndpoints <- MCControl
  EpOf <- MCSharedEpOf
  MaxSessions = 2
  ResubmitMayFail = FALSE
PROPERTIES
  FreshConnection
  ImplementsContract
  UnlinkIsAnswered
  SubmitIsAnswered
\* Clients leave, the device is unplugged: there may be nothing left to do.
CHECK_DEADLOCK FALSE
