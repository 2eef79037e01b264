SPECIFICATION Spec
CONSTANTS
  Urbs <- MCUrbs
  Endpoints <- MCEndpoints
  ControlEndpoints <- MCControl
  EpOf <- MCEpOf
  MaxSessions = 1
  ResubmitMayFail = TRUE
INVARIANTS
  TableIsWhatIsOutstanding
  ReplyProtocol
  CancellationIsNotReported
  UnlinkAfterResultIsOk
  DisconnectionDrains
\* Clients leave, the device is unplugged: there may be nothing left to do.
CHECK_DEADLOCK FALSE
