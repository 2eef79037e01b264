\* The virtual devices and the session that serves them.
SPECIFICATION Spec
CONSTANTS
  HidUrbs = {1, 2, 3}
  HidInEps = {"in1", "in2"}
  MaxReports = 3
  HidConnections = 2
  CdcUrbs = {1, 2, 3}
  RequestLength = 2
  Capacity = 2
  MessageLength = 3
  Senders = {"s1"}
  Impatient = {"s1"}
  CdcConnections = 2
  MaxCalls = 1
  Blocks = 2
  BlockSize = 2
  Values = {1, 2}
  MscSessions = 2
  MaxCbws = 3
  Pixels <- MCPixels
  Width = 4
  HID_MAX = 15
  Callers = {"c1"}
  MouseConnections = 2
  MaxGestures = 2
  MaxTransfer = 8
  ReportDescriptor = 3
  MaxCommands = 2
  InterfaceHandlers <- MCHandlers
  Endpoints <- MCEndpoints
  Strings <- MCStrings
  Commands <- MCCommands
INVARIANTS
  SessionOutlivesRequests
  HidReportsFlow
  CdcKeepsMoving
  MscFollowsTransport
  MouseShowsState
  StreamInStep
  EverySubmitAnswered
PROPERTY HidImplementsContract
\* Clients may all be gone and every device idle.
CHECK_DEADLOCK FALSE
