SPECIFICATION FairSpec
CONSTANTS
  Clients <- MCClients
  NoClient <- MCNoClient
INVARIANTS
  ListIsTheWorking
  OnlyLateSurvive
PROPERTIES
  StopReturnsUnlessLate
  EveryClientIsServed
\* The process may end, and after stop() nothing is left to do.
CHECK_DEADLOCK FALSE
