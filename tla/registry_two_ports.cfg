SPECIFICATION Spec
CONSTANTS
  Devices <- MCDevices
  Sessions <- MCSessions
  BusidOf <- MCTwoPorts
INVARIANTS
  OneOwner
  UsingIsTheUsed
PROPERTIES
  DevGoneReachesUnaware
\* When every connection is over and the devices are gone, nothing is left to do.
CHECK_DEADLOCK FALSE
