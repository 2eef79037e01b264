SPECIFICATION Spec
CONSTANTS
  Devices <- MCDevices
  Sessions <- MCSessions
  BusidOf <- MCReplug
INVARIANTS
  Exclusive
\* When every connection is over and the devices are gone, nothing is left to do.
CHECK_DEADLOCK FALSE
