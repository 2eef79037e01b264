\* Devices bound, unplugged and imported; URBs in two connections; containers.
SPECIFICATION Spec
CONSTANTS
  MaxBinds = 3
  MaxUnplugs = 2
  MaxUrbs = 3
  MaxUnlinks = 2
  MaxSessions = 2
  ArgsPoolSize = 1
  PoolSize = 4
  Foreign = Foreign
  MaxCapacity = 4
  Bytes <- MCBytes
INVARIANTS
  HandleOutlivesTransfers
  NoDeadDeviceOffered
  PendingIsOutstanding
  UnlinkProtocolUnlessReused
PROPERTIES
  ImplementsAllocator
  ImplementsFifo
\* After stop, or once a device is gone, nothing more need happen.
CHECK_DEADLOCK FALSE
