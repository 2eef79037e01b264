SPECIFICATION FairSpec
CONSTANTS
  Producers <- MCProducers
  MaxReplies = 5
INVARIANTS
  NothingLostOrReordered
  FlagCoversQueue
PROPERTIES
  ImplementsChannel
  EndsUnlessInWindow
\* A finished session does nothing more.
CHECK_DEADLOCK FALSE
