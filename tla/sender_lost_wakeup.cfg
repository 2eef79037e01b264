SPECIFICATION FairSpec
CONSTANTS
  Producers <- MCProducers
  MaxReplies = 3
PROPERTIES
  ReplyIsSent
\* A finished session does nothing more.
CHECK_DEADLOCK FALSE
