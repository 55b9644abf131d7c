SPECIFICATION FairSpec
CONSTANTS
  MaxSent = 3
  MaxServed = 2
  MaxConnections = 2
INVARIANTS
  ThreadsTypeOK
  AvailableWhileConnected
  SentInOrder
  NothingStale
PROPERTIES
  ImplementsChannel
  SleeperAnswered
  DisconnectionNoticed
CHECK_DEADLOCK FALSE
