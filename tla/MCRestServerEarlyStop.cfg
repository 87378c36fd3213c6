CONSTANTS
  c1 = c1
  c2 = c2
  Connections <- MCConnections2
  Size = 1
  MaxStarts = 1
  KeepAliveMax = 1
SPECIFICATION FairSpec
PROPERTY StopReturns
CHECK_DEADLOCK FALSE
