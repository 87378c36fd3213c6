CONSTANTS
  c1 = c1
  c2 = c2
  Connections <- MCConnections2
  Size = 1
  MaxStarts = 2
  KeepAliveMax = 1
SPECIFICATION Spec
INVARIANT RoutesToLiveFunction
CHECK_DEADLOCK FALSE
