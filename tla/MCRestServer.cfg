CONSTANTS
  c1 = c1
  c2 = c2
  Connections <- MCConnections2
  Size = 1
  MaxStarts = 3
  KeepAliveMax = 2
SPECIFICATION FairSpec
INVARIANTS
  TypeOK
  StopFindsASocket
  StoppedIsQuiet
  ListeningSocketsClosedOnce
PROPERTIES
  RunningServerStops
  AcceptedIsServed
CHECK_DEADLOCK FALSE
