CONSTANTS
  t1 = t1
  t2 = t2
  None = None
  Threads <- MCThreads
  Sockets <- MCSockets
  RedirectMax = 1
  AuthorizationMax = 1
  MaxCalls = 1
  MaxStops = 1
SPECIFICATION Spec
INVARIANT StopClosesSocket
CHECK_DEADLOCK FALSE
