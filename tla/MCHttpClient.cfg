CONSTANTS
  t1 = t1
  t2 = t2
  None = None
  Threads <- MCThreads
  Sockets <- MCSockets
  RedirectMax = 1
  AuthorizationMax = 1
  MaxCalls = 2
  MaxStops = 1
SPECIFICATION FairSpec
INVARIANTS
  TypeOK
  NoUseOfClosedSocket
  AnswerIsForRequest
  NothingLeaks
  PeerClosedMeansFailed
PROPERTY CallReturns
\* After the last call nothing has to happen.
CHECK_DEADLOCK FALSE
