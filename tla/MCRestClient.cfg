CONSTANTS
  r1 = r1
  r2 = r2
  None = None
  Requests <- MCRequests2
  Bare <- MCBare
  MaxStarts = 3
  MaxBacklog = 2
  CancelLatches = TRUE
SPECIFICATION FairSpec
INVARIANTS
  TypeOK
  NoLostWakeup
  EachCallInOnePlace
  CacheMatchesOutstanding
  CallbackOrder
PROPERTIES
  StopReturns
  KeepsPromise
