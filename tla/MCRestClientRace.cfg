CONSTANTS
  r1 = r1
  r2 = r2
  None = None
  Requests <- MCRequests2
  Bare <- MCBare
  MaxStarts = 1
  MaxBacklog = 1
  CancelLatches = TRUE
SPECIFICATION Spec
INVARIANT RequestsCarryTheirParams
