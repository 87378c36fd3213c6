SPECIFICATION CallSpec
CONSTANTS
  IntMax = 3
  LongMax = 7
  Unit = 36
  Decimal6 = 4
  Decimal4 = 12
  UriMax = 16
  mArraySeparator <- MCSeparator
  Garbage <- MCGarbage
  Functions <- MCFunctions
  Requests <- MCRequests
  Calls <- MCCalls
INVARIANTS
  ExtractedSoFar
  RequiredReachesFunction
  OneOutcome
  ServerSeesTheCall
  TextSaysValue
  EchoReturnsParameters
