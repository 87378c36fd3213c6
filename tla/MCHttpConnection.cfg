CONSTANTS
  Requests <- MCRequests
  Replies <- MCReplies
  Capacity = 2
  KeepAliveMax = 2
  PayloadMax = 2
  MaxRequests = 2
SPECIFICATION FairSpec
INVARIANTS
  AnswerIsForRequest
  HandlerSeesRequest
  NoSpuriousError
  NothingLeftBehind
PROPERTY RequestEnds
\* The client makes no further requests.
CHECK_DEADLOCK FALSE
