SPECIFICATION FairSpec
CONSTANTS
  NULL = NULL
  Nothing = Nothing
  NoThread = NoThread
  Workers = {w1, w2}
  Callers = {c1, c2}
  Requests = {r1}
  MaxRequests = 1
  StopAtStart = {TRUE, FALSE}
  MaxInterrupts = 1
INVARIANTS
  TypeOK
  NoStrandedRequest
  TokenBuysRequest
PROPERTIES
  ImplementsRequestQueue
  EveryRequestTaken
CHECK_DEADLOCK FALSE
