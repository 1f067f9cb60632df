SPECIFICATION Spec
CONSTANTS
  NULL = NULL
  Nothing = Nothing
  NoThread = NoThread
  Workers = {w1, w2}
  Callers = {c1}
  Requests = {r1}
  MaxRequests = 2
  StopAtStart = {TRUE, FALSE}
  MaxInterrupts = 0
INVARIANT
  WorkersRunUntilStopped
CHECK_DEADLOCK FALSE
