SPECIFICATION Spec
CONSTANTS
  Nothing = Nothing
  NULL = NULL
  ListenFd = ListenFd
  Main = Main
  Fds = {f1}
  Workers = {w1}
  MaxRequests = 2
  MaxUsers = 2
  MaxEvents = 3
  MaxBacklog = 2
  Outcomes = {"incomplete", "reply", "bad"}
INVARIANT
  ClosedConnReleased
CHECK_DEADLOCK FALSE
