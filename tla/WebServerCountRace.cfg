SPECIFICATION Spec
CONSTANTS
  Nothing = Nothing
  NULL = NULL
  ListenFd = ListenFd
  Main = Main
  Fds = {f1, f2}
  Workers = {w1}
  MaxRequests = 2
  MaxUsers = 2
  MaxEvents = 3
  MaxBacklog = 2
  Outcomes = {"incomplete", "reply", "bad"}
INVARIANT
  UserCountExact
CHECK_DEADLOCK FALSE
