SPECIFICATION FairSpec
CONSTANTS
  Nothing = Nothing
  NULL = NULL
  ListenFd = ListenFd
  Main = Main
  Fds = {f1, f2}
  Workers = {w1}
  MaxRequests = 1
  MaxUsers = 2
  MaxEvents = 3
  MaxBacklog = 1
  Outcomes = {"incomplete", "reply", "bad"}
INVARIANT
  EveryLiveConnOwned
PROPERTIES
  CountDriftsByRaceOnly
  BytesAreRead
  HangupIsNoticed
CHECK_DEADLOCK FALSE
