SPECIFICATION Spec
CONSTANTS
  Nothing = Nothing
  NULL = NULL
  ListenFd = ListenFd
  Main = Main
  Fds = {f1, f2, f3}
  Workers = {w1, w2}
  MaxRequests = 1
  MaxUsers = 3
  MaxEvents = 2
  MaxBacklog = 1
  Outcomes = {"incomplete", "reply", "bad"}
SYMMETRY Symmetry
INVARIANTS
  TypeOK
  OneOwner
  PoolHoldsLive
  ReplyWhenWriting
PROPERTY
  LosesOwnerOnlyWhenQueueFull
CHECK_DEADLOCK FALSE
