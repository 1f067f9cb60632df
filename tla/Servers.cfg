SPECIFICATION Spec
CONSTANTS
  ClientNum = 2
  FdNum = 3
  QueueNum = 1
  Workers = {w1, w2}
  FdLimit = 3
  QueueLimit = 1
  UdpClients = {u1, u2}
  MaxLines = 2
  MaxFaults = 2
  ConnNum = 2
  Requests <- ClientRequests
  BUFFER_SIZE = 7
  BodyLength = 1
  Appenders = {a1, a2}
  DraftWorkers = {d1, d2}
  DraftMaxRequests = 1
  MaxPosts = 2
INVARIANTS
  TypeOK
  ThreadsOwnSlot
  EchoReachesSender
  LoopDiesByResetOnly
  AnswersAsAWhole
PROPERTIES
  AcceptedIsServed
  WaitingClientAccepted
  SentIsEchoed
  JamsAfterOneRequest
CHECK_DEADLOCK FALSE
