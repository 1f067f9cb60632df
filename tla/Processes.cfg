SPECIFICATION Spec
CONSTANTS
  Producers = {p1, p2}
  Consumers = {c1, c2}
  Numbers = {1, 2}
  Capacity = 2
  ThreadNum = 3
  TicketsNum = 3
  Readers = {r1, r2, r3}
  Writers = {w1, w2}
  Prints = 3
  Forks = 4
  MaxLine = 2
  Messages = 4
  PipeSize = 2
  ReadMax = 3
  MaxDelay = 3
  UnblockRound = 3
  Creators = {s1, s2}
  Lookers = {l1, l2}
  TextLength = 2
INVARIANTS
  TypeOK
  NoSleepOverNumbers
  NumberForEachToken
  EveryTicketSoldOnce
  ReadersCounted
  TalkersTakeTurns
  SignalsKillInTime
  LeftAtExit
PROPERTIES
  ImplementsBoundedStack
  SaleEnds
  EveryChildReaped
  StreamIsReadToEnd
CHECK_DEADLOCK FALSE
