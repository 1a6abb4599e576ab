SPECIFICATION FairSpec
CONSTANTS
  Pages = {p1}
  Socks = {s1, s2}
  SendCap = 1
  Window = 1
  MaxTick = 4
  NoSock = NoSock
  NoOne = NoOne
  Hub = Hub
INVARIANTS TypeOK NoFrameSkipped
PROPERTIES RoundsEnd GoneClientsLeave
CHECK_DEADLOCK FALSE
