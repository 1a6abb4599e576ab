SPECIFICATION FairSpec
CONSTANTS
  c1 = c1 c2 = c2 c3 = c3 h1 = h1 h2 = h2
  Conns = {c2, c3}
  Hosts = {h1, h2}
  HostOf <- MCHostOf
  Reading = {c2}
  ClosedMax = 1
  FeedN = 1
  MaxGen = 2
  MaxBytes = 1
INVARIANTS TypeOK CountersAgree RingIsNewest NoResurrection
PROPERTY CutConnectionsEnd
CHECK_DEADLOCK FALSE
