SPECIFICATION Spec
CONSTANTS
  Domains = {d1, d2}
  DayLen = 2
  KeepPoints = 1
  KeepDays = 0
  CleanEvery = 1
  MaxLate = 1
  MaxSleep = 1
  MaxNow = 4
  MaxTraffic = 2
  MaxFails = 1
  MaxCrashes = 1
SYMMETRY Symmetry
INVARIANTS TypeOK PointsAccountForAll DomainsAccountForAll NothingIsFiledLate RetentionWindow
CHECK_DEADLOCK FALSE
