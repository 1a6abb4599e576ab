SPECIFICATION FairSpec
CONSTANTS
  net = net nonet = nonet ip = ip p80 = p80 p443 = p443 x = x w = w a1 = a1 a2 = a2
  any = any name = name
  Cidr <- MCCidr
  NoIp = NoIp Dot = Dot Comma = Comma
  Addrs = {a1, a2, any}
  Locations = {a1, a2, name}
  Reach <- MCReach
  NoForm = NoForm NoVer = NoVer Nothing = Nothing
  Default = "PROXY"
  Words <- MCWords
  Values <- MCValues
  Targets <- MCTargets
  Rows <- MCRows
  Pastes <- MCPastes
  Imports <- MCImports
  InitialServers <- MCInitialServers
  Others <- MCOthers
  MaxRows = 3
  MaxOps = 3
INVARIANTS TypeOK UntouchedFormIsServer
PROPERTIES UntouchedSaveKeepsRouting PageJudgesAsParser MoveKeepsOthers JumpLandsOnPanel ButtonsComeBack
CHECK_DEADLOCK FALSE
