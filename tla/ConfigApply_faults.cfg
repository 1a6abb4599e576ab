SPECIFICATION FairSpec
CONSTANTS
  a1 = a1 a2 = a2 a3 = a3 r0 = r0 r1 = r1 r2 = r2
  Addrs = {a1, a2, a3}
  Rules = {r0, r1, r2}
  NoRules = NoRules BadRules = BadRules
  Empty = Empty Garbage = Garbage Missing = Missing
  NoAddr = NoAddr NoConfig = NoConfig None = None
  Requests = {q1}
  Watcher = Watcher Main = Main
  DefaultConfig <- MCDefault
  DesktopDefault <- MCDesktop
  InitialConfigs <- MCInitial
  Puts <- MCFewPuts
  Imports <- MCFewImports
  Edits <- MCEdits
  Torn <- MCTorn
  Faults = {"edit", "torn_edit", "write_fails", "port_thief", "crash", "second_start"}
  MaxEdits = 1
  MaxCrashes = 1
INVARIANTS TypeOK ProxyNeverDark ListenersFollow
PROPERTY PollerCatchesUp
