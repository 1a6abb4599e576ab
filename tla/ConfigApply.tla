------------------------------ MODULE ConfigApply ------------------------------
(***************************************************************************)
(* The control plane of switchproxy: the configuration file, the           *)
(* configuration in memory (`current`), the two listeners, and the three   *)
(* kinds of goroutines that move them together: panel requests (PUT        *)
(* /api/config and POST /api/config/import), the hot-reload poller and     *)
(* main() while it starts.  The environment edits the file by hand, takes  *)
(* and frees ports, lets writes fail, ends the process in either way, and  *)
(* starts it a second time on the same file.                               *)
(*                                                                         *)
(* A configuration is abstracted to what the properties tell apart: the    *)
(* two listen addresses, monitor.disable, and `rules`, which the settings  *)
(* page may leave alone.  `default` and `upstream`, which every PUT        *)
(* overwrites as it does `listen`, are left out.                           *)
(***************************************************************************)
EXTENDS Naturals

CONSTANTS
  Addrs,            \* listen addresses, host:port
  Rules,            \* rule lists that parseRule accepts line by line
  NoRules, BadRules,\* payload rules: nil (leave alone), a list with a bad line
  DefaultConfig,    \* what parseConfigBytes makes of zero bytes
  DesktopDefault,   \* windowsDefaultConfig; None where main does not write it
  Empty, Garbage, Missing, \* file contents: zero bytes, not YAML, no file
  Torn,             \* content -> what may stand in the file until all is written
  NoAddr, NoConfig, None,  \* no listener; nothing loaded; nobody
  Requests,         \* panel requests, each submitted at most once
  Watcher, Main,    \* the poller and the main goroutine
  Puts, Imports,    \* settings payloads and import bodies the panel sends
  InitialConfigs,   \* what the file may hold when the process first starts
  Edits,            \* what a user may save over the file
  Faults,           \* what the environment is allowed to do, see FaultKinds
  MaxEdits, MaxCrashes

Configs == [listen : Addrs, monitor : Addrs, disable : BOOLEAN, rules : Rules]
\* YAML, with a line among its rules, it may be, that parseRule refuses.
Documents == [listen : Addrs, monitor : Addrs, disable : BOOLEAN, rules : Rules \cup {BadRules}]
Contents == Documents \cup {Empty, Garbage, Missing}
Payloads == [listen : Addrs, monitor : Addrs, rules : Rules \cup {NoRules, BadRules}]
Jobs == [kind : {"put"}, body : Puts] \cup [kind : {"import"}, body : Imports]
Actors == Requests \cup {Watcher, Main}

\* edit: a user saves the file in one step (rename); torn_edit: in two steps
\* (truncate, write); write_fails: os.WriteFile may fail; port_thief: another
\* program may take a port while a configuration is being applied; crash:
\* SIGTERM, kill, power; second_start: somebody starts the program again.
FaultKinds == {"edit", "torn_edit", "write_fails", "port_thief", "crash", "second_start"}

ASSUME ConstantsAssumption ==
  /\ DefaultConfig \in Configs
  /\ DesktopDefault \in Configs \cup {None}
  /\ Puts \subseteq Payloads
  /\ Imports \subseteq Configs \cup {Empty, Garbage}
  /\ InitialConfigs \subseteq Configs
  /\ Edits \subseteq Documents \cup {Garbage, Missing}
  /\ Torn \in [Contents -> SUBSET (Documents \cup {Empty, Garbage})]
  /\ \A c \in Contents : Empty \in Torn[c]
  /\ Faults \subseteq FaultKinds
  /\ MaxEdits \in Nat /\ MaxCrashes \in Nat
ASSUME MarkersAssumption ==
  /\ NoAddr \notin Addrs
  /\ {NoRules, BadRules} \cap Rules = {} /\ NoRules # BadRules
  /\ {Empty, Garbage, Missing, NoConfig} \cap Documents = {}
  /\ Empty # Garbage /\ Empty # Missing /\ Garbage # Missing
  /\ {Watcher, Main} \cap Requests = {} /\ Watcher # Main
  /\ None \notin Actors

VARIABLES
  disk,     \* the content of the configuration file
  touched,  \* its mtime differs from the poller's `last`
  editing,  \* content a user's editor still has to write, or None
  held,     \* addresses other programs listen on
  current,  \* the atomic.Value holding the active configuration
  proxy,    \* proxyAddr, the address of proxyLn
  admin,    \* adminAddr, the address of adminLn
  mu,       \* who holds applyMu
  pc,       \* where each goroutine is
  job,      \* what each request asks for
  new, old, \* newBytes and oldBytes of applyLocked
  cfg,      \* the configuration each goroutine has loaded
  failed,   \* whether activateConfig collected an error
  base,     \* history: file, memory and listeners when applyMu was taken
  astray,   \* history: listeners whose last move was refused
  pidfile,  \* "none", "ours", or "stale": it names a process that is gone
  edits, crashes

machine == <<editing, held, pidfile, edits, crashes>>
env == <<touched, machine>>
memory == <<current, proxy, admin, astray>>
store == <<disk, memory>>
locals == <<job, new, old, cfg, failed>>
vars == <<disk, touched, editing, held, current, proxy, admin, mu, pc, job, new,
          old, cfg, failed, base, astray, pidfile, edits, crashes>>

State == [disk |-> disk, memory |-> current, proxy |-> proxy, admin |-> admin]

Init ==
  /\ disk \in InitialConfigs
  /\ touched = FALSE
  /\ editing = None
  /\ held \in SUBSET Addrs
  /\ current = NoConfig
  /\ proxy = NoAddr
  /\ admin = NoAddr
  /\ mu = None
  /\ pc = [a \in Actors |-> IF a = Main THEN "setup" ELSE IF a = Watcher THEN "off" ELSE "idle"]
  /\ job = [r \in Requests |-> None]
  /\ new = [r \in Requests |-> Missing]
  /\ old = [r \in Requests |-> Missing]
  /\ cfg = [a \in Actors |-> NoConfig]
  /\ failed = [a \in Actors |-> FALSE]
  /\ base = State
  /\ astray = {}
  /\ pidfile = "none"
  /\ edits = 0
  /\ crashes = 0

-----------------------------------------------------------------------------
(* The parser, the settings merge and the socket layer.                    *)

\* An empty file is legal YAML: every field takes its default.
Parses(c) == c \in Configs \cup {Empty}
Parse(c) == IF c = Empty THEN DefaultConfig ELSE c

\* settingsPayload.validate and the empty-body test of the import handler.
Acceptable(j) == IF j.kind = "put" THEN j.body.rules # BadRules ELSE j.body # Empty

\* Wrong variants of Merge: nil rules are taken for a list of rules; the page
\* writes a document of its own instead of editing the user's.
MergeAll(c, p) == [c EXCEPT !.listen = p.listen, !.monitor = p.monitor, !.rules = p.rules]
MergeAfresh(c, p) ==
  [DefaultConfig EXCEPT !.listen = p.listen, !.monitor = p.monitor,
                        !.rules = IF p.rules = NoRules THEN @ ELSE p.rules]

\* buildSettingsConfig edits single nodes: what the page does not own
\* (`disable`) stays, and nil rules leave the rules alone.
Merge(c, p) ==
  [c EXCEPT !.listen = p.listen, !.monitor = p.monitor,
            !.rules = IF p.rules = NoRules THEN @ ELSE p.rules]

\* net.Listen: an address is free unless another program, or either of our own
\* listeners, is on it.
CanBind(x) == x \notin held \cup {proxy, admin}

\* swapProxyListener and swapAdminListener: the same address is a no-op, the
\* new socket is bound before the old one is closed, and a failed bind keeps
\* the old one and is an error.  A panel that is not listening stays closed
\* while the active configuration disables it.
PanelOff == admin = NoAddr /\ current.disable
\* Wrong variant of ProxyAfter: the old socket is closed before the bind.
CloseFirst(x) == IF proxy # x /\ ~CanBind(x) THEN NoAddr ELSE x
ProxyAfter(x) == IF proxy # x /\ CanBind(x) THEN x ELSE proxy
ProxyError(x) == proxy # x /\ ~CanBind(x)
AdminAfter(x) == IF admin # x /\ ~PanelOff /\ CanBind(x) THEN x ELSE admin
AdminError(x) == admin # x /\ ~PanelOff /\ ~CanBind(x)

\* What becomes of one of the two moves.
Settled(side, refused) == astray' = IF refused THEN astray \cup {side} ELSE astray \ {side}

\* applyMu.  Wrong variants: no lock is taken, the deferred unlock is missing.
LockNothing(a) == mu' = a
LockForever == UNCHANGED mu
Lock(a) == mu = None /\ mu' = a
Unlock == mu' = None

Goto(a, l) == pc' = [pc EXCEPT ![a] = l]

\* Leaving applyLocked: `defer applyMu.Unlock()` and the HTTP answer.
Answer(r, l) ==
  /\ Goto(r, l)
  /\ Unlock
  /\ new' = [new EXCEPT ![r] = Missing]
  /\ old' = [old EXCEPT ![r] = Missing]
  /\ cfg' = [cfg EXCEPT ![r] = NoConfig]
  /\ failed' = [failed EXCEPT ![r] = FALSE]
  /\ job' = [job EXCEPT ![r] = None]

-----------------------------------------------------------------------------
(* Panel requests up to the first write.                                   *)

\* A request reaches the panel only where the panel listens.
Submit(r) ==
  /\ pc[r] = "idle"
  /\ admin # NoAddr
  /\ \E j \in Jobs :
       IF Acceptable(j)
       THEN Goto(r, "lock") /\ job' = [job EXCEPT ![r] = j]
       ELSE Goto(r, "err") /\ UNCHANGED job
  /\ UNCHANGED <<store, env, mu, new, old, cfg, failed, base>>

\* applyMu.Lock() in applySettings and applyConfigBytes.
LockRequest(r) ==
  /\ pc[r] = "lock"
  /\ Lock(r)
  /\ base' = State
  /\ IF job[r].kind = "put"
     THEN Goto(r, "read") /\ UNCHANGED new
     ELSE Goto(r, "check") /\ new' = [new EXCEPT ![r] = job[r].body]
  /\ UNCHANGED <<store, env, job, old, cfg, failed>>

\* applySettings reads the file and builds the new bytes; an unreadable file,
\* bytes that are not YAML and an empty document are errors, a bad line is not:
\* a list of rules from the page repairs it.
ReadAndMerge(r) ==
  /\ pc[r] = "read"
  /\ IF disk \in Documents
     THEN /\ new' = [new EXCEPT ![r] = Merge(disk, job[r].body)]
          /\ Goto(r, "check")
          /\ UNCHANGED <<mu, job, old, cfg, failed>>
     ELSE Answer(r, "err")
  /\ UNCHANGED <<store, env, base>>

\* applyLocked validates the new bytes and keeps the old ones.
Check(r) ==
  /\ pc[r] = "check"
  /\ IF Parses(new[r])
     THEN /\ old' = [old EXCEPT ![r] = disk]
          /\ Goto(r, "open")
          /\ UNCHANGED <<mu, job, new, cfg, failed>>
     ELSE Answer(r, "err")
  /\ UNCHANGED <<store, env, base>>

-----------------------------------------------------------------------------
(* os.WriteFile truncates, then writes; either half may fail.              *)

Truncate(r) ==
  /\ pc[r] = "open"
  /\ disk' \in Torn[new[r]]
  /\ touched' = TRUE
  /\ Goto(r, "write")
  /\ UNCHANGED <<memory, machine, mu, locals, base>>

WriteNew(r) ==
  /\ pc[r] = "write"
  /\ disk' = new[r]
  /\ touched' = TRUE
  /\ Goto(r, "load")
  /\ UNCHANGED <<memory, machine, mu, locals, base>>

\* A failed write returns at once: nothing is rolled back, what has been written
\* stays.
WriteFails(r) ==
  /\ "write_fails" \in Faults
  /\ pc[r] \in {"open", "write"}
  /\ Answer(r, "err")
  /\ UNCHANGED <<store, env, base>>

-----------------------------------------------------------------------------
(* loadConfig and activateConfig, shared by requests, the poller and main. *)

\* Reading the file and current.Store are one step: nothing another goroutine
\* does in between can be told apart from its doing it afterwards.
Load(a) ==
  /\ pc[a] = "load"
  /\ Parses(disk)
  /\ current' = Parse(disk)
  /\ cfg' = [cfg EXCEPT ![a] = Parse(disk)]
  /\ Goto(a, IF a = Main THEN "pid" ELSE "proxy")
  /\ UNCHANGED <<disk, proxy, admin, astray, env, mu, job, new, old, failed, base>>

\* applyLocked: a file that no longer parses is reverted.
LoadFails(r) ==
  /\ pc[r] = "load"
  /\ ~Parses(disk)
  /\ Goto(r, "undo_open")
  /\ UNCHANGED <<store, env, mu, locals, base>>

\* activateConfig collects the error of the proxy port and goes on.
SwapProxy(a) ==
  /\ pc[a] = "proxy"
  /\ a # Main
  /\ proxy' = ProxyAfter(cfg[a].listen)
  /\ failed' = [failed EXCEPT ![a] = ProxyError(cfg[a].listen)]
  /\ Settled("proxy", ProxyError(cfg[a].listen))
  /\ Goto(a, "admin")
  /\ UNCHANGED <<disk, current, admin, env, mu, job, new, old, cfg, base>>

\* The end of activateConfig inside applyLocked: success answers the request
\* (closing the established connections, which a payload may ask for, belongs
\* to module Connections); an error from either port starts the rollback.
SwapAdmin(r) ==
  /\ pc[r] = "admin"
  /\ admin' = AdminAfter(cfg[r].monitor)
  /\ Settled("admin", AdminError(cfg[r].monitor))
  /\ IF failed[r] \/ AdminError(cfg[r].monitor)
     THEN Goto(r, "undo_open") /\ UNCHANGED <<mu, locals>>
     ELSE Answer(r, "ok")
  /\ UNCHANGED <<disk, current, proxy, env, base>>

-----------------------------------------------------------------------------
(* revertConfig.                                                           *)

\* There was no old file: nothing is reverted.
UndoNothing(r) ==
  /\ pc[r] = "undo_open"
  /\ old[r] = Missing
  /\ Answer(r, "err")
  /\ UNCHANGED <<store, env, base>>

UndoTruncate(r) ==
  /\ pc[r] = "undo_open"
  /\ old[r] # Missing
  /\ disk' \in Torn[old[r]]
  /\ touched' = TRUE
  /\ Goto(r, "undo_write")
  /\ UNCHANGED <<memory, machine, mu, locals, base>>

UndoWrite(r) ==
  /\ pc[r] = "undo_write"
  /\ disk' = old[r]
  /\ touched' = TRUE
  /\ Goto(r, "undo_load")
  /\ UNCHANGED <<memory, machine, mu, locals, base>>

\* A failed write is only logged; the file is read back as it is.
UndoWriteFails(r) ==
  /\ "write_fails" \in Faults
  /\ \/ pc[r] = "undo_open" /\ old[r] # Missing
     \/ pc[r] = "undo_write"
  /\ Goto(r, "undo_load")
  /\ UNCHANGED <<store, env, mu, locals, base>>

\* Wrong variant of UndoLoad: the rollback ends with the memory.
UndoMemory(r) ==
  /\ pc[r] = "undo_load"
  /\ current' = IF Parses(disk) THEN Parse(disk) ELSE current
  /\ Answer(r, "err")
  /\ UNCHANGED <<disk, proxy, admin, astray, env, base>>

\* Memory and listeners are reverted only if the old file parses.
UndoLoad(r) ==
  /\ pc[r] = "undo_load"
  /\ IF Parses(disk)
     THEN /\ current' = Parse(disk)
          /\ cfg' = [cfg EXCEPT ![r] = Parse(disk)]
          /\ Goto(r, "undo_proxy")
          /\ UNCHANGED <<mu, job, new, old, failed>>
     ELSE Answer(r, "err") /\ UNCHANGED current
  /\ UNCHANGED <<disk, proxy, admin, astray, env, base>>

\* Bind errors of the rollback are only logged.
UndoProxy(r) ==
  /\ pc[r] = "undo_proxy"
  /\ proxy' = ProxyAfter(cfg[r].listen)
  /\ Settled("proxy", ProxyError(cfg[r].listen))
  /\ Goto(r, "undo_admin")
  /\ UNCHANGED <<disk, current, admin, env, mu, locals, base>>

UndoAdmin(r) ==
  /\ pc[r] = "undo_admin"
  /\ admin' = AdminAfter(cfg[r].monitor)
  /\ Settled("admin", AdminError(cfg[r].monitor))
  /\ Answer(r, "err")
  /\ UNCHANGED <<disk, current, proxy, env, base>>

-----------------------------------------------------------------------------
(* watchConfig and reloadNow.                                              *)

\* main starts the poller once the proxy listens; the goroutine's first stat
\* comes some time after main has read the file.
WatchStart ==
  /\ pc[Watcher] = "off"
  /\ pc[Main] \in {"admin", "done"}
  /\ touched' = FALSE
  /\ Goto(Watcher, "poll")
  /\ UNCHANGED <<store, machine, mu, locals, base>>

\* The tick remembers the new mtime before it reloads.
Poll ==
  /\ pc[Watcher] = "poll"
  /\ touched
  /\ touched' = FALSE
  /\ Goto(Watcher, "lock")
  /\ UNCHANGED <<store, machine, mu, locals, base>>

LockWatcher ==
  /\ pc[Watcher] = "lock"
  /\ Lock(Watcher)
  /\ base' = State
  /\ Goto(Watcher, "load")
  /\ UNCHANGED <<store, env, locals>>

\* Wrong variant of ReloadAdmin: the mtime is remembered after the reload.
ReloadThenStat ==
  /\ pc[Watcher] = "admin"
  /\ admin' = AdminAfter(cfg[Watcher].monitor)
  /\ Settled("admin", AdminError(cfg[Watcher].monitor))
  /\ touched' = FALSE
  /\ Unlock
  /\ Goto(Watcher, "poll")
  /\ UNCHANGED <<disk, current, proxy, machine, locals, base>>

\* The end of reloadNow: a port that could not be bound is reported and left.
ReloadAdmin ==
  /\ pc[Watcher] = "admin"
  /\ admin' = AdminAfter(cfg[Watcher].monitor)
  /\ Settled("admin", AdminError(cfg[Watcher].monitor))
  /\ Unlock
  /\ Goto(Watcher, "poll")
  /\ UNCHANGED <<disk, current, proxy, env, locals, base>>

ReloadFails ==
  /\ pc[Watcher] = "load"
  /\ ~Parses(disk)
  /\ Unlock
  /\ Goto(Watcher, "poll")
  /\ UNCHANGED <<store, env, locals, base>>

-----------------------------------------------------------------------------
(* main() and the end of the process.                                      *)

\* setupPlatform: the desktop build writes a first configuration where there
\* is none.  A failed write is only logged; it may leave the file it created.
Seeded(c) ==
  IF c # Missing \/ DesktopDefault = None THEN {c}
  ELSE {DesktopDefault} \cup (IF "write_fails" \in Faults THEN {Missing, Empty} ELSE {})

SetUp ==
  /\ pc[Main] = "setup"
  /\ disk' \in Seeded(disk)
  /\ Goto(Main, "load")
  /\ UNCHANGED <<memory, env, mu, locals, base>>

\* main writes the pid file before it binds anything, over what an earlier
\* process has left; a failed write is ignored.
WritePid ==
  /\ pc[Main] = "pid"
  /\ pidfile' \in {"ours"} \cup (IF "write_fails" \in Faults THEN {pidfile} ELSE {})
  /\ Goto(Main, "proxy")
  /\ UNCHANGED <<store, touched, editing, held, edits, crashes, mu, locals, base>>

\* What is left of the pid file when the process ends and does not remove it.
Orphaned(p) == IF p = "ours" THEN "stale" ELSE p

\* log.Fatal: there is no configuration, or the proxy port is taken.  The
\* deferred os.Remove does not run.
StartFails ==
  /\ \/ pc[Main] = "load" /\ ~Parses(disk)
     \/ pc[Main] = "proxy" /\ ~CanBind(cfg[Main].listen)
  /\ pidfile' = Orphaned(pidfile)
  /\ current' = NoConfig
  /\ Goto(Main, "dead")
  /\ UNCHANGED <<disk, proxy, admin, astray, touched, editing, held, edits, crashes, mu,
                 locals, base>>

StartProxy ==
  /\ pc[Main] = "proxy"
  /\ CanBind(cfg[Main].listen)
  /\ proxy' = cfg[Main].listen
  /\ Goto(Main, "admin")
  /\ UNCHANGED <<disk, current, admin, astray, env, mu, locals, base>>

\* main opens the panel, behind a database that may take seconds to open, from
\* the configuration it read itself and without applyMu: the poller may have
\* put another one in force by then.  A bind error only costs the panel.
StartAdmin ==
  /\ pc[Main] = "admin"
  /\ LET m == cfg[Main].monitor IN
       IF cfg[Main].disable
       THEN UNCHANGED <<admin, astray>>
       ELSE /\ admin' = AdminAfter(m)
            /\ Settled("admin", AdminError(m) \/ m # current.monitor)
  /\ Goto(Main, "done")
  /\ UNCHANGED <<disk, current, proxy, env, mu, locals, base>>

\* The process is gone and is started again on the file it left behind.  No
\* end takes a lock: requests in flight are lost.
Restart ==
  /\ "crash" \in Faults
  /\ crashes < MaxCrashes
  /\ crashes' = crashes + 1
  /\ current' = NoConfig
  /\ proxy' = NoAddr
  /\ admin' = NoAddr
  /\ astray' = {}
  /\ mu' = None
  /\ pc' = [a \in Actors |-> IF a = Main THEN "setup"
                           ELSE IF a = Watcher THEN "off"
                           ELSE IF pc[a] \in {"idle", "ok", "err"} THEN pc[a]
                           ELSE "lost"]
  /\ job' = [r \in Requests |-> None]
  /\ new' = [r \in Requests |-> Missing]
  /\ old' = [r \in Requests |-> Missing]
  /\ cfg' = [a \in Actors |-> NoConfig]
  /\ failed' = [a \in Actors |-> FALSE]
  /\ base' = [disk |-> disk, memory |-> NoConfig, proxy |-> NoAddr, admin |-> NoAddr]
  /\ UNCHANGED <<disk, touched, editing, held, edits>>

\* SIGINT and SIGTERM are handled once main has been at the pid file; the tray is there
\* when everything else has started.  Both end in shutdown().
Signalled == pc[Main] \in {"proxy", "admin", "done"}
TrayQuits == DesktopDefault # None /\ pc[Main] = "done"
Shutdown ==
  /\ Signalled \/ TrayQuits
  /\ Restart
  /\ pidfile' = "none"

\* A kill, a power cut; or the program is started again after log.Fatal.
Kill == Restart /\ pidfile' = Orphaned(pidfile)

\* A second switchproxy on the same file (a second double click) sets up, loads
\* and writes its pid before it finds the port taken and dies.
SecondStart ==
  /\ "second_start" \in Faults
  /\ pc[Main] \in {"admin", "done"}
  /\ disk' \in Seeded(disk)
  /\ touched' = (touched \/ disk' # disk)
  /\ IF Parses(disk')
     THEN /\ ~CanBind(Parse(disk').listen)
          /\ pidfile' \in {"stale"} \cup (IF "write_fails" \in Faults THEN {pidfile} ELSE {})
     ELSE UNCHANGED pidfile
  /\ UNCHANGED <<memory, editing, held, edits, crashes, mu, pc, locals, base>>

-----------------------------------------------------------------------------
(* The user's editor and the other programs of the machine.                *)

\* One step: an editor that renames over the file, or its removal.
EditRename(c) ==
  /\ "edit" \in Faults
  /\ edits < MaxEdits
  /\ disk' = c
  /\ touched' = TRUE
  /\ edits' = edits + 1
  /\ UNCHANGED <<memory, editing, held, pidfile, crashes, mu, pc, locals, base>>

EditOpen(c) ==
  /\ "torn_edit" \in Faults
  /\ edits < MaxEdits
  /\ editing = None
  /\ c # Missing
  /\ disk' \in Torn[c]
  /\ touched' = TRUE
  /\ editing' = c
  /\ edits' = edits + 1
  /\ UNCHANGED <<memory, held, pidfile, crashes, mu, pc, locals, base>>

EditClose ==
  /\ editing # None
  /\ disk' = editing
  /\ touched' = TRUE
  /\ editing' = None
  /\ UNCHANGED <<memory, held, pidfile, edits, crashes, mu, pc, locals, base>>

TakePort(x) ==
  /\ x \notin held \cup {proxy, admin}
  /\ mu = None \/ "port_thief" \in Faults
  /\ held' = held \cup {x}
  /\ UNCHANGED <<store, touched, editing, pidfile, edits, crashes, mu, pc, locals, base>>

FreePort(x) ==
  /\ x \in held
  /\ held' = held \ {x}
  /\ UNCHANGED <<store, touched, editing, pidfile, edits, crashes, mu, pc, locals, base>>

-----------------------------------------------------------------------------
(* The specification.                                                      *)

\* One step of the handler of request r.
Handler(r) ==
  \/ LockRequest(r) \/ ReadAndMerge(r) \/ Check(r)
  \/ Truncate(r) \/ WriteNew(r) \/ WriteFails(r)
  \/ Load(r) \/ LoadFails(r) \/ SwapProxy(r) \/ SwapAdmin(r)
  \/ UndoNothing(r) \/ UndoTruncate(r) \/ UndoWrite(r) \/ UndoWriteFails(r)
  \/ UndoLoad(r) \/ UndoProxy(r) \/ UndoAdmin(r)

Reloader ==
  \/ WatchStart \/ Poll \/ LockWatcher \/ Load(Watcher) \/ ReloadFails
  \/ SwapProxy(Watcher) \/ ReloadAdmin

Starter == SetUp \/ Load(Main) \/ WritePid \/ StartFails \/ StartProxy \/ StartAdmin

Environment ==
  \/ \E r \in Requests : Submit(r)
  \/ \E c \in Edits : EditRename(c) \/ EditOpen(c)
  \/ EditClose
  \/ \E x \in Addrs : TakePort(x) \/ FreePort(x)
  \/ Shutdown \/ Kill \/ SecondStart

Next ==
  \/ \E r \in Requests : Handler(r)
  \/ Reloader
  \/ Starter
  \/ Environment

Spec == Init /\ [][Next]_vars

\* The Go scheduler runs every goroutine that can run, time.Tick keeps ticking
\* and an editor that has opened the file writes it; nothing else the
\* environment may do has to happen.
FairSpec ==
  /\ Spec
  /\ \A r \in Requests : WF_vars(Handler(r))
  /\ WF_vars(Reloader)
  /\ WF_vars(Starter)
  /\ WF_vars(EditClose)

-----------------------------------------------------------------------------
(* Properties.                                                             *)

Critical == {"read", "check", "open", "write", "load", "proxy", "admin",
             "undo_open", "undo_write", "undo_load", "undo_proxy", "undo_admin"}
RequestPC == Critical \cup {"idle", "lock", "ok", "err", "lost"}
WatcherPC == {"off", "poll", "lock", "load", "proxy", "admin"}
MainPC == {"setup", "load", "pid", "proxy", "admin", "done", "dead"}

\* Every variable has its type: what is no configuration, or came with a bad
\* rule line, never becomes the active one.
TypeOK ==
  /\ disk \in Contents
  /\ touched \in BOOLEAN
  /\ editing \in Edits \cup {None}
  /\ held \subseteq Addrs
  /\ current \in Configs \cup {NoConfig}
  /\ proxy \in Addrs \cup {NoAddr}
  /\ admin \in Addrs \cup {NoAddr}
  /\ mu \in Actors \cup {None}
  /\ pc \in [Actors -> RequestPC \cup WatcherPC \cup MainPC]
  /\ \A r \in Requests : pc[r] \in RequestPC
  /\ pc[Watcher] \in WatcherPC
  /\ pc[Main] \in MainPC
  /\ job \in [Requests -> Jobs \cup {None}]
  /\ new \in [Requests -> Contents]
  /\ old \in [Requests -> Contents]
  /\ cfg \in [Actors -> Configs \cup {NoConfig}]
  /\ failed \in [Actors -> BOOLEAN]
  /\ astray \subseteq {"proxy", "admin"}
  /\ pidfile \in {"none", "ours", "stale"}
  /\ edits \in 0 .. MaxEdits
  /\ crashes \in 0 .. MaxCrashes

\* config.go:19, applyMu serialises "write and activate": whoever is between
\* its Lock and its Unlock is the holder, so no save, import or reload reads,
\* writes or activates while another one does.
Exclusive ==
  \A a \in Requests \cup {Watcher} :
    pc[a] \in Critical => mu = a

\* DESIGN.md 7.4, "a new port that does not come up must not cut the network":
\* from the moment main has bound it the proxy always listens somewhere, on an
\* address nobody else has, whatever is saved, imported or reloaded.
ProxyNeverDark ==
  pc[Main] \in {"admin", "done"} =>
    /\ proxy \in Addrs \ held
    /\ proxy # admin

\* DESIGN.md 7.4, "changing a port takes effect at once", seen from a state in
\* which nothing is under way: both listeners are where the configuration in
\* force puts them, unless the last attempt to move one there was refused, or
\* main opened the panel from a configuration no longer in force.  This holds
\* behind half-failed saves, rollbacks, reloads that met main, and restarts.
AtRest == mu = None /\ pc[Main] = "done"
ListenersFollow ==
  AtRest =>
    /\ "proxy" \notin astray => proxy = current.listen
    /\ "admin" \notin astray => \/ admin = current.monitor
                               \/ (admin = NoAddr /\ current.disable)

\* DESIGN.md 7.4, the transactional path: seen between transactions, file,
\* memory and both listeners move together or not at all, and concurrent
\* saves are computed one from the other.
Observed == IF pc[Main] = "done" /\ mu \notin Requests THEN State ELSE base
Store == INSTANCE ConfigStore WITH
           Imports <- Imports \cap Configs,
           Puts <- {p \in Puts : p.rules # BadRules},
           state <- Observed
Transactional == Store!Spec

\* Every request that got as far as applyMu is answered: no path leaves
\* applyMu locked, and none waits for another.
RequestsAnswered ==
  \A r \in Requests : (pc[r] = "lock") ~> (pc[r] \in {"ok", "err", "lost"})

\* README.md, hot reload: whatever has changed the file since the poller's
\* first look, the process comes to run what the file then says (unless that
\* does not parse, or the process has been restarted and could not start).
InSync == Parses(disk) => current = Parse(disk)
PollerCatchesUp ==
  (pc[Watcher] # "off" /\ touched) ~> (InSync \/ pc[Main] = "dead")

\* DESIGN.md 7.4, "validate, write, activate, roll back on failure"; config.go:197,
\* "a failed activation rolls back the file and the memory, and the old port
\* goes on serving": a request that is refused leaves what it found.
Refused(r) == mu = r /\ pc'[r] = "err"
RefusedRequestRollsBack == [][\A r \in Requests : Refused(r) => State' = base]_vars

=============================================================================
