# switchproxy in TLA+

A verification development for switchproxy, the rule-based local proxy of this
repository (`src/` below is the repository's root). It consists of TLA+ modules
translated from the Go and TypeScript sources, TLC configurations that
model-check them on small instances, and TLAPS proofs of what matters most of
the control plane and of the event log for every value of the constants.

Contents: 1 the system, 2 the modules, 3 the runs, 4 bounds, 5 fairness,
6 proofs, 7 what the checks found, 8 what is not modelled, 9 the plan.

## 1. The system

switchproxy listens on one port, recognises HTTP, CONNECT or SOCKS5 from the
first byte, matches the target host against an ordered list of rules, dials
directly or through an upstream proxy, and copies bytes both ways. A panel on a
second port shows live traffic and edits the configuration.

| component | state it keeps | operations | source |
|---|---|---|---|
| configuration control plane | the YAML file, `current` (atomic.Value), the two listeners, `applyMu` | PUT settings, import, hot reload by mtime, rollback, listener swaps, start | `config.go`, `main.go` |
| forwarding plane | per connection: two sockets, a bufio.Reader, deadlines, two copiers | handshake, dial, upstream handshake, replay, copy, teardown | `main.go` |
| connection table and counters | `conns`, totals, `domains`, ring of closed connections | register, addUp/addDown, unregister, CloseAll, closeConn, Snapshot | `stats.go` |
| counting wrapper | none of its own | Read and Write with a callback | `stats.go` |
| connection events | `eventsEnabled`, `eventsCh`, the writer's batch, `conn_events` | eventsEnqueue, eventsLoop, flushEvents, trimEvents | `history.go` |
| history tables | `lastTotals`, `lastDomains`, `traffic_points`, `domain_stats` | recordLoop, flushDomains, retentionLoop, queryHistory | `history.go` |
| WebSocket hub | `clients`, a channel and a `done` per client | handleWS, loop, writeLoop, readLoop, dropLocked | `admin.go` |
| live feed of the page | the socket, the last snapshot, the reconnect timer | connect, onmessage, onclose | `web/src/composables/useWs.ts` |
| rule parser and matcher | none (pure) | parseRule, matchAction | `main.go` |
| REST handlers | none | GET (read), PUT, POST import, POST close | `admin.go` |
| process life cycle | pid file, the process | setup, start, log.Fatal, shutdown by signal or tray, a second start | `main.go`, `windows.go` |
| settings page | a form, a rule table, two buttons | load, save, import, paste, move a rule | `web/src/views/Settings.vue` |
| history page | an answer per range | pick a range | `web/src/views/History.vue` |
| connection rates of the page | the previous frame | difference by id | `web/src/composables/useConnRates.ts` |
| charts, theme, formatting | none that outlives a frame | | `web/src/lib`, `web/src/views` |
| Windows shell, tray, build | | calls into the operating system | `windows.go`, `tray_windows.go`, `build.sh` |

How they interact. Every connection runs in a goroutine of `acceptLoop`; it
loads `current` once, dials, registers in the table and starts two copiers,
which call back into the counters and end through `unregister`, which posts an
event. The record loop and the hub read the counters under their own locks and
tickers. Panel requests and the poller meet at `applyMu`; a settings save may
end with `CloseAll`, which closes client sockets under the feet of the copiers.
`main` writes the pid file, starts the others and opens the panel without
`applyMu`, from the configuration it has read itself; `shutdown` takes no lock at
all. A second switchproxy on the same file gets as far as the pid file before it
finds the port taken. Outside are the user's editor, other programs' ports, the disk,
the database, the peers of a connection, the browser and signals.

What is hard, and what makes each component correct:

* **Control plane.** A save is a dozen steps (read, merge, check, write, load,
  two binds, and the same again for the rollback) that fail one by one, next to
  hand edits, a poller and kills. Correct: transactions do not overlap; file,
  memory and listeners move together or not at all; the proxy never stops
  listening; at rest both listeners are where the configuration in force says,
  or the last attempt to move one was refused; every request is answered; a
  changed file is taken up.
* **Forwarding.** Bytes that arrive with a handshake, half-closes, resets, two
  copiers of which the first to end takes the other down. Correct: what comes
  out is what went in, from the start and in order; an end of stream does not
  overtake data; handshake deadlines do not reach the data phase; nothing leaks.
* **Counters.** Three structures under three locks, read in pieces by
  snapshots. Correct: the levels agree when nobody is between them; the ring
  holds the newest; a closed connection does not come back; a cut cuts.
* **Events and history.** Full channels, a database that refuses, late
  wake-ups, midnights, restarts. Correct: at most once, in order, in time,
  nothing missing but what a refusal or a kill took, bounded on disk.
* **Hub.** A page that stops reading, three goroutines that may drop the same
  client. Correct: no frame is skipped or repeated, `done` is closed once, the
  hub never waits, nothing is left of a page that is gone.
* **Settings page.** Three chains of fetch calls that interleave at every await,
  a form anyone may edit meanwhile, a panel that moves away under its own page.
  Correct: the page ends up showing what the server decides by; saving what one
  has not touched changes no verdict; page and server agree on what a rule is.

The hazards are listed line by line in `PROJECT.json`, each with the properties
that cover it or the reason why none does.

## 2. The modules

| module | models | extends / uses |
|---|---|---|
| `ConfigApply` | the control plane and the life cycle of the process: requests, poller, main, pid file, editor, ports, shutdowns, kills, a second start | |
| `ConfigStore` | what the control plane promises: one value, replaced as a whole | instantiated by `ConfigApply` with a refinement mapping |
| `MCConfigApply` | instances of `ConfigApply` | `ConfigApply` |
| `ConfigApplyProofs` | types, mutual exclusion, the proxy never dark, listeners follow the configuration; without faults `ConfigApply` implements `ConfigStore` | `ConfigApply`, TLAPS |
| `Tunnel` | one connection, from its first byte to its last Close | |
| `TunnelProofs` | types; bytes in order and once; ends carried through; no end by itself | `Tunnel`, TLAPS |
| `Connections`, `MCConnections` | the table, the counters, CloseAll, snapshots | |
| `Sums` | laws of the library's sums over functions | TLAPS |
| `ConnectionsProofs` | types; counters agree; the ring is newest; nothing closed comes back | `Connections`, `Sums` |
| `Events` | event queue, writer, retries | |
| `EventLog` | what the event layer promises: one log, forgotten only from its old end | instantiated by `Events` with a refinement mapping |
| `EventsProofs` | types and limits; `Events` implements `EventLog`; stored once and in order | `Events`, TLAPS |
| `History`, `MCHistory` | minute points, day rows, retention, buckets | |
| `HistoryProofs` | types; points and rows account for every byte; filed in time; retention | `History`, `Sums` |
| `Feed` | hub, clients' goroutines, pages | |
| `FeedProofs` | types and limits; no frame skipped | `Feed`, TLAPS |
| `Rules` | parseRule and matchAction | |
| `Settings`, `MCSettings` | the settings page and the requests it exchanges with the panel | `Rules` |
| `SettingsProofs` | types; the page shows what the server decides by; saves, moves, pastes and jumps | `Settings`, `Sums`, TLAPS |

The modules meet at named points rather than in one product: a request of
`ConfigApply` that succeeds may cut connections (`Activate` of `Connections`);
`killed` of `Connections` ends as `ClosingEnds` of `Tunnel` says, if the server reads; `Enqueue` of
`Connections` is `ReadFlag` and `Send` of `Events`; `CountTotal` and
`CountDomain` occur in `Connections` and, feeding the loop, in `History`; a
round of the hub in `Feed` takes the snapshot whose two halves are `TakeActive`
and `TakeClosed` of `Connections`; `Apply` of `Settings` is a transaction of
`ConfigStore`, taken as one step.

Definitions called *wrong variants* stand in the modules next to what they vary
(`CloseFirst` beside `ProxyAfter`, `ReloadThenStat` beside `ReloadAdmin`).
They are plausible mistakes in that piece of code; no specification uses them.
Put in the place of the definition they vary, each breaks a property, which
shows that the property is sensitive to the code (`mutants` in `PROJECT.json`).

### ConfigApply

| variable | in the code |
|---|---|
| `disk`, `touched` | the file; whether its mtime differs from `last` of `watchConfig` |
| `current`, `proxy`, `admin` | `current`, `proxyAddr` of `proxyLn`, `adminAddr` of `adminLn` |
| `mu` | the holder of `applyMu` |
| `pc`, `job` | the line of each goroutine, what a request asks for |
| `new`, `old`, `cfg`, `failed` | `newBytes`, `oldBytes`, the loaded configuration, an error of `activateConfig` |
| `held`, `editing` | other programs' ports, a half-written file in somebody's editor |
| `base` | history: file, memory and listeners when `applyMu` was taken |
| `astray` | history: the listeners whose last move was refused, or that main opened by a configuration no longer in force |
| `pidfile` | whose pid the file holds: nobody's, this process's, one that is gone |

A configuration keeps what the properties tell apart: the two addresses,
`monitor.disable` and the rules, which a save may leave alone. Contents that are
no configuration are `Empty` (legal YAML: all defaults), `Garbage` and `Missing`.
`Documents` are files whose root is a mapping, which is all `buildSettingsConfig`
asks for: one with a bad rule line does not parse, and is repaired by a save from
the page.

The actions follow `applySettings`/`applyConfigBytes`/`applyLocked` line by line
(`LockRequest`, `ReadAndMerge`, `Check`, `Truncate`, `WriteNew`, `WriteFails`,
`Load`, `LoadFails`, `SwapProxy`, `SwapAdmin`), then `revertConfig` (`Undo...`).
`os.WriteFile` is two steps because it truncates before it writes: the poller, an
editor or a kill may come between, and find nothing or one of the beginnings of
the new content (`Torn`), which may be YAML or not. `WatchStart`, `Poll`, `LockWatcher`, `Load`,
`ReloadFails`, `SwapProxy`, `ReloadAdmin` are `watchConfig` and `reloadNow`;
`SetUp` is `setupPlatform` (the desktop build writes a first configuration where
there is none), `Load`, `WritePid`, `StartProxy`, `StartAdmin` and
`StartFails` (`log.Fatal`) are the rest of `main`. `Shutdown` (signal or tray) and
`Kill` end the process at any step and start it again on whatever files are
left; the first removes the pid file, the second orphans it. `SecondStart` is
another start of the program on the same files, which sets up, loads, writes its
pid and dies on the taken port. The environment's powers are chosen by `Faults`.

`ConfigStore` has three actions, `Start`, `Save` and `Import`. The refinement
mapping `Observed` shows the state between transactions: while a request holds
`applyMu`, or main is starting, it is `base`.

### Tunnel

Chunks are numbered per direction; chunk 0 is the proxy's own (its answer to
the client, or the head of a plain request it rewrites). `early` is what the
handshake's bufio.Reader holds beyond the head, `taken` what has been read from
a source, `out` what has been written to a destination, `read` how much of it
the destination has read. `Handshake` ... `Register` are `handleConn`,
`serveHTTP`, `serveSocks5` and the dialers; `Replay`, `StartCopiers`, `Wait` are
`tunnel()`; `Unregister`, `CloseServer`, `CloseClient` its deferred calls in
their order; `Read`, `CountRead`, `Write`, `CountWrite` are `io.Copy` through
two `countingConn`s. The peers send, half-close, close, reset and read as they
please; `PanelClose` is `closeConn`.

### Connections

`Insert`, `CountConn`, `Aggregate` are the three structures `register` updates,
`CountMeta`, `CountTotal`, `CountDomain` those of `addUp`, `Delete`,
`AppendRecord`, `Enqueue` those of `unregister`: one action per critical
section, as no lock covers two of them. `LoadConfig` and `Dial` precede the
registration by up to 15 seconds. `Read` is the copier's read, from which it may
come back to count when the connection is gone already. `Activate`, `CopyTable`, `CloseTargets` are a
save with `closeConns`, `CloseConn` is the panel's close button; `killed` holds
the connections of the table whose client socket the panel has closed, `Reading`
(a constant) those whose server goes on reading what it is sent.
`TakeActive`, `TakeClosed` are the halves of a snapshot.
`log` and `shown` are history variables.

### Events

`Open` is `openHistory`, `ReadFlag` and `Send` the two halves of
`eventsEnqueue` (the flag is read before the send), `Take`, `Tick`, `Commit`,
`FlushFails` the branches of `eventsLoop` and `flushEvents`. `cap` is the
capacity of the batch's slice, which decides when a batch is flushed and which
`append` may enlarge while the database refuses. `order`, `trimmed`, `lost` are
history variables. `EventLog` knows only what has been taken, what waits and what
is stored; the mapping puts batch and channel, in this order, into `waiting`. A
trim of the batch's old end, a kill that loses both and a commit are all steps
of the log that take a prefix off `waiting`. The retention of `conn_events`,
which takes rows off the old end of the table, is left out of both.

### History

Time is counted in minutes. `Minute` is one in which the machine runs, `Asleep` one
in which it is suspended (or the program is not running): the retention loop's
`time.Tick` does not count the latter, so that the next deletion is put off by
it. `Top`, `Wake`, `FilePoint`, `FileDomain`, `Again`
are one turn of `recordLoop` with `flushDomains`, `Clean` is one turn of
`retentionLoop` (two deletions, either of which the database may refuse),
`Query` the bucketing of `queryHistory`. One counter stands for up, down and
connections. `before[m]` (history) is what had moved before minute m; `lost`,
`lostDom`, `gone`, `goneDom` (history) are what refusals, kills and retention
have cost, `missed` how many deletions in a row a table has been refused, `slept`
how many minutes have been slept through since one was not.

### Feed

A frame is the number of its tick. `Tick`, `Visit`, `RoundEnds` are a round of
`wsHub.loop`, which keeps `hub.mu` throughout; `DropLocked` is used by the hub,
`WriterDrops` and `ReaderDrops`. `Add` and `Start` are separate, as the client
is in the table before its goroutines run. `UnderWay` is everything between
the hub and the page: channel, writer's hand, socket.

### Rules

A rule line is a record of its parts; `three` says that it has three of them,
`odd` that it is spelled with blanks or lower case, which every reader evens
out. A name is a sequence of labels and dots, so that "suffix behind a dot" and
"contains" mean what `matchAction` makes of them; a CIDR is the set of addresses
in it. `Verdict` is the loop of `matchAction`: the first rule that hits decides.

### Settings

| variable | in the code |
|---|---|
| `form`, `rows` | `form.monitorListen`, `rules` |
| `at`, `body`, `got` | where `onMounted(load)`, `save()` and `doImport()` are: before, at and behind each await; what is on its way to the server and back |
| `busy` | `saving`, `importing` |
| `host`, `jumps`, `there` | `location.host`, the timers that will leave for another address; whether the panel answered when the page was opened |
| `server`, `panel`, `ver` | `current` of the process; `adminAddr`, where the panel really listens; history: how often `current` has changed |

The configured address is a string the panel listens on, and the page compares
that string with `location.host`. `Reach` says which hosts a browser may find a
panel at that listens there: `127.0.0.1:9090` can be reached as itself and by a
name, `:9090` or `0.0.0.0:9090` not as itself. An address that reaches itself is
one *of a host* (`OfHost`). `panel` differs from `server.monitor` when a reload
could not move the panel (`config.go:276-278`), or a rollback could not move it
back.

`AddRule`, `DelRule`, `MoveRule`, `SetRow`, `SetMonitor`, `AppendPaste`, `Save`,
`DoImport` are the user's. `Apply`, `RefuseRules`, `RefuseOthers`, `Reply`, `Get` are the
handlers: a bad rule line is always refused, and any request may be refused for
what the model leaves out, that is, another field which `validate` does not take
although `parseConfigBytes` does (a default that is no action, an upstream without a
port), a file that cannot be read or written, or a listener that cannot be
moved. `Succeeded`,
`WasRefused`, `Loaded`, `FetchFails` what the page does with an answer or the
lack of one. Apply and Reply are two steps because `handleConfigImport` loads
`current` again, without the lock, to say where the panel is. `Other` is
another page or a reload. `touched`, `seen`, `outside`, `trouble`, `sure` are
history variables.

## 3. The runs

Runs that pass (distinct states found by TLC in parentheses):

* `config_atomic` (32 thousand): two concurrent requests, poller, no faults but
  ports that are taken when a request begins. `Exclusive`: whoever is between
  Lock and Unlock holds `applyMu`. `Transactional`: `ConfigApply` implements
  `ConfigStore`, that is, file, memory and both listeners change together, a
  save is computed from the configuration in force, and a refused request (a
  bad line, a taken port, also when only one of the two is taken) changes
  nothing. `RequestsAnswered`: no path keeps the lock, nobody waits for ever.
* `config_faults` (1.0 million): one request with renaming and torn hand edits,
  one of them with a bad line, failing and partial writes, a program that takes ports at any moment, a desktop start
  without a file, a second start, and a shutdown or kill and a restart at any
  step. `ProxyNeverDark`: the proxy listens from its first bind on, on an
  address nobody else has. `ListenersFollow`: when nothing is under way both
  listeners are where memory says, unless the last move of one was refused.
  `PollerCatchesUp`: what changes the file after the poller's first look
  comes into force, if it parses.
* `tunnel` (709 thousand): a CONNECT or plain request, dialled directly or
  through an HTTP upstream, every behaviour of both peers and the panel.
  `InOrder`, `EofMeansDelivered`, `IdleTunnelSurvives`, `CopiersEnd`,
  `ClosingEnds`.
* `connections` (866 thousand): `CountersAgree` (three levels, number and
  volume), `RingIsNewest`, `NoResurrection` (a snapshot taken in pieces never
  shows a connection as active after one that showed it as closed),
  `CutConnectionsEnd` (a save that cuts is answered whatever the connections do,
  and those it found in the table end if their server goes on reading).
* `events` (52 thousand): `StoredOnceInOrder` accounts for every event the
  channel took, through refusals, trims and kills; `ImplementsLog`: queue,
  batch and table are one `EventLog`; `EventuallyStored`.
* `history` (5.8 million, domains interchangeable): `PointsAccountForAll` and `DomainsAccountForAll` are
  equations between what was moved and what is filed, deleted, pending or
  lost; `NothingIsFiledLate`; `RetentionWindow`: a table reaches back no further
  than its limit, one period, one more for every turn in a row that was refused,
  and the time slept through since one was not.
* `feed` (239 thousand): `NoFrameSkipped`, `RoundsEnd`, `GoneClientsLeave`;
  `TypeOK` says that `done` is closed at most once.
* `settings` (201 thousand): `UntouchedFormIsServer` (at rest the page decides as
  the server does), `UntouchedSaveKeepsRouting` (a save of what was read is not
  refused for its rules and, applied, changes no verdict), `PageJudgesAsParser`
  (of rules, what the page lets through or leaves out is what `parseRule` takes or
  refuses),
  `MoveKeepsOthers` (a move changes verdicts only
  of what both rows hit), `JumpLandsOnPanel` (once answered the page stays or
  goes where the panel is found, if its address is one of a host),
  `ButtonsComeBack`. The properties
  compare verdicts of `matchAction`, not lists of rules.

Runs that end in a counterexample, each checking one sentence of the
repository's documentation against the code: `config_write`, `tunnel_upstream`,
`tunnel_count`, `connections_cut`; see section 7.

Deadlock is checked where the system cannot stop: the poller and the hand-off
of ports keep `ConfigApply` alive. It is off (`CHECK_DEADLOCK FALSE`) where a
behaviour really comes to an end: connections run once, clocks and frames are
bounded.

## 4. Bounds

Every bound is a constant.

* Control plane: three addresses are the fewest on which a port can move, two
  ports can change places and a third party can be in the way. Two requests and
  the poller give all pairs of critical sections. One edit, one end of the
  process at any step, and one request, in the run with faults, with any number
  of second starts, refused writes and taken ports: a second edit adds only
  states in which the poller starts again from a file it has not read. Payloads move
  either port, exchange them, change only the rules, or hold a bad line; imports
  include garbage and a configuration that disables the panel. A part of a
  file is nothing, not YAML, or (`MCTorn`) the same configuration with its list of
  rules cut short.
* Tunnel: two chunks up (one may arrive with the head, the other later), one
  down, a window of one chunk, so that every write can block. SOCKS5 on the
  inbound side differs from CONNECT in bytes only, and the SOCKS5 dialer from a
  direct dial in that it takes longer; the runs leave both out and the module
  keeps them.
* Connections: two that share a host, a ring of one record and a feed of one,
  so that the second record displaces the first; two configurations, hence one
  CloseAll; each connection counts once; one of the two servers goes on
  reading.
* Events: a channel of two, a batch of two that grows to three, four events, two
  refusals, one kill: the channel can be full while the batch is over its limit.
* History: days of two minutes, four minutes, two domains: two midnights,
  deletions of points and of rows, two amounts that may fall into one row or
  two, one restart, one late wake-up, one minute slept through between two
  deletions, one refusal, of a write or of a deletion.
* Feed: a channel of one frame and a window of one, four ticks: the fourth
  finds channel, hand and window full. Two sockets are a page and its reload,
  or an old client that lingers beside the new one.
* Settings: three things the user or others do, which is a change, a save and an
  import under way at once, or a save, a change behind it and somebody else's;
  three rows; rules of all five types, values with a comma, a CIDR that is none,
  lines of four parts and of a type nobody knows. Targets are a name, a
  subdomain of it and an address. The panel may listen at an address of a host
  that also has a name, at another, and at one of no host.

## 5. Fairness

* Goroutines that can run, run: WF on each request's handler, on the poller, on
  main's start, on each copier, on the events writer, on the hub. A request
  waiting for `applyMu` needs no more than WF in the instance, as each of the
  few requests takes the lock once and the poller polls only after a change.
* `hub.mu` is contended for ever (the hub takes it every second), so `Feed`
  asks SF of whoever waits for it; Go's mutex hands itself over to a waiter
  that has starved for a millisecond.
* An editor that has opened the file writes it (`EditClose`). Nothing else the
  environment may do has to happen: no edit, no kill, no port freed.
* No fairness on `Handshake` (a client need not send its head), on peers
  sending, closing or half-closing, on pages, or on connections ending.
  `CopiersEnd` needs nothing from the peers; `ClosingEnds` needs peers that read
  what they are sent, and says so.
* The database refuses a bounded number of times (`MaxFails`); `EventuallyStored`
  would be false of one that refuses for ever.
* `Settings`: a fetch is answered or throws, and a timer fires. The user and others
  need not do anything.
* `Delete` in `Connections` is fair only for a connection whose client socket
  the panel has closed and whose server goes on reading (`Reading`): this is
  `ClosingEnds` of `Tunnel`, with its condition, taken as an assumption there. With
  a server that has stopped reading and sends nothing, one copier stays in its
  Write and the other in its Read, and `tunnel` waits for both.

## 6. Proofs

Eight modules hold theorems. Those about `ConfigApply` hold for every set of
addresses, rule lists, requests, payloads and contents, every number of edits
and kills, and (but for `Transactions`) every set of faults, under two
assumptions declared there: `ConstantsAssumption` (the constants have their
types) and `MarkersAssumption` (markers such as `NoAddr`, `Empty` or `None`
differ from real values and from each other; requests, the poller and main are
different goroutines). Those about `Events` hold for every set of events, every
capacity of channel and batch and every number of refusals and kills, under the
`ConstantsAssumption` of `Events`, those about `Feed` for every set of pages
and sockets and every length of channel and socket under that of `Feed`, those
about `Tunnel` for every set of protocols and routes, every number of chunks and
every window.

Those about `Connections` and `History` add up over all connections and all
domains, so that their `ConstantsAssumption` asks for finitely many: a process
has no more. That of `History` also says that the loop is never later than the
retention is long: `MaxLate <= KeepPoints` and `MaxLate <= KeepDays * DayLen + 1`.
Minutes are kept for 30 days and days for 90 (`history.go:263`), so that this
leaves out only a turn of the record loop more than a month late: the amount of
before is then filed under its own, expired minute, and deleted at the next
turn. A single sleep with the program running is bounded by the same; how long
the machine sleeps in all between two deletions (`MaxSleep`) is not.

Those about `Settings` hold for every set of addresses, values, CIDRs and targets,
every default, every row, paste, import and configuration, and every number of
rows and operations. Its `ConstantsAssumption` says of a configuration in force
that each of its rules parses (`parseConfigBytes` refuses any other), and of a
line of three parts that its value has no comma in it. `Reach` may be any relation
between addresses and hosts.

TLC evaluates all assumptions on every run.

`ConfigApplyProofs`:

* `Typing`: `Spec => []TypeOK`. `TypeOK` is not inductive: `Load` stores what it
  parsed in `cfg`, and only `pc` tells that a later bind reads a configuration
  there and not `NoConfig`; `LockRequest` copies a job's body into `new`, and
  only the guard of `Submit` says that the job was acceptable. The invariant is
  `Typed == World /\ Own`: `World` types what goroutines share, `Own` what they
  keep to themselves, with `Loaded` (a goroutine past its load has a
  configuration) and `Asking` (a request under way has a job its handler
  accepted). `AnswerOwn` and `GotoOwn` state once what leaving and advancing
  preserve; one lemma each for handlers, poller, start and environment follows.
* `MutualExclusion`: `Spec => []Exclusive`. Given `Typed`, `Exclusive` is
  inductive; each action leaves the lock alone inside the section, takes it, or
  gives it back on the way out (`ExclusiveGoto`).
* `NeverDark`: `Spec => []ProxyNeverDark`. Given `Typed`, it is inductive because
  `ProxyAfter` and `AdminAfter` bind before they close (`SwapKeepsPort`), and
  because a port is taken by others only when nobody has it. The panel's
  address is part of it: without `proxy # admin` a swap could not know that the
  free address it binds is not the panel's.

* `Followed`: `Spec => []ListenersFollow`. The property speaks of states at rest
  only, so its strengthening `FollowInv` says what holds on the way: `Early`
  (before the proxy is bound there is no panel, no poller, no request),
  `InForce` (whoever moves listeners has in hand the configuration that is in
  force, as nobody else stores one meanwhile: this is where `Exclusive` is
  used), and `Following` (a listener is where it belongs, or its move was
  refused, or somebody is on the way to move it).
* `Transactions`: `Faults = {} => (Spec => Transactional)`. Every step of
  `ConfigApply` is a step of `ConfigStore` or a stutter under the mapping
  `Observed`. The invariant `CalmInv` says where file, memory and listeners
  stand at each line: `Stage` for the holder of `applyMu`, relative to `base`,
  the state it began with; `Reserved` (both old addresses are still nobody
  else's, so that a rollback finds at least one listener in its place and the
  other's address free); `Resting` (between transactions all four agree);
  `Reloading` (the poller finds what is in force already); `Starting` and
  `Dormant` (until the panel is open nobody else is at work). `ProxyNeverDark` is
  needed for the rollback: it keeps the two listeners from being in each
  other's way. The only visible steps are `StartAdmin` (`Start`) and the last
  swap of a request that succeeds (`Save` or `Import`, by `MergeIsSaved`).
  With faults the statement is false, and section 7 says how.

`EventsProofs`:

* `Typing`: `Spec => []TypeOK`, which includes the limits of channel and batch.
  Its strengthening adds `Slack` (a batch not being flushed is shorter than the
  grown capacity, so that it need not grow twice) and `Fresh` (a goroutine about
  to send brings an event the channel has not had).
* `Implementation`: `Spec => ImplementsLog`. Channel and batch are one queue:
  an event that moves from one to the other stays where it is in the whole
  (`TakeInPlace`), a trimmed batch takes a prefix off the whole
  (`TrimIsPrefix`), a commit moves a prefix to the table (`SplitWhole`).
* `KeptInOrder`: `Spec => []StoredOnceInOrder`, inductive together with `Fresh`
  and `Gone` (only what the channel has taken is thrown away or lost). Whatever a
  trim or a kill takes is a piece cut out of table, batch and channel, and
  `CutOut` says that the rest stays in order and has nothing in common with the
  piece: this is where *once* is needed.

`FeedProofs`:

* `Typing`: `Spec => []TypeOK`, which says that `done` is closed at most once
  however hub, writer and reader race for a client, and that channel and socket
  keep their limits. Its strengthening needs `Table`: the clients are exactly
  the sockets the server has open, so that whoever drops a client that is still
  in the table is the first to close it (`Dropped`).
* `NoSkip`: `Spec => []NoFrameSkipped`. Socket, writer and channel of a client
  are one queue (`UnderWay`), and `Rows` says of it what the property says;
  `Frames` adds that nothing is under way to a client before it is in the table,
  and that the writer holds a frame only while it writes. Steps that leave a
  client's queue, number and pages alone are dealt with once (`Undisturbed`,
  `Elsewhere`); what remains is a visit of the hub, which appends the next frame,
  and a message a page takes, which removes the first.

`TunnelProofs`:

* `Inv` has six parts. `Phases`: which goroutine can be where, when the others
  are somewhere (no copier before the answer, none left running alone but after
  the other has ended; a deadline only while the upstream's answer is awaited or
  on a socket that is closed). `Sockets`: which sockets can be closed or reset
  by then, and that a side that has closed sends no more. `InHand`: chunks in
  the reader and in the copiers. `Ends`: an end of stream was met with all
  chunks read. `Stream` is the heart: the n-th chunk written is the n-th of the
  promise, and the number of chunks written is `Lead(d) + Passed(d)`, the
  proxy's own and those that have gone through, with less only at a side that
  takes no more. The count is what makes it inductive: a prefix alone would not
  tell which chunk a copier has to write next, nor that a replay that could not
  be written is never followed by a chunk that could.
* `Orderly` (`InOrder`) and `Delivery` (`EofMeansDelivered`) follow from `Stream`,
  by way of `Promised`, which says what the sequence `Promise` is.
* `NotByItself` (`IdleTunnelSurvives`): a copier ends at the end of its stream or
  on a socket that fails it, and such a socket was reset by a side that had
  closed, or closed by the panel, or by the handler after the other copier had
  ended (`NoSelfEnd`).

`Sums`: `SumFunctionOnSet` is defined by recursion over a set. The laws the next
two modules need (a sum changes by what one of its terms changes by, the sum of
the parts of a partition, `SumGroups`: adding up by groups adds up to the whole)
are proved with the library's theorem that a well-founded order has a least
element where one is asked for: a smallest set without a sum would have a
smaller one.

`ConnectionsProofs`:

* `CountersAgree` speaks of moments when nobody is between two counters, and is
  not inductive. `TotalConns`, `HostConns`, `TotalUp` and `HostUp` say what the
  levels differ by at every moment: the connections, or chunks, of those who are
  between the two (`Before`). Each step of a copier or handler moves one of them
  from one set to the next and changes one counter. `Agreement` is the case in
  which the sets are empty.
* `Newness` (`RingIsNewest`): `Recorded` says that the ring is the end of the log,
  as long as the ring allows, and that no connection is logged twice; `Places`
  that a connection is logged only once it is past its append.
* `NoneComesBack` (`NoResurrection`): only logged connections are shown as closed,
  and no logged connection is in the table; a snapshot takes the table first.

`HistoryProofs`:

* `Typing` needs `Labels`, where the loop stands relative to the clock and to the
  points: the label it waits for is ahead of every point.
* `PointsAddUp` (`PointsAccountForAll`): `PointSum` is the equation without
  buckets, for one sum over all points; `Buckets` shows that buckets of any width
  partition the minutes, so that (`SumGroups`) they add up to the same. A write
  that adds to a point moves an amount from `delta` to the sum, a refused one to
  `lost`, a kill what was not filed.
* `DomainsAddUp` (`DomainsAccountForAll`) is inductive as it stands, given the
  types: a row is added to by what its domain's last filed amount advances by.
* `InTime` (`NothingIsFiledLate`) needs `Befores`: what had moved when a minute
  was over is no more than what has moved, and the point being written carries
  all of it.
* `WithinTheWindow` (`RetentionWindow`): the property measures age by the clock,
  which moves without a deletion; `Window` measures it by the moment of the next
  deletion (`due`), which only a turn of the retention loop moves on, by one
  period, a refused one pays for with `missed`, and a sleep, which moves clock and
  deletion alike, with `slept`.

`SettingsProofs`:

* `Inv` strengthens the types by what each chain of fetches may still bring about.
  `Phases`: who can be where, and that every request was one of the user's steps
  (which is what bounds `ver`). `Sent` and `Answers`: what is on its way to the
  server and back. `Read`: a form read at the version in force, and not edited
  since, shows it. `Untouched`: so does a save of it that is under way. `Coming`: a
  form of an older version will be read again by somebody, or the page is about
  to leave, or somebody else has interfered. `Landing`: what a chain nothing has
  interfered with knows of the panel's address, until it has its answer.
* `FormIsServer` (`UntouchedFormIsServer`) is `Coming` and `Read` at rest, and
  `ShowsTheRules`: rows loaded from lines that parse are the rules parseRule makes
  of them. `SavesRouting` (`UntouchedSaveKeepsRouting`) is `Untouched` and
  `SendsTheRules`: the lines written from those rows parse to the same rules.
* `JudgedAlike` (`PageJudgesAsParser`): a save under way carries unmarked rows only
  (`Sent`), and the loop of `appendPaste` loses no line it should take
  (`TakenType`, by the first number of lines after which it would have).
* `MovingKeeps` (`MoveKeepsOthers`): what the first rule that hits decides
  (`Deciding`) is the same rule before and after two neighbours have changed
  places, unless it is one of them and the other hits too (`MovedDecides`).
* `JumpLands` (`JumpLandsOnPanel`) is `Landing`.

Only model-checked: every liveness property (the prover does not handle fairness
and ENABLED).

## 7. What the checks found

Each is a counterexample of a run, with the line of documentation it denies.

* **Half a rollback** (`config_write`): when `os.WriteFile` fails in
  `applyLocked` the handler returns without reverting. The file is truncated, the
  poller loads it as a configuration of defaults, and the user's rules are gone,
  although the request was refused. DESIGN.md 7.4 calls the path transactional.
* **Lost first bytes** (`tunnel_upstream`): `dialHTTPUpstream` drops its
  bufio.Reader with whatever the upstream sent right behind its 200. DESIGN.md
  says that the replay in `tunnel()` makes up for it, but that is the client's
  reader.
* **Counted twice** (`tunnel_count`): both wrappers of a tunnel have both
  callbacks, so each chunk is counted on its way in and on its way out, against
  "exact by nature" in DESIGN.md 3.
* **Not cut** (`connections_cut`): a connection that has chosen its way by the old
  rules and is still dialling is not in the table `CloseAll` copies, and lives
  on by the old rules, against README.md's "at once".

Noted while modelling, without a run of its own:

* A minute is filed under its end (`history.go:109`; `Top` and `Query` of
  `History`), so that a bucket starts with traffic from before its start, while
  the comment at `history.go:25` calls the point's time the start of its bucket.
* `save()` decides where to jump by the form as it is after the await
  (`Settings.vue:84`), and a slow answer to an older GET replaces a newer form;
  `JumpLandsOnPanel` and `UntouchedFormIsServer` leave these cases out by name
  (`sure`, `trouble`).
* `main` opens the panel from the configuration it read before the database was
  opened (`main.go:593`); if the poller has put another one in force by then, the
  panel stays at the old address until the file changes again. `StartAdmin` marks
  such a panel as `astray`, and `ListenersFollow` leaves it out.
* A second start on the same file overwrites the pid file of the process that
  serves, before it finds the port taken, and leaves it behind when it dies
  (`main.go:565-577`; `log.Fatal` skips the deferred removal), so that scripts no
  longer find the process that serves; DESIGN.md:248 says the file lives and dies
  with the process. `SecondStart`, `WritePid` and `StartFails` model it; that the
  file names the process that serves is false, and no property says it.
* A connection the panel has closed stays in the table as long as its server
  reads nothing and sends nothing (`main.go:264-273`: no deadline), while
  `stats.go:306` says that closing the client brings the rest about.
* The page compares the configured address of the panel with `location.host`
  (`Settings.vue:84`, `175-182`). With an address of no host (`:9090`,
  `0.0.0.0:9090`, both taken by `config.go:41`) every save and every import sends
  the page to a place where no panel answers, with a name in the browser's
  address bar to another spelling of the same place, against the hint at
  `Settings.vue:215`. `JumpLandsOnPanel` speaks of addresses of a host.
* The page may be refused a save of exactly what it has read: the file may hold
  a `default` that is no action or an upstream without a port, which
  `parseConfigBytes` takes (`main.go:113-131`) and `validate` does not
  (`config.go:44-58`), or a reload may have left a listener where it was
  (`config.go:276-278`), so that the save tries to move it again.
* `acceptLoop` returns on any error (`main.go:476`), also on one that passes,
  such as too many open files; the socket stays bound, so that a save of the
  same address does not help.
* The ranking of domains sorts by bare columns beside `GROUP BY`
  (`history.go:326`), that is, by one row of each domain and not by its sums.
* The maps of domains and rules in `stats.go` only grow, while DESIGN.md:39 and
  261 speak of bounded memory.
* The history handler reads `adminHdb` without `adminMu` (`admin.go:275`).

## 8. What is not modelled

* `default` and `upstream` in a configuration: a save overwrites them as it does
  `listen`, and nothing reads them in the control plane.
* The bytes of CONNECT, SOCKS5 and upstream handshakes: `Handshake` says that a
  head has arrived whole or has not. A second request on a plain-HTTP
  connection: it is tunnelled as bytes.
* The rate ring of `sampleLoop`, the ordering of top lists and of the domain
  ranking: functions of one snapshot, which no property of this project is
  about. The retention of `conn_events`, which is the same DELETE once more.
* Presentation in the browser; the log file, its rotation, icon and browser of
  the Windows shell, which are calls into the operating system.
* A second switchproxy whose configured port happens to be free, and which
  therefore runs: from then on two processes share one file, which nothing in
  the code arbitrates.
* Accept errors other than a closed listener. A file changed between main's load
  and the poller's first look, and two changes within one mtime granule:
  `PollerCatchesUp` begins at the first look and says so.
* A reload whose port is taken is reported once and not tried again when the
  port becomes free.
* Of the settings page: the single fields other than the panel's address (what
  they may be refused for is `RefuseOthers`), how an address is spelled (`Reach`
  says where it leads), the switch for cutting connections, the reading of a local file, the messages. A
  request that the server carries out after the page has given it up counts
  as a change by others.
* The history page (one fetch per range; an overtaken answer wins) and the
  connection rates of the page (differences of two frames by id, wrong for one
  frame after a restart of the proxy, when ids start over). Both are listed as
  hazards; nothing in the repository says what should happen.
* A commit that is reported as failed and has happened all the same: SQLite on a
  local file reports a failure after rolling back.
* `GET` handlers read one snapshot and change nothing.

## 9. Plan

Done: the models, and proofs of every safety property the passing runs check.
Next:

1. An abstract connection (bytes in, bytes out, ended) that `Tunnel` implements.
2. `Panel`: the history page whose answers may arrive out of order, the
   connection rates keyed by identifiers that start over with the process.
