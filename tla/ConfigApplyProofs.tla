--------------------------- MODULE ConfigApplyProofs ---------------------------
(***************************************************************************)
(* Theorems about ConfigApply, for every set of addresses, requests,       *)
(* payloads and faults.                                                    *)
(***************************************************************************)
EXTENDS ConfigApply, TLAPS

\* A goroutine past its load has a configuration in hand.
Loaded ==
  \A a \in Actors :
    pc[a] \in {"pid", "proxy", "admin", "undo_proxy", "undo_admin"} => cfg[a] \in Configs

\* A request on its way has a job its handler accepted; only a save reads the
\* file first.
Asking ==
  \A r \in Requests :
    /\ pc[r] \in {"lock"} \cup Critical => job[r] \in Jobs /\ Acceptable(job[r])
    /\ pc[r] = "read" => job[r].kind = "put"

\* The variables the goroutines share, and those they keep to themselves.
World ==
  /\ disk \in Contents
  /\ touched \in BOOLEAN
  /\ editing \in Edits \cup {None}
  /\ held \subseteq Addrs
  /\ current \in Configs \cup {NoConfig}
  /\ proxy \in Addrs \cup {NoAddr}
  /\ admin \in Addrs \cup {NoAddr}
  /\ astray \subseteq {"proxy", "admin"}
  /\ pidfile \in {"none", "ours", "stale"}
  /\ edits \in 0 .. MaxEdits
  /\ crashes \in 0 .. MaxCrashes

Own ==
  /\ mu \in Actors \cup {None}
  /\ pc \in [Actors -> RequestPC \cup WatcherPC \cup MainPC]
  /\ \A r \in Requests : pc[r] \in RequestPC
  /\ pc[Watcher] \in WatcherPC
  /\ pc[Main] \in MainPC
  /\ job \in [Requests -> Jobs \cup {None}]
  /\ new \in [Requests -> Contents]
  /\ old \in [Requests -> Contents]
  /\ cfg \in [Actors -> Configs \cup {NoConfig}]
  /\ failed \in [Actors -> BOOLEAN]
  /\ Loaded
  /\ Asking

Typed == World /\ Own

\* Typed is the type invariant and what makes it inductive.
LEMMA TypedIsTypeOK == Typed => TypeOK
BY DEF Typed, World, Own, TypeOK

\* Requests, the poller and main are different goroutines.
LEMMA ActorsDiffer ==
  /\ \A r \in Requests : r \in Actors /\ r # Watcher /\ r # Main
  /\ Watcher \in Actors /\ Main \in Actors /\ Watcher # Main
BY MarkersAssumption DEF Actors

\* Leaving a request keeps what it owns typed.
LEMMA AnswerOwn ==
  ASSUME Own, NEW r \in Requests, NEW l \in {"ok", "err"}, Answer(r, l)
  PROVE  Own'
<1>1. /\ mu' \in Actors \cup {None}
      /\ job' \in [Requests -> Jobs \cup {None}]
      /\ new' \in [Requests -> Contents]
      /\ old' \in [Requests -> Contents]
      /\ cfg' \in [Actors -> Configs \cup {NoConfig}]
      /\ failed' \in [Actors -> BOOLEAN]
  BY ActorsDiffer DEF Own, Answer, Unlock, Contents
<1>2. pc' = [pc EXCEPT ![r] = l]
  BY DEF Answer, Goto
<1>3. /\ pc' \in [Actors -> RequestPC \cup WatcherPC \cup MainPC]
      /\ \A q \in Requests : pc'[q] \in RequestPC
      /\ pc'[Watcher] \in WatcherPC
      /\ pc'[Main] \in MainPC
  BY <1>2, ActorsDiffer DEF Own, RequestPC
<1>4. Loaded'
  <2> SUFFICES ASSUME NEW a \in Actors,
                      pc'[a] \in {"pid", "proxy", "admin", "undo_proxy", "undo_admin"}
               PROVE  cfg'[a] \in Configs
    BY DEF Loaded
  <2>1. a # r /\ pc'[a] = pc[a]
    BY <1>2, ActorsDiffer DEF Own
  <2>2. cfg'[a] = cfg[a]
    BY <2>1, ActorsDiffer DEF Answer, Own
  <2> QED BY <2>1, <2>2 DEF Own, Loaded
<1>5. Asking'
  <2> SUFFICES ASSUME NEW q \in Requests, pc'[q] \in {"lock"} \cup Critical
               PROVE  /\ job'[q] \in Jobs /\ Acceptable(job'[q])
                      /\ pc'[q] = "read" => job'[q].kind = "put"
    BY DEF Asking, Critical, Acceptable
  <2>1. q # r /\ pc'[q] = pc[q]
    BY <1>2, ActorsDiffer DEF Own, Critical
  <2>2. job'[q] = job[q]
    BY <2>1 DEF Answer, Own
  <2> QED BY <2>1, <2>2 DEF Own, Asking
<1> QED BY <1>1, <1>3, <1>4, <1>5 DEF Own

\* A goroutine goes to a line it owns, and only what it has loaded changes.
LEMMA GotoOwn ==
  ASSUME Own, NEW a \in Actors, NEW l, Goto(a, l),
         mu' \in Actors \cup {None},
         job' = job,
         new' \in [Requests -> Contents], old' \in [Requests -> Contents],
         failed' \in [Actors -> BOOLEAN],
         cfg' \in [Actors -> Configs \cup {NoConfig}],
         \A b \in Actors \ {a} : cfg'[b] = cfg[b],
         l \in {"pid", "proxy", "admin", "undo_proxy", "undo_admin"} => cfg'[a] \in Configs,
         a \in Requests => /\ l \in Critical
                           /\ pc[a] \in {"lock"} \cup Critical
                           /\ l = "read" => job[a].kind = "put",
         a = Watcher => l \in WatcherPC,
         a = Main => l \in MainPC
  PROVE  Own'
<1>1. pc' = [pc EXCEPT ![a] = l] /\ DOMAIN pc = Actors
  BY DEF Goto, Own
<1>2. /\ pc'[a] = l
      /\ \A b \in Actors \ {a} : pc'[b] = pc[b]
  BY <1>1
<1>3. /\ pc' \in [Actors -> RequestPC \cup WatcherPC \cup MainPC]
      /\ \A q \in Requests : pc'[q] \in RequestPC
      /\ pc'[Watcher] \in WatcherPC
      /\ pc'[Main] \in MainPC
  <2>1. a \in Requests \/ a = Watcher \/ a = Main
    BY DEF Actors
  <2>2. l \in RequestPC \cup WatcherPC \cup MainPC
    BY <2>1 DEF RequestPC
  <2>3. pc' \in [Actors -> RequestPC \cup WatcherPC \cup MainPC]
    BY <1>1, <2>2 DEF Own
  <2> QED BY <1>2, <2>3, ActorsDiffer DEF Own, RequestPC
<1>4. Loaded'
  BY <1>2 DEF Own, Loaded
<1>5. Asking'
  BY <1>2, ActorsDiffer DEF Own, Asking, Acceptable
<1> QED BY <1>3, <1>4, <1>5 DEF Own

\* What the parser returns is a configuration.
LEMMA ParseType ==
  ASSUME NEW c, Parses(c)
  PROVE  Parse(c) \in Configs
BY ConstantsAssumption DEF Parses, Parse

\* A configuration is a document without a bad line.
LEMMA ConfigsAre == Configs \subseteq Documents /\ Documents \subseteq Contents
BY DEF Configs, Documents, Contents

\* A file half written is file content.
LEMMA TornType ==
  ASSUME NEW c \in Contents, NEW t \in Torn[c]
  PROVE  t \in Contents
BY ConstantsAssumption DEF Contents

\* A save that was accepted turns a document into a document, and a configuration
\* into a configuration.
LEMMA MergeType ==
  ASSUME NEW c \in Documents, NEW j \in Jobs, j.kind = "put", Acceptable(j)
  PROVE  /\ Merge(c, j.body) \in Documents
         /\ c \in Configs => Merge(c, j.body) \in Configs
<1>1. j.body \in Payloads /\ j.body.rules # BadRules
  BY ConstantsAssumption DEF Jobs, Acceptable
<1>2. /\ j.body.listen \in Addrs
      /\ j.body.monitor \in Addrs
      /\ j.body.rules \in Rules \cup {NoRules}
  BY <1>1 DEF Payloads
<1> QED BY <1>2 DEF Merge, Configs, Documents

\* What an accepted import carries is file content.
LEMMA ImportType ==
  ASSUME NEW j \in Jobs, j.kind # "put"
  PROVE  j.body \in Contents
BY ConstantsAssumption, ConfigsAre DEF Jobs, Contents

\* The swaps keep an address or take the one they are asked for.
LEMMA SwapType ==
  ASSUME World, NEW x \in Addrs
  PROVE  /\ ProxyAfter(x) \in Addrs \cup {NoAddr}
         /\ AdminAfter(x) \in Addrs \cup {NoAddr}
BY DEF ProxyAfter, AdminAfter, World

\* What becomes of a move is recorded by its name.
LEMMA SettledType ==
  ASSUME World, NEW side \in {"proxy", "admin"}, NEW b, Settled(side, b)
  PROVE  astray' \subseteq {"proxy", "admin"}
BY DEF Settled, World

\* Setting up leaves file content.
LEMMA SeededType ==
  ASSUME World, NEW c \in Seeded(disk)
  PROVE  c \in Contents
BY ConstantsAssumption, ConfigsAre DEF Seeded, World, Contents

\* What the addresses of a loaded configuration are.
LEMMA LoadedAddrs ==
  ASSUME Own, NEW a \in Actors,
         pc[a] \in {"pid", "proxy", "admin", "undo_proxy", "undo_admin"}
  PROVE  /\ cfg[a] \in Configs
         /\ cfg[a].listen \in Addrs
         /\ cfg[a].monitor \in Addrs
BY DEF Own, Loaded, Configs

\* Loading keeps everything typed, whoever does it.
LEMMA LoadTyped ==
  ASSUME Typed, NEW a \in Actors, Load(a)
  PROVE  Typed'
<1>1. Parse(disk) \in Configs
  BY ParseType DEF Load
<1>2. World'
  BY <1>1 DEF Typed, World, Load, env, machine
<1>3. pc[a] = "load" /\ cfg' = [cfg EXCEPT ![a] = Parse(disk)]
  BY DEF Load
<1>4. PICK l : l = (IF a = Main THEN "pid" ELSE "proxy") /\ Goto(a, l)
  BY DEF Load
<1> QED
  BY <1>1, <1>2, <1>3, <1>4, GotoOwn, ActorsDiffer
     DEF Typed, Load, Own, Critical, WatcherPC, MainPC

\* Swapping the proxy keeps everything typed, whoever does it.
LEMMA SwapProxyTyped ==
  ASSUME Typed, NEW a \in Actors, SwapProxy(a)
  PROVE  Typed'
<1>1. cfg[a].listen \in Addrs /\ cfg[a] \in Configs
  BY LoadedAddrs DEF Typed, SwapProxy
<1>2. World'
  BY <1>1, SwapType, SettledType DEF Typed, World, SwapProxy, env, machine
<1>3. failed' = [failed EXCEPT ![a] = ProxyError(cfg[a].listen)]
      /\ ProxyError(cfg[a].listen) \in BOOLEAN
  BY DEF SwapProxy, ProxyError
<1>4. failed' \in [Actors -> BOOLEAN]
  BY <1>3, Zenon DEF Typed, Own
<1> QED
  BY <1>1, <1>2, <1>4, GotoOwn, ActorsDiffer
     DEF Typed, SwapProxy, Own, Critical, WatcherPC

\* A handler's step keeps everything typed: one step per action.
LEMMA HandlerTyped ==
  ASSUME Typed, NEW r \in Requests, Handler(r)
  PROVE  Typed'
<1> USE ActorsDiffer DEF Typed
<1>1. CASE LockRequest(r)
  <2>1. World'
    BY <1>1 DEF LockRequest, World, store, memory, env, machine
  <2>2. job[r] \in Jobs /\ new' \in [Requests -> Contents]
    BY <1>1, ImportType DEF LockRequest, Own, Asking
  <2>3. CASE job[r].kind = "put"
    BY <1>1, <2>1, <2>2, <2>3, GotoOwn DEF LockRequest, Lock, Own, Critical
  <2>4. CASE job[r].kind # "put"
    BY <1>1, <2>1, <2>2, <2>4, GotoOwn DEF LockRequest, Lock, Own, Critical
  <2> QED BY <2>3, <2>4
<1>2. CASE ReadAndMerge(r)
  <2>1. World'
    BY <1>2 DEF ReadAndMerge, World, store, memory, env, machine
  <2>2. CASE disk \in Documents
    <3>1. Merge(disk, job[r].body) \in Documents
      BY <1>2, <2>2, MergeType DEF ReadAndMerge, Own, Asking, Critical
    <3>2. new' \in [Requests -> Contents]
      BY <1>2, <2>2, <3>1 DEF ReadAndMerge, Own, Contents
    <3> QED BY <1>2, <2>1, <2>2, <3>2, GotoOwn DEF ReadAndMerge, Own, Critical
  <2>3. CASE disk \notin Documents
    BY <1>2, <2>1, <2>3, AnswerOwn DEF ReadAndMerge
  <2> QED BY <2>2, <2>3
<1>3. CASE Check(r)
  <2>1. World'
    BY <1>3 DEF Check, World, store, memory, env, machine
  <2>2. CASE Parses(new[r])
    <3>1. old' \in [Requests -> Contents]
      BY <1>3, <2>2 DEF Check, Own, World
    <3> QED BY <1>3, <2>1, <2>2, <3>1, GotoOwn DEF Check, Own, Critical
  <2>3. CASE ~Parses(new[r])
    BY <1>3, <2>1, <2>3, AnswerOwn DEF Check
  <2> QED BY <2>2, <2>3
<1>4. CASE Truncate(r)
  <2>1. World'
    BY <1>4, TornType DEF Truncate, World, Own, store, memory, env, machine
  <2> QED BY <1>4, <2>1, GotoOwn DEF Truncate, Own, Critical, locals
<1>5. CASE WriteNew(r)
  <2>1. World'
    BY <1>5 DEF WriteNew, World, store, memory, env, machine, Own
  <2> QED BY <1>5, <2>1, GotoOwn DEF WriteNew, Own, Critical, locals
<1>6. CASE WriteFails(r)
  BY <1>6, AnswerOwn DEF WriteFails, World, store, memory, env, machine
<1>7. CASE Load(r)
  BY <1>7, LoadTyped DEF Critical
<1>8. CASE LoadFails(r)
  <2>1. World'
    BY <1>8 DEF LoadFails, World, store, memory, env, machine
  <2> QED BY <1>8, <2>1, GotoOwn DEF LoadFails, Own, Critical, locals
<1>9. CASE SwapProxy(r)
  BY <1>9, SwapProxyTyped DEF Critical
<1>10. CASE SwapAdmin(r)
  <2>1. World'
    BY <1>10, LoadedAddrs, SwapType, SettledType DEF SwapAdmin, World, env, machine
  <2>2. CASE failed[r] \/ AdminError(cfg[r].monitor)
    BY <1>10, <2>1, <2>2, GotoOwn DEF SwapAdmin, Own, Critical, locals
  <2>3. CASE ~(failed[r] \/ AdminError(cfg[r].monitor))
    BY <1>10, <2>1, <2>3, AnswerOwn DEF SwapAdmin
  <2> QED BY <2>2, <2>3
<1>11. CASE UndoNothing(r)
  BY <1>11, AnswerOwn DEF UndoNothing, World, store, memory, env, machine
<1>12. CASE UndoTruncate(r)
  <2>1. World'
    BY <1>12, TornType DEF UndoTruncate, World, Own, store, memory, env, machine
  <2> QED BY <1>12, <2>1, GotoOwn DEF UndoTruncate, Own, Critical, locals
<1>13. CASE UndoWrite(r)
  <2>1. World'
    BY <1>13 DEF UndoWrite, World, store, memory, env, machine, Own
  <2> QED BY <1>13, <2>1, GotoOwn DEF UndoWrite, Own, Critical, locals
<1>14. CASE UndoWriteFails(r)
  <2>1. World'
    BY <1>14 DEF UndoWriteFails, World, store, memory, env, machine
  <2> QED BY <1>14, <2>1, GotoOwn DEF UndoWriteFails, Own, Critical, locals
<1>15. CASE UndoLoad(r)
  <2>1. CASE Parses(disk)
    <3>1. World'
      BY <1>15, <2>1, ParseType DEF UndoLoad, World, env, machine
    <3>2. /\ cfg' = [cfg EXCEPT ![r] = Parse(disk)]
          /\ Parse(disk) \in Configs
      BY <1>15, <2>1, ParseType DEF UndoLoad
    <3> QED BY <1>15, <2>1, <3>1, <3>2, GotoOwn DEF UndoLoad, Own, Critical
  <2>2. CASE ~Parses(disk)
    BY <1>15, <2>2, AnswerOwn DEF UndoLoad, World, env, machine
  <2> QED BY <2>1, <2>2
<1>16. CASE UndoProxy(r)
  <2>1. World'
    BY <1>16, LoadedAddrs, SwapType, SettledType DEF UndoProxy, World, env, machine
  <2> QED BY <1>16, <2>1, LoadedAddrs, GotoOwn DEF UndoProxy, Own, Critical, locals
<1>17. CASE UndoAdmin(r)
  <2>1. World'
    BY <1>17, LoadedAddrs, SwapType, SettledType DEF UndoAdmin, World, env, machine
  <2> QED BY <1>17, <2>1, AnswerOwn DEF UndoAdmin
<1> QED
  BY <1>1, <1>2, <1>3, <1>4, <1>5, <1>6, <1>7, <1>8, <1>9, <1>10,
     <1>11, <1>12, <1>13, <1>14, <1>15, <1>16, <1>17 DEF Handler

\* The poller's steps keep everything typed.
LEMMA ReloaderTyped ==
  ASSUME Typed, Reloader
  PROVE  Typed'
<1> USE ActorsDiffer DEF Typed
<1>1. CASE WatchStart
  BY <1>1, GotoOwn DEF WatchStart, World, Own, WatcherPC, store, memory,
                           machine, locals
<1>2. CASE Poll
  BY <1>2, GotoOwn DEF Poll, World, Own, WatcherPC, store, memory,
                           machine, locals
<1>3. CASE LockWatcher
  BY <1>3, GotoOwn DEF LockWatcher, Lock, World, Own, WatcherPC, store, memory,
                           env, machine, locals
<1>4. CASE Load(Watcher)
  BY <1>4, LoadTyped
<1>5. CASE ReloadFails
  BY <1>5, GotoOwn DEF ReloadFails, Unlock, World, Own, WatcherPC, store, memory,
                           env, machine, locals
<1>6. CASE SwapProxy(Watcher)
  BY <1>6, SwapProxyTyped
<1>7. CASE ReloadAdmin
  <2>1. World'
    BY <1>7, LoadedAddrs, SwapType, SettledType DEF ReloadAdmin, World, env, machine
  <2> QED BY <1>7, <2>1, GotoOwn DEF ReloadAdmin, Unlock, Own, WatcherPC, locals
<1> QED
  BY <1>1, <1>2, <1>3, <1>4, <1>5, <1>6, <1>7 DEF Reloader

\* main's steps keep everything typed.
LEMMA StarterTyped ==
  ASSUME Typed, Starter
  PROVE  Typed'
<1> USE ActorsDiffer DEF Typed
<1>1. CASE Load(Main)
  BY <1>1, LoadTyped
<1>2. CASE StartFails
  <2>1. pidfile' \in {"none", "ours", "stale"}
    BY <1>2 DEF StartFails, Orphaned, World
  <2>2. World'
    BY <1>2, <2>1 DEF StartFails, World
  <2> QED BY <1>2, <2>2, GotoOwn DEF StartFails, Own, MainPC, locals
<1>3. CASE StartProxy
  <2>1. World'
    BY <1>3, LoadedAddrs DEF StartProxy, World, env, machine
  <2> QED BY <1>3, <2>1, LoadedAddrs, GotoOwn DEF StartProxy, Own, MainPC, locals
<1>4. CASE StartAdmin
  <2>1. astray' \subseteq {"proxy", "admin"}
    BY <1>4, SettledType DEF StartAdmin, World
  <2>2. admin' \in Addrs \cup {NoAddr}
    BY <1>4, LoadedAddrs, SwapType DEF StartAdmin, World
  <2>3. World'
    BY <1>4, <2>1, <2>2 DEF StartAdmin, World, env, machine
  <2> QED BY <1>4, <2>3, GotoOwn DEF StartAdmin, Own, MainPC, locals
<1>5. CASE SetUp
  <2>1. World'
    BY <1>5, SeededType DEF SetUp, World, memory, env, machine
  <2> QED BY <1>5, <2>1, GotoOwn DEF SetUp, Own, MainPC, locals
<1>6. CASE WritePid
  <2>1. pidfile' \in {"none", "ours", "stale"}
    BY <1>6 DEF WritePid, World
  <2>2. World'
    BY <1>6, <2>1 DEF WritePid, World, store, memory
  <2> QED BY <1>6, <2>2, GotoOwn, LoadedAddrs DEF WritePid, Own, MainPC, locals
<1> QED
  BY <1>1, <1>2, <1>3, <1>4, <1>5, <1>6 DEF Starter

\* What the environment does keeps everything typed.
LEMMA EnvironmentTyped ==
  ASSUME Typed, Environment
  PROVE  Typed'
<1> USE ActorsDiffer DEF Typed
<1>1. ASSUME NEW r \in Requests, Submit(r) PROVE Typed'
  <2>1. World'
    BY <1>1 DEF Submit, World, store, memory, env, machine
  <2>2. PICK j \in Jobs : IF Acceptable(j)
                          THEN Goto(r, "lock") /\ job' = [job EXCEPT ![r] = j]
                          ELSE Goto(r, "err") /\ UNCHANGED job
    BY <1>1 DEF Submit
  <2>3. /\ UNCHANGED <<mu, new, old, cfg, failed>>
        /\ pc[r] = "idle"
    BY <1>1 DEF Submit
  <2>4. PICK l \in {"lock", "err"} : pc' = [pc EXCEPT ![r] = l]
    BY <2>2 DEF Goto
  <2>5. /\ job' \in [Requests -> Jobs \cup {None}]
        /\ \A q \in Requests \ {r} : job'[q] = job[q]
        /\ pc'[r] = "lock" => job'[r] = j /\ Acceptable(j)
    BY <2>2, <2>4 DEF Own, Goto
  <2>6. /\ pc' \in [Actors -> RequestPC \cup WatcherPC \cup MainPC]
        /\ \A q \in Requests : pc'[q] \in RequestPC
        /\ pc'[Watcher] \in WatcherPC
        /\ pc'[Main] \in MainPC
    BY <2>4 DEF Own, RequestPC
  <2>7. Loaded'
    BY <2>3, <2>4 DEF Own, Loaded
  <2>8. Asking'
    <3> SUFFICES ASSUME NEW q \in Requests, pc'[q] \in {"lock"} \cup Critical
                 PROVE  /\ job'[q] \in Jobs /\ Acceptable(job'[q])
                        /\ pc'[q] = "read" => job'[q].kind = "put"
      BY DEF Asking, Critical, Acceptable
    <3>1. CASE q = r
      BY <2>4, <2>5, <3>1 DEF Own, Critical
    <3>2. CASE q # r
      BY <2>4, <2>5, <3>2 DEF Own, Asking
    <3> QED BY <3>1, <3>2
  <2> QED BY <2>1, <2>3, <2>5, <2>6, <2>7, <2>8 DEF Own
<1>2. ASSUME NEW c \in Edits, EditRename(c) \/ EditOpen(c) PROVE Typed'
  <2>1. edits' \in 0 .. MaxEdits
    BY <1>2, ConstantsAssumption DEF EditRename, EditOpen, World
  <2>2. disk' \in Contents
    <3>1. c \in Contents
      BY ConstantsAssumption DEF Contents
    <3> QED BY <1>2, <3>1, TornType DEF EditRename, EditOpen
  <2>3. editing' \in Edits \cup {None} /\ touched' \in BOOLEAN
    BY <1>2 DEF EditRename, EditOpen, World
  <2>4. World'
    BY <1>2, <2>1, <2>2, <2>3 DEF EditRename, EditOpen, World, memory
  <2> QED BY <1>2, <2>4 DEF EditRename, EditOpen, Own, Loaded, Asking, locals
<1>3. CASE EditClose
  <2>1. World'
    BY <1>3, ConstantsAssumption DEF EditClose, World, Contents, memory
  <2> QED BY <1>3, <2>1 DEF EditClose, Own, Loaded, Asking, locals
<1>4. ASSUME NEW x \in Addrs, TakePort(x) \/ FreePort(x) PROVE Typed'
  <2>1. World'
    BY <1>4 DEF TakePort, FreePort, World, store, memory
  <2> QED BY <1>4, <2>1 DEF TakePort, FreePort, Own, Loaded, Asking, locals
<1>5. CASE Shutdown \/ Kill
  <2>0. Restart /\ pidfile' \in {"none", "ours", "stale"}
    BY <1>5 DEF Shutdown, Kill, Orphaned, World
  <2>a. crashes' \in 0 .. MaxCrashes
    BY <2>0, ConstantsAssumption DEF Restart, World
  <2>b. /\ current' = NoConfig /\ proxy' = NoAddr /\ admin' = NoAddr
        /\ astray' = {}
        /\ UNCHANGED <<disk, touched, editing, held, edits>>
    BY <2>0 DEF Restart
  <2>1. World'
    BY <2>0, <2>a, <2>b DEF World
  <2>2. pc' = [a \in Actors |-> IF a = Main THEN "setup"
                              ELSE IF a = Watcher THEN "off"
                              ELSE IF pc[a] \in {"idle", "ok", "err"} THEN pc[a]
                              ELSE "lost"]
    BY <2>0 DEF Restart
  <2>3. \A q \in Requests : pc'[q] \in {"idle", "ok", "err", "lost"}
    BY <2>2
  <2>4. pc'[Main] = "setup" /\ pc'[Watcher] = "off"
    BY <2>2
  <2>5. pc' \in [Actors -> RequestPC \cup WatcherPC \cup MainPC]
    BY <2>2, <2>3, <2>4 DEF Actors, RequestPC, WatcherPC, MainPC
  <2>6. /\ mu' \in Actors \cup {None}
        /\ job' \in [Requests -> Jobs \cup {None}]
        /\ new' \in [Requests -> Contents]
        /\ old' \in [Requests -> Contents]
        /\ cfg' \in [Actors -> Configs \cup {NoConfig}]
        /\ failed' \in [Actors -> BOOLEAN]
    BY <2>0 DEF Restart, Contents
  <2>7. Loaded' /\ Asking'
    BY <2>3, <2>4 DEF Loaded, Asking, Actors, Critical
  <2> QED
    BY <2>1, <2>3, <2>4, <2>5, <2>6, <2>7 DEF Own, RequestPC, WatcherPC, MainPC
<1>6. CASE SecondStart
  <2>1. disk' \in Contents /\ touched' \in BOOLEAN
    BY <1>6, SeededType DEF SecondStart, World
  <2>2. pidfile' \in {"none", "ours", "stale"}
    BY <1>6 DEF SecondStart, World
  <2>3. World'
    BY <1>6, <2>1, <2>2 DEF SecondStart, World, memory
  <2> QED BY <1>6, <2>3 DEF SecondStart, Own, Loaded, Asking, locals
<1> QED
  BY <1>1, <1>2, <1>3, <1>4, <1>5, <1>6 DEF Environment

\* The initial states are typed.
LEMMA TypedInit == Init => Typed
<1> SUFFICES ASSUME Init PROVE Typed
  OBVIOUS
<1>1. World
  <2>1. disk \in Contents /\ 0 \in 0 .. MaxEdits /\ 0 \in 0 .. MaxCrashes
    BY ConstantsAssumption, ConfigsAre DEF Init
  <2> QED BY <2>1 DEF Init, World
<1>2. pc = [a \in Actors |-> IF a = Main THEN "setup" ELSE IF a = Watcher THEN "off" ELSE "idle"]
  BY DEF Init
<1>3. /\ \A q \in Requests : pc[q] = "idle"
      /\ pc[Main] = "setup" /\ pc[Watcher] = "off"
  BY <1>2, ActorsDiffer
<1>4. pc \in [Actors -> RequestPC \cup WatcherPC \cup MainPC]
  BY <1>2 DEF RequestPC, WatcherPC, MainPC
<1>5. Own
  BY <1>3, <1>4 DEF Init, Own, Loaded, Asking, Contents, Actors, Critical,
                    RequestPC, WatcherPC, MainPC
<1> QED BY <1>1, <1>5 DEF Typed

\* Every step keeps everything typed.
LEMMA TypedStep == Typed /\ [Next]_vars => Typed'
<1> SUFFICES ASSUME Typed, [Next]_vars PROVE Typed'
  OBVIOUS
<1>1. CASE Next
  BY <1>1, HandlerTyped, ReloaderTyped, StarterTyped, EnvironmentTyped DEF Next
<1>2. CASE UNCHANGED vars
  BY <1>2 DEF vars, Typed, World, Own, Loaded, Asking
<1> QED BY <1>1, <1>2

\* Whatever the configurations, requests and faults, every variable keeps its
\* type: in particular no configuration with a bad rule line, and nothing that
\* is not a configuration, ever becomes the active one.
THEOREM Typing == Spec => []TypeOK
<1>1. Spec => []Typed
  BY TypedInit, TypedStep, PTL DEF Spec
<1> QED BY <1>1, TypedIsTypeOK, PTL

-----------------------------------------------------------------------------
(* applyMu.                                                                *)

\* A goroutine moves on with the lock as it was; takes it; gives it back.
LEMMA ExclusiveGoto ==
  ASSUME Typed, Exclusive, NEW a \in Actors, NEW l, Goto(a, l),
         \/ mu' = mu /\ (l \in Critical => mu = a \/ a = Main)
         \/ Lock(a)
         \/ Unlock /\ mu = a /\ l \notin Critical
  PROVE  Exclusive'
<1>1. pc' = [pc EXCEPT ![a] = l] /\ pc \in [Actors -> RequestPC \cup WatcherPC \cup MainPC]
  BY DEF Goto, Typed, Own
<1>2. pc'[a] = l /\ \A b \in Actors \ {a} : pc'[b] = pc[b]
  BY <1>1
<1>3. \A b \in Requests \cup {Watcher} : b \in Actors /\ b # Main /\ b # None
  BY ActorsDiffer, MarkersAssumption DEF Actors
<1>4. None \notin Actors
  BY MarkersAssumption
<1> QED BY <1>2, <1>3, <1>4 DEF Exclusive, Lock, Unlock

\* A handler is between Lock and Unlock only as the holder.
LEMMA ExclusiveHandler ==
  ASSUME Typed, Exclusive, NEW r \in Requests, Handler(r)
  PROVE  Exclusive'
<1>1. r \in Actors /\ r # Main /\ r \in Requests \cup {Watcher}
  BY ActorsDiffer
<1>2. CASE LockRequest(r)
  BY <1>1, <1>2, ExclusiveGoto DEF LockRequest, Exclusive, Critical
<1>3. CASE ReadAndMerge(r)
  <2>1. CASE disk \in Configs
    BY <1>1, <1>3, <2>1, ExclusiveGoto DEF ReadAndMerge, Exclusive, Critical, Answer, locals
  <2>2. CASE ~(disk \in Configs)
    BY <1>1, <1>3, <2>2, ExclusiveGoto DEF ReadAndMerge, Exclusive, Critical, Answer, locals
  <2> QED BY <2>1, <2>2
<1>4. CASE Check(r)
  <2>1. CASE Parses(new[r])
    BY <1>1, <1>4, <2>1, ExclusiveGoto DEF Check, Exclusive, Critical, Answer, locals
  <2>2. CASE ~(Parses(new[r]))
    BY <1>1, <1>4, <2>2, ExclusiveGoto DEF Check, Exclusive, Critical, Answer, locals
  <2> QED BY <2>1, <2>2
<1>5. CASE Truncate(r)
  BY <1>1, <1>5, ExclusiveGoto DEF Truncate, Exclusive, Critical
<1>6. CASE WriteNew(r)
  BY <1>1, <1>6, ExclusiveGoto DEF WriteNew, Exclusive, Critical
<1>7. CASE WriteFails(r)
  BY <1>1, <1>7, ExclusiveGoto DEF WriteFails, Exclusive, Critical, Answer
<1>8. CASE Load(r)
  BY <1>1, <1>8, ExclusiveGoto DEF Load, Exclusive, Critical
<1>9. CASE LoadFails(r)
  BY <1>1, <1>9, ExclusiveGoto DEF LoadFails, Exclusive, Critical
<1>10. CASE SwapProxy(r)
  BY <1>1, <1>10, ExclusiveGoto DEF SwapProxy, Exclusive, Critical
<1>11. CASE SwapAdmin(r)
  <2>1. CASE failed[r] \/ AdminError(cfg[r].monitor)
    BY <1>1, <1>11, <2>1, ExclusiveGoto DEF SwapAdmin, Exclusive, Critical, Answer, locals
  <2>2. CASE ~(failed[r] \/ AdminError(cfg[r].monitor))
    BY <1>1, <1>11, <2>2, ExclusiveGoto DEF SwapAdmin, Exclusive, Critical, Answer, locals
  <2> QED BY <2>1, <2>2
<1>12. CASE UndoNothing(r)
  BY <1>1, <1>12, ExclusiveGoto DEF UndoNothing, Exclusive, Critical, Answer
<1>13. CASE UndoTruncate(r)
  BY <1>1, <1>13, ExclusiveGoto DEF UndoTruncate, Exclusive, Critical
<1>14. CASE UndoWrite(r)
  BY <1>1, <1>14, ExclusiveGoto DEF UndoWrite, Exclusive, Critical
<1>15. CASE UndoWriteFails(r)
  BY <1>1, <1>15, ExclusiveGoto DEF UndoWriteFails, Exclusive, Critical
<1>16. CASE UndoLoad(r)
  <2>1. CASE Parses(disk)
    BY <1>1, <1>16, <2>1, ExclusiveGoto DEF UndoLoad, Exclusive, Critical, Answer, locals
  <2>2. CASE ~(Parses(disk))
    BY <1>1, <1>16, <2>2, ExclusiveGoto DEF UndoLoad, Exclusive, Critical, Answer, locals
  <2> QED BY <2>1, <2>2
<1>17. CASE UndoProxy(r)
  BY <1>1, <1>17, ExclusiveGoto DEF UndoProxy, Exclusive, Critical
<1>18. CASE UndoAdmin(r)
  BY <1>1, <1>18, ExclusiveGoto DEF UndoAdmin, Exclusive, Critical, Answer
<1> QED
  BY <1>2, <1>3, <1>4, <1>5, <1>6, <1>7, <1>8, <1>9, <1>10,
     <1>11, <1>12, <1>13, <1>14, <1>15, <1>16, <1>17, <1>18 DEF Handler

\* Every step keeps the holder of applyMu alone.
LEMMA ExclusiveStep == Typed /\ Exclusive /\ [Next]_vars => Exclusive'
<1> SUFFICES ASSUME Typed, Exclusive, [Next]_vars PROVE Exclusive'
  OBVIOUS
<1> USE ActorsDiffer
<1>1. ASSUME NEW r \in Requests, Handler(r) PROVE Exclusive'
  BY <1>1, ExclusiveHandler
<1>2. CASE Reloader
  <2>1. CASE WatchStart \/ Poll
    BY <2>1, ExclusiveGoto DEF WatchStart, Poll, Critical
  <2>2. CASE LockWatcher
    BY <2>2, ExclusiveGoto DEF LockWatcher
  <2>3. CASE Load(Watcher) \/ SwapProxy(Watcher)
    BY <2>3, ExclusiveGoto DEF Load, SwapProxy, Exclusive, Critical
  <2>4. CASE ReloadFails \/ ReloadAdmin
    BY <2>4, ExclusiveGoto DEF ReloadFails, ReloadAdmin, Exclusive, Critical
  <2> QED BY <1>2, <2>1, <2>2, <2>3, <2>4 DEF Reloader
<1>3. CASE Starter
  <2>1. CASE Load(Main) \/ SetUp \/ WritePid
    BY <2>1, ExclusiveGoto DEF Load, SetUp, WritePid
  <2>2. CASE StartFails \/ StartProxy \/ StartAdmin
    BY <2>2, ExclusiveGoto DEF StartFails, StartProxy, StartAdmin
  <2> QED BY <1>3, <2>1, <2>2 DEF Starter
<1>4. CASE Environment
  <2>1. ASSUME NEW r \in Requests, Submit(r) PROVE Exclusive'
    <3>1. PICK l \in {"lock", "err"} : Goto(r, l)
      BY <2>1 DEF Submit
    <3> QED BY <2>1, <3>1, ExclusiveGoto DEF Submit, Critical
  <2>2. ASSUME NEW c \in Edits, EditRename(c) \/ EditOpen(c) PROVE Exclusive'
    BY <2>2 DEF EditRename, EditOpen, Exclusive
  <2>3. ASSUME NEW x \in Addrs, TakePort(x) \/ FreePort(x) PROVE Exclusive'
    BY <2>3 DEF TakePort, FreePort, Exclusive
  <2>4. CASE EditClose
    BY <2>4 DEF EditClose, Exclusive
  <2>5. CASE Shutdown \/ Kill
    <3>1. \A a \in Requests : pc'[a] \in {"idle", "ok", "err", "lost"}
      BY <2>5 DEF Shutdown, Kill, Restart
    <3>2. pc'[Watcher] = "off"
      BY <2>5 DEF Shutdown, Kill, Restart
    <3> QED BY <3>1, <3>2 DEF Exclusive, Critical
  <2>6. CASE SecondStart
    BY <2>6 DEF SecondStart, Exclusive
  <2> QED BY <1>4, <2>1, <2>2, <2>3, <2>4, <2>5, <2>6 DEF Environment
<1>5. CASE UNCHANGED vars
  BY <1>5 DEF vars, Exclusive
<1> QED BY <1>1, <1>2, <1>3, <1>4, <1>5 DEF Next

\* However many saves, imports and reloads meet, one at a time reads, writes
\* and activates.
THEOREM MutualExclusion == Spec => []Exclusive
<1>1. Init => Exclusive
  BY ActorsDiffer DEF Init, Exclusive, Critical
<1>2. Spec => []Typed
  BY TypedInit, TypedStep, PTL DEF Spec
<1> QED BY <1>1, <1>2, ExclusiveStep, PTL DEF Spec

-----------------------------------------------------------------------------
(* The proxy's port.                                                       *)

\* A swap leaves the proxy on an address of its own, when it was on one.
LEMMA SwapKeepsPort ==
  ASSUME Typed, NEW x \in Addrs, proxy \in Addrs \ held, proxy # admin
  PROVE  /\ ProxyAfter(x) \in Addrs \ held
         /\ ProxyAfter(x) # admin
         /\ AdminAfter(x) # proxy
BY DEF Typed, World, ProxyAfter, AdminAfter, CanBind

\* Every step keeps the proxy on an address of its own.
LEMMA PortStep == Typed /\ ProxyNeverDark /\ [Next]_vars => ProxyNeverDark'
<1> SUFFICES ASSUME Typed, ProxyNeverDark, [Next]_vars PROVE ProxyNeverDark'
  OBVIOUS
<1> USE ActorsDiffer
<1>0. pc \in [Actors -> RequestPC \cup WatcherPC \cup MainPC]
  BY DEF Typed, Own
<1>1. ASSUME NEW a \in Actors, SwapProxy(a) PROVE ProxyNeverDark'
  <2>1. cfg[a].listen \in Addrs
    BY <1>1, LoadedAddrs DEF Typed, SwapProxy
  <2> QED
    BY <1>0, <1>1, <2>1, SwapKeepsPort DEF SwapProxy, ProxyNeverDark, Goto, env, machine
<1>2. ASSUME NEW r \in Requests, UndoProxy(r) PROVE ProxyNeverDark'
  <2>1. cfg[r].listen \in Addrs
    BY <1>2, LoadedAddrs DEF Typed, UndoProxy
  <2> QED
    BY <1>0, <1>2, <2>1, SwapKeepsPort DEF UndoProxy, ProxyNeverDark, Goto, env, machine
<1>3. ASSUME NEW r \in Requests, SwapAdmin(r) \/ UndoAdmin(r) PROVE ProxyNeverDark'
  <2>1. cfg[r].monitor \in Addrs /\ admin' = AdminAfter(cfg[r].monitor)
    BY <1>3, LoadedAddrs DEF Typed, SwapAdmin, UndoAdmin
  <2>2. pc'[Main] = pc[Main] /\ proxy' = proxy /\ held' = held
    BY <1>0, <1>3 DEF SwapAdmin, UndoAdmin, Goto, Answer, env, machine
  <2> QED BY <2>1, <2>2, SwapKeepsPort DEF ProxyNeverDark
<1>4. CASE ReloadAdmin
  <2>1. cfg[Watcher].monitor \in Addrs /\ admin' = AdminAfter(cfg[Watcher].monitor)
    BY <1>4, LoadedAddrs DEF Typed, ReloadAdmin
  <2>2. pc'[Main] = pc[Main] /\ proxy' = proxy /\ held' = held
    BY <1>0, <1>4 DEF ReloadAdmin, Goto, env, machine
  <2> QED BY <2>1, <2>2, SwapKeepsPort DEF ProxyNeverDark
<1>5. CASE StartProxy
  <2>1. cfg[Main].listen \in Addrs
    BY <1>5, LoadedAddrs DEF Typed, StartProxy
  <2> QED BY <1>5, <2>1 DEF StartProxy, CanBind, ProxyNeverDark, env, machine
<1>6. CASE StartAdmin
  <2>1. cfg[Main].monitor \in Addrs /\ pc[Main] = "admin"
    BY <1>6, LoadedAddrs DEF Typed, StartAdmin
  <2>2. proxy \in Addrs \ held /\ proxy # admin
    BY <2>1 DEF ProxyNeverDark
  <2> QED BY <1>6, <2>1, <2>2, SwapKeepsPort DEF StartAdmin, ProxyNeverDark, env, machine
<1>7. CASE StartFails
  BY <1>0, <1>7 DEF StartFails, Goto, ProxyNeverDark
<1>8. ASSUME NEW a \in Actors, Load(a) PROVE ProxyNeverDark'
  BY <1>0, <1>8 DEF Load, Goto, ProxyNeverDark, env, machine
<1>9. CASE Shutdown \/ Kill \/ SetUp \/ WritePid
  BY <1>0, <1>9 DEF Shutdown, Kill, Restart, SetUp, WritePid, Goto, ProxyNeverDark
<1>10. ASSUME NEW x \in Addrs, TakePort(x) \/ FreePort(x) PROVE ProxyNeverDark'
  BY <1>10 DEF TakePort, FreePort, ProxyNeverDark, store, memory
<1>11. ASSUME NEW c \in Edits, EditRename(c) \/ EditOpen(c) PROVE ProxyNeverDark'
  BY <1>11 DEF EditRename, EditOpen, ProxyNeverDark, memory
<1>12. CASE EditClose \/ SecondStart \/ UNCHANGED vars
  BY <1>12 DEF EditClose, SecondStart, ProxyNeverDark, memory, vars
<1>13. ASSUME UNCHANGED <<proxy, admin, held>>, pc'[Main] = pc[Main]
       PROVE  ProxyNeverDark'
  BY <1>13 DEF ProxyNeverDark
<1>14. ASSUME NEW r \in Requests, Handler(r) PROVE ProxyNeverDark'
  <2>1. CASE \/ LockRequest(r) \/ ReadAndMerge(r) \/ Check(r)
             \/ Truncate(r) \/ WriteNew(r) \/ WriteFails(r) \/ LoadFails(r)
    BY <1>0, <1>13, <2>1
       DEF LockRequest, ReadAndMerge, Check, Truncate, WriteNew, WriteFails,
           LoadFails, Goto, Answer, store, memory, env, machine
  <2>2. CASE UndoNothing(r) \/ UndoTruncate(r) \/ UndoWrite(r) \/ UndoWriteFails(r) \/ UndoLoad(r)
    BY <1>0, <1>13, <2>2
       DEF UndoNothing, UndoTruncate, UndoWrite, UndoWriteFails, UndoLoad,
           Goto, Answer, store, memory, env, machine
  <2> QED BY <1>1, <1>2, <1>3, <1>8, <1>14, <2>1, <2>2 DEF Handler
<1>15. CASE WatchStart \/ Poll \/ LockWatcher \/ ReloadFails
  BY <1>0, <1>13, <1>15 DEF WatchStart, Poll, LockWatcher, ReloadFails, Goto, store, memory,
                             env, machine
<1>16. ASSUME NEW r \in Requests, Submit(r) PROVE ProxyNeverDark'
  <2>1. pc'[Main] = pc[Main]
    BY <1>0, <1>16 DEF Submit, Goto
  <2> QED BY <1>13, <1>16, <2>1 DEF Submit, store, memory, env, machine
<1> QED
  BY <1>1, <1>4, <1>5, <1>6, <1>7, <1>8, <1>9, <1>10, <1>11, <1>12, <1>14, <1>15, <1>16
     DEF Next, Reloader, Starter, Environment

\* No save, import, reload, rollback or loss of a port takes the proxy off the
\* network once it is up, or puts it on the address of another listener.
THEOREM NeverDark == Spec => []ProxyNeverDark
<1>1. Init => ProxyNeverDark
  BY ActorsDiffer DEF Init, ProxyNeverDark
<1>2. Spec => []Typed
  BY TypedInit, TypedStep, PTL DEF Spec
<1> QED BY <1>1, <1>2, PortStep, PTL DEF Spec

-----------------------------------------------------------------------------
(* Both listeners are where the configuration in force puts them.          *)

Lockers == Requests \cup {Watcher}
Moving == {"proxy", "admin", "undo_proxy", "undo_admin"}
Waiting == {"idle", "ok", "err", "lost"}

\* Nothing runs before main has bound the proxy's port.
Early ==
  pc[Main] \in {"setup", "load", "pid", "proxy", "dead"} =>
    /\ admin = NoAddr
    /\ pc[Watcher] = "off"
    /\ \A r \in Requests : pc[r] \in Waiting

\* Whoever moves listeners moves them where the configuration in force says.
InForce ==
  /\ \A a \in Lockers : pc[a] \in Moving => cfg[a] = current
  /\ pc[Main] \in {"pid", "proxy"} => cfg[Main] = current

\* The two halves of ListenersFollow, and when each need not hold yet: while
\* somebody is on the way to that move, and for the panel as long as main has
\* still to open it.
ProxySide == "proxy" \notin astray => proxy = current.listen
AdminSide ==
  "admin" \notin astray => admin = current.monitor \/ (admin = NoAddr /\ current.disable)
Opened == pc[Main] = "done" \/ (pc[Main] = "admin" /\ cfg[Main].disable)
Following ==
  /\ pc[Main] \in {"admin", "done"} =>
       ProxySide \/ \E a \in Lockers : pc[a] \in {"proxy", "undo_proxy"}
  /\ Opened => AdminSide \/ \E a \in Lockers : pc[a] \in Moving

FollowInv == Early /\ InForce /\ Following

\* Requests and the poller are none of them main.
LEMMA LockersDiffer == \A a \in Lockers : a \in Actors /\ a # Main
BY ActorsDiffer DEF Lockers

\* Who is under way has main's start behind him.
LEMMA Running ==
  ASSUME Typed, FollowInv, NEW a \in Lockers, pc[a] \notin Waiting \cup {"off"}
  PROVE  pc[Main] \in {"admin", "done"}
<1>1. pc[Main] \in MainPC
  BY DEF Typed, Own
<1> QED BY <1>1 DEF FollowInv, Early, Lockers, MainPC

\* One goroutine takes a step that moves nothing and neither begins nor ends a
\* move.
LEMMA QuietStep ==
  ASSUME Typed, FollowInv, NEW a \in Lockers, NEW l, Goto(a, l),
         pc[a] \notin Moving, l \notin Moving,
         pc[Main] \in {"admin", "done"},
         UNCHANGED <<current, proxy, admin, astray>>,
         \A b \in Actors \ {a} : cfg'[b] = cfg[b]
  PROVE  FollowInv'
<1>1. pc' = [pc EXCEPT ![a] = l] /\ pc \in [Actors -> RequestPC \cup WatcherPC \cup MainPC]
  BY DEF Goto, Typed, Own
<1>2. a \in Actors /\ a # Main /\ Main \in Actors
  BY LockersDiffer, ActorsDiffer
<1>3. pc'[a] = l /\ \A b \in Actors \ {a} : pc'[b] = pc[b]
  BY <1>1, <1>2
<1>4. pc'[Main] = pc[Main] /\ cfg'[Main] = cfg[Main]
  BY <1>2, <1>3
<1>5. \A b \in Lockers : (pc'[b] \in Moving <=> pc[b] \in Moving)
  BY <1>3, LockersDiffer
<1>6. \A b \in Lockers : (pc'[b] \in {"proxy", "undo_proxy"} <=> pc[b] \in {"proxy", "undo_proxy"})
  BY <1>3, LockersDiffer DEF Moving
<1>7. Early'
  BY <1>4 DEF Early
<1>8. InForce'
  BY <1>3, <1>4, <1>5, LockersDiffer DEF InForce, FollowInv
<1>9. Following'
  BY <1>4, <1>5, <1>6 DEF Following, FollowInv, ProxySide, AdminSide, Opened
<1> QED BY <1>7, <1>8, <1>9 DEF FollowInv

\* The holder of applyMu begins, takes or ends a move.
LEMMA MovingStep ==
  ASSUME Typed, FollowInv, NEW a \in Lockers, NEW l, Goto(a, l),
         pc[Main] \in {"admin", "done"},
         \A b \in Lockers \ {a} : pc[b] \notin Moving,
         cfg'[Main] = cfg[Main],
         l \in Moving => cfg'[a] = current',
         ProxySide' \/ l \in {"proxy", "undo_proxy"},
         AdminSide' \/ l \in Moving \/ ~Opened
  PROVE  FollowInv'
<1>1. pc' = [pc EXCEPT ![a] = l] /\ pc \in [Actors -> RequestPC \cup WatcherPC \cup MainPC]
  BY DEF Goto, Typed, Own
<1>2. a \in Actors /\ a # Main /\ Main \in Actors
  BY LockersDiffer, ActorsDiffer
<1>3. pc'[a] = l /\ \A b \in Actors \ {a} : pc'[b] = pc[b]
  BY <1>1, <1>2
<1>4. pc'[Main] = pc[Main]
  BY <1>2, <1>3
<1>5. \A b \in Lockers \ {a} : pc'[b] \notin Moving
  BY <1>3, LockersDiffer
<1>6. Early'
  BY <1>4 DEF Early
<1>7. InForce'
  BY <1>3, <1>4, <1>5 DEF InForce
<1>8. Following'
  BY <1>3, <1>4 DEF Following, Opened
<1> QED BY <1>6, <1>7, <1>8 DEF FollowInv

\* A move that is not refused ends where it was sent.
LEMMA ProxySettles ==
  ASSUME Typed, NEW x \in Addrs, proxy' = ProxyAfter(x), Settled("proxy", ProxyError(x)),
         current' = current, x = current.listen
  PROVE  ProxySide'
BY DEF ProxySide, ProxyAfter, ProxyError, Settled

LEMMA AdminSettles ==
  ASSUME Typed, NEW x \in Addrs, admin' = AdminAfter(x), Settled("admin", AdminError(x)),
         current' = current, x = current.monitor
  PROVE  AdminSide'
BY DEF AdminSide, AdminAfter, AdminError, PanelOff, Settled

\* The other side is left as it is.
LEMMA SidesApart ==
  /\ \A refused \in BOOLEAN :
       Settled("proxy", refused) /\ UNCHANGED <<current, admin>> /\ AdminSide => AdminSide'
  /\ \A refused \in BOOLEAN :
       Settled("admin", refused) /\ UNCHANGED <<current, proxy>> /\ ProxySide => ProxySide'
BY DEF ProxySide, AdminSide, Settled

\* Only the holder of applyMu is moving listeners.
LEMMA OneMoves ==
  ASSUME Typed, Exclusive, NEW a \in Lockers, mu \in {a, None}
  PROVE  \A b \in Lockers \ {a} : pc[b] \notin Moving
<1>1. \A b \in Lockers : b # None
  BY LockersDiffer, MarkersAssumption
<1> QED BY <1>1 DEF Exclusive, Lockers, Moving, Critical

-----------------------------------------------------------------------------
(* Requests and the poller.                                                *)

\* Loading a configuration begins the move of both listeners.
LEMMA FollowLoad ==
  ASSUME Typed, Exclusive, FollowInv, NEW a \in Lockers, Load(a)
  PROVE  FollowInv'
<1>1. pc[a] = "load" /\ a \in Actors /\ a # Main /\ Main \in Actors
  BY LockersDiffer, ActorsDiffer DEF Load
<1>2. pc[Main] \in {"admin", "done"} /\ mu = a
  BY <1>1, Running DEF Waiting, Exclusive, Lockers, Critical
<1>3. cfg'[Main] = cfg[Main] /\ cfg'[a] = current' /\ Goto(a, "proxy")
  BY <1>1 DEF Load, Typed, Own
<1> QED BY <1>2, <1>3, OneMoves, MovingStep DEF Moving

\* The proxy moves, forwards or back.
LEMMA FollowProxy ==
  ASSUME Typed, Exclusive, FollowInv, NEW a \in Lockers,
         SwapProxy(a) \/ (a \in Requests /\ UndoProxy(a))
  PROVE  FollowInv'
<1>1. pc[a] \in {"proxy", "undo_proxy"} /\ a \in Actors
  BY LockersDiffer DEF SwapProxy, UndoProxy
<1>2. pc[Main] \in {"admin", "done"} /\ mu = a
  BY <1>1, Running DEF Waiting, Exclusive, Lockers, Critical
<1>3. cfg[a] = current /\ cfg[a].listen \in Addrs
  BY <1>1, LoadedAddrs DEF FollowInv, InForce, Moving, Typed
<1>4. /\ cfg' = cfg /\ current' = current
      /\ proxy' = ProxyAfter(cfg[a].listen)
      /\ Settled("proxy", ProxyError(cfg[a].listen))
      /\ \E l \in {"admin", "undo_admin"} : Goto(a, l)
  BY DEF SwapProxy, UndoProxy, locals
<1>5. ProxySide'
  BY <1>3, <1>4, ProxySettles
<1> QED BY <1>2, <1>3, <1>4, <1>5, OneMoves, MovingStep DEF Moving

\* The panel moves, forwards or back, and the transaction goes on without
\* moving anything, or is over.
LEMMA FollowAdmin ==
  ASSUME Typed, Exclusive, FollowInv, NEW a \in Lockers,
         \/ a \in Requests /\ (SwapAdmin(a) \/ UndoAdmin(a))
         \/ a = Watcher /\ ReloadAdmin
  PROVE  FollowInv'
<1>1. pc[a] \in {"admin", "undo_admin"} /\ a \in Actors /\ a # Main
  BY LockersDiffer DEF SwapAdmin, UndoAdmin, ReloadAdmin
<1>2. pc[Main] \in {"admin", "done"} /\ mu = a
  BY <1>1, Running DEF Waiting, Exclusive, Lockers, Critical
<1>3. cfg[a] = current /\ cfg[a].monitor \in Addrs
  BY <1>1, LoadedAddrs DEF FollowInv, InForce, Moving, Typed
<1>4. /\ current' = current /\ proxy' = proxy
      /\ admin' = AdminAfter(cfg[a].monitor)
      /\ Settled("admin", AdminError(cfg[a].monitor))
  BY DEF SwapAdmin, UndoAdmin, ReloadAdmin
<1>5. cfg' = cfg \/ cfg' = [cfg EXCEPT ![a] = NoConfig]
  BY DEF SwapAdmin, UndoAdmin, ReloadAdmin, Answer, locals
<1>6. \E l \in {"undo_open", "ok", "err", "poll"} : Goto(a, l)
  BY DEF SwapAdmin, UndoAdmin, ReloadAdmin, Answer
<1>7. cfg'[Main] = cfg[Main]
  BY <1>1, <1>5, ActorsDiffer DEF Typed, Own
<1>8. AdminSide'
  BY <1>3, <1>4, AdminSettles
<1>9. \A b \in Lockers \ {a} : pc[b] \notin Moving
  BY <1>2, OneMoves
<1>10. ProxySide
  BY <1>1, <1>2, <1>9 DEF FollowInv, Following, Moving
<1>11. ProxySide'
  BY <1>4, <1>10 DEF ProxySide, Settled
<1> QED BY <1>2, <1>6, <1>7, <1>8, <1>9, <1>11, MovingStep DEF Moving

\* The rollback loads the old configuration, or gives up.
LEMMA FollowUndoLoad ==
  ASSUME Typed, Exclusive, FollowInv, NEW r \in Requests, UndoLoad(r)
  PROVE  FollowInv'
<1>1. /\ pc[r] = "undo_load" /\ r \in Lockers /\ r \in Actors /\ r # Main
      /\ Main \in Actors
  BY ActorsDiffer DEF UndoLoad, Lockers
<1>2. pc[Main] \in {"admin", "done"} /\ mu = r
  BY <1>1, Running DEF Waiting, Exclusive, Critical
<1>3. CASE Parses(disk)
  <2>1. cfg'[Main] = cfg[Main] /\ cfg'[r] = current' /\ Goto(r, "undo_proxy")
    BY <1>1, <1>3 DEF UndoLoad, Typed, Own
  <2> QED BY <1>1, <1>2, <2>1, OneMoves, MovingStep DEF Moving
<1>4. CASE ~Parses(disk)
  <2>1. /\ UNCHANGED <<current, proxy, admin, astray>> /\ Goto(r, "err")
        /\ cfg' = [cfg EXCEPT ![r] = NoConfig]
    BY <1>4 DEF UndoLoad, Answer
  <2>2. \A b \in Actors \ {r} : cfg'[b] = cfg[b]
    BY <2>1 DEF Typed, Own
  <2> QED BY <1>1, <1>2, <2>1, <2>2, QuietStep DEF Moving
<1> QED BY <1>3, <1>4

\* Everything else a request does moves nothing.
LEMMA FollowQuiet ==
  ASSUME Typed, FollowInv, NEW r \in Requests,
         \/ LockRequest(r) \/ ReadAndMerge(r) \/ Check(r)
         \/ Truncate(r) \/ WriteNew(r) \/ WriteFails(r) \/ LoadFails(r)
         \/ UndoNothing(r) \/ UndoTruncate(r) \/ UndoWrite(r) \/ UndoWriteFails(r)
  PROVE  FollowInv'
<1>1. r \in Lockers
  BY DEF Lockers
<1>2. pc[r] \in {"lock", "read", "check", "open", "write", "load", "undo_open", "undo_write"}
  BY DEF LockRequest, ReadAndMerge, Check, Truncate, WriteNew, WriteFails, LoadFails,
         UndoNothing, UndoTruncate, UndoWrite, UndoWriteFails
<1>3. UNCHANGED <<current, proxy, admin, astray>>
  BY DEF LockRequest, ReadAndMerge, Check, Truncate, WriteNew, WriteFails, LoadFails,
         UndoNothing, UndoTruncate, UndoWrite, UndoWriteFails, store, memory
<1>4. cfg' = cfg \/ cfg' = [cfg EXCEPT ![r] = NoConfig]
  BY DEF LockRequest, ReadAndMerge, Check, Truncate, WriteNew, WriteFails, LoadFails,
         UndoNothing, UndoTruncate, UndoWrite, UndoWriteFails, Answer, locals
<1>5. \E l \in {"read", "check", "open", "write", "load", "err",
                "undo_open", "undo_write", "undo_load"} : Goto(r, l)
  BY DEF LockRequest, ReadAndMerge, Check, Truncate, WriteNew, WriteFails, LoadFails,
         UndoNothing, UndoTruncate, UndoWrite, UndoWriteFails, Answer
<1>6. pc[Main] \in {"admin", "done"}
  BY <1>1, <1>2, Running DEF Waiting
<1>7. \A b \in Actors \ {r} : cfg'[b] = cfg[b]
  BY <1>4 DEF Typed, Own
<1> QED BY <1>1, <1>2, <1>3, <1>5, <1>6, <1>7, QuietStep DEF Moving

LEMMA FollowHandler ==
  ASSUME Typed, Exclusive, FollowInv, NEW r \in Requests, Handler(r)
  PROVE  FollowInv'
BY FollowLoad, FollowProxy, FollowAdmin, FollowUndoLoad, FollowQuiet DEF Handler, Lockers

LEMMA FollowReloader ==
  ASSUME Typed, Exclusive, FollowInv, Reloader
  PROVE  FollowInv'
<1>1. Watcher \in Lockers
  BY DEF Lockers
<1>2. CASE Load(Watcher) \/ SwapProxy(Watcher) \/ ReloadAdmin
  BY <1>1, <1>2, FollowLoad, FollowProxy, FollowAdmin
<1>3. CASE WatchStart \/ Poll \/ LockWatcher \/ ReloadFails
  <2>1. pc[Watcher] \in {"off", "poll", "lock", "load"}
    BY <1>3 DEF WatchStart, Poll, LockWatcher, ReloadFails
  <2>2. UNCHANGED <<current, proxy, admin, astray, cfg>>
    BY <1>3 DEF WatchStart, Poll, LockWatcher, ReloadFails, store, memory, locals
  <2>3. \E l \in {"poll", "lock", "load"} : Goto(Watcher, l)
    BY <1>3 DEF WatchStart, Poll, LockWatcher, ReloadFails
  <2>4. pc[Main] \in {"admin", "done"}
    <3>1. CASE WatchStart BY <3>1 DEF WatchStart
    <3>2. CASE Poll \/ LockWatcher \/ ReloadFails
      BY <1>1, <3>2, Running DEF Poll, LockWatcher, ReloadFails, Waiting
    <3> QED BY <1>3, <3>1, <3>2
  <2> QED BY <1>1, <2>1, <2>2, <2>3, <2>4, QuietStep DEF Moving
<1> QED BY <1>2, <1>3 DEF Reloader

-----------------------------------------------------------------------------
(* main, and the environment.                                              *)

\* Until main is up nobody is under way.
LEMMA NobodyMoves ==
  ASSUME FollowInv, pc[Main] \in {"setup", "load", "pid", "proxy", "dead"}
  PROVE  /\ admin = NoAddr
         /\ \A a \in Lockers : pc[a] \in Waiting \cup {"off"} /\ pc[a] \notin Moving
BY DEF FollowInv, Early, Lockers, Waiting, Moving

LEMMA FollowStarter ==
  ASSUME Typed, FollowInv, Starter
  PROVE  FollowInv'
<1>0. pc \in [Actors -> RequestPC \cup WatcherPC \cup MainPC] /\ Main \in Actors
  BY ActorsDiffer DEF Typed, Own
<1>1. \A a \in Lockers : a \in Actors /\ a # Main
  BY LockersDiffer
<1>2. ASSUME pc[Main] \in {"setup", "load", "pid", "proxy"}, UNCHANGED admin,
             NEW l \in {"load", "pid", "proxy", "dead"}, Goto(Main, l),
             l \in {"pid", "proxy"} => cfg'[Main] = current'
      PROVE  FollowInv'
  <2>1. pc'[Main] = l /\ \A a \in Lockers : pc'[a] = pc[a]
    BY <1>0, <1>1, <1>2 DEF Goto
  <2>2. Early'
    BY <1>2, <2>1, NobodyMoves DEF Early, Lockers, FollowInv
  <2>3. InForce'
    BY <1>2, <2>1, NobodyMoves DEF InForce
  <2>4. Following'
    BY <2>1 DEF Following, Opened
  <2> QED BY <2>2, <2>3, <2>4 DEF FollowInv
<1>3. CASE SetUp
  BY <1>2, <1>3 DEF SetUp, memory
<1>4. CASE Load(Main)
  <2>1. cfg'[Main] = current'
    BY <1>0, <1>4 DEF Load, Typed, Own
  <2> QED BY <1>2, <1>4, <2>1 DEF Load
<1>5. CASE StartFails
  BY <1>2, <1>5 DEF StartFails
<1>8. CASE WritePid
  <2>1. /\ pc[Main] = "pid" /\ Goto(Main, "proxy")
        /\ UNCHANGED <<current, admin, astray, cfg>>
    BY <1>8 DEF WritePid, store, memory, locals
  <2>2. cfg[Main] = current
    BY <2>1 DEF FollowInv, InForce
  <2> QED BY <1>2, <2>1, <2>2
<1>6. CASE StartProxy
  <2>1. /\ pc[Main] = "proxy" /\ proxy' = cfg[Main].listen /\ Goto(Main, "admin")
        /\ UNCHANGED <<current, admin, astray, cfg>>
    BY <1>6 DEF StartProxy, locals
  <2>2. pc'[Main] = "admin" /\ \A a \in Lockers : pc'[a] = pc[a]
    BY <1>0, <1>1, <2>1 DEF Goto
  <2>3. cfg[Main] = current /\ admin = NoAddr
    BY <2>1, NobodyMoves DEF FollowInv, InForce
  <2>4. ProxySide' /\ (Opened' => AdminSide')
    BY <2>1, <2>2, <2>3 DEF ProxySide, AdminSide, Opened
  <2>5. Early' /\ InForce' /\ Following'
    BY <2>1, <2>2, <2>4, NobodyMoves DEF Early, InForce, Following
  <2> QED BY <2>5 DEF FollowInv
<1>7. CASE StartAdmin
  <2>1. /\ pc[Main] = "admin" /\ Goto(Main, "done")
        /\ UNCHANGED <<current, proxy, cfg>>
    BY <1>7 DEF StartAdmin, locals
  <2>2. pc'[Main] = "done" /\ \A a \in Lockers : pc'[a] = pc[a]
    BY <1>0, <1>1, <2>1 DEF Goto
  <2>3. ProxySide => ProxySide'
    BY <1>7, <2>1 DEF StartAdmin, ProxySide, Settled
  <2>4. CASE cfg[Main].disable
    <3>1. Opened /\ UNCHANGED <<admin, astray>>
      BY <1>7, <2>1, <2>4 DEF StartAdmin, Opened
    <3>2. AdminSide => AdminSide'
      BY <2>1, <3>1 DEF AdminSide
    <3>3. Early' /\ InForce' /\ Following'
      BY <2>1, <2>2, <2>3, <3>1, <3>2 DEF Early, InForce, Following, FollowInv
    <3> QED BY <3>3 DEF FollowInv
  <2>5. CASE ~cfg[Main].disable
    <3>1. AdminSide'
      BY <1>7, <2>1, <2>5
         DEF StartAdmin, AdminSide, AdminAfter, AdminError, PanelOff, Settled
    <3>2. Early' /\ InForce' /\ Following'
      BY <2>1, <2>2, <2>3, <3>1 DEF Early, InForce, Following, FollowInv
    <3> QED BY <3>2 DEF FollowInv
  <2> QED BY <2>4, <2>5
<1> QED BY <1>3, <1>4, <1>5, <1>6, <1>7, <1>8 DEF Starter

LEMMA FollowEnvironment ==
  ASSUME Typed, FollowInv, Environment
  PROVE  FollowInv'
<1>1. ASSUME NEW r \in Requests, Submit(r) PROVE FollowInv'
  <2>1. /\ pc[r] = "idle" /\ r \in Lockers /\ admin # NoAddr
        /\ \E l \in {"lock", "err"} : Goto(r, l)
        /\ UNCHANGED <<current, proxy, admin, astray, cfg>>
    BY <1>1 DEF Submit, Lockers, store, memory
  <2>2. pc[Main] \in {"admin", "done"}
    BY <2>1 DEF FollowInv, Early, Typed, Own, MainPC
  <2> QED BY <2>1, <2>2, QuietStep DEF Moving
<1>2. ASSUME UNCHANGED <<current, proxy, admin, astray, pc, cfg>> PROVE FollowInv'
  BY <1>2 DEF FollowInv, Early, InForce, Following, ProxySide, AdminSide, Opened
<1>3. ASSUME NEW c \in Edits, EditRename(c) \/ EditOpen(c) PROVE FollowInv'
  BY <1>2, <1>3 DEF EditRename, EditOpen, memory, locals
<1>4. CASE EditClose \/ SecondStart
  BY <1>2, <1>4 DEF EditClose, SecondStart, memory, locals
<1>5. ASSUME NEW x \in Addrs, TakePort(x) \/ FreePort(x) PROVE FollowInv'
  BY <1>2, <1>5 DEF TakePort, FreePort, store, memory, locals
<1>6. CASE Shutdown \/ Kill
  <2>1. /\ admin' = NoAddr
        /\ pc' = [a \in Actors |-> IF a = Main THEN "setup"
                                   ELSE IF a = Watcher THEN "off"
                                   ELSE IF pc[a] \in {"idle", "ok", "err"} THEN pc[a]
                                   ELSE "lost"]
    BY <1>6 DEF Shutdown, Kill, Restart
  <2>2. pc'[Main] = "setup" /\ \A a \in Lockers : pc'[a] \in Waiting \cup {"off"}
    BY <2>1, ActorsDiffer DEF Lockers, Waiting
  <2>3. pc'[Watcher] = "off" /\ \A r \in Requests : pc'[r] \in Waiting
    BY <2>1, ActorsDiffer DEF Waiting
  <2>4. Early' /\ InForce' /\ Following'
    BY <2>1, <2>2, <2>3 DEF Early, InForce, Following, Opened, Waiting, Moving
  <2> QED BY <2>4 DEF FollowInv
<1> QED BY <1>1, <1>3, <1>4, <1>5, <1>6 DEF Environment

-----------------------------------------------------------------------------

LEMMA FollowInit == Init => FollowInv
<1> SUFFICES ASSUME Init PROVE FollowInv
  OBVIOUS
<1>1. /\ pc[Main] = "setup" /\ pc[Watcher] = "off" /\ admin = NoAddr
      /\ \A r \in Requests : pc[r] = "idle"
  BY ActorsDiffer DEF Init
<1> QED
  BY <1>1 DEF FollowInv, Early, InForce, Following, Opened, Lockers, Waiting, Moving

LEMMA FollowStep == Typed /\ Exclusive /\ FollowInv /\ [Next]_vars => FollowInv'
<1> SUFFICES ASSUME Typed, Exclusive, FollowInv, [Next]_vars PROVE FollowInv'
  OBVIOUS
<1>1. CASE Next
  BY <1>1, FollowHandler, FollowReloader, FollowStarter, FollowEnvironment DEF Next
<1>2. CASE UNCHANGED vars
  BY <1>2 DEF vars, FollowInv, Early, InForce, Following, ProxySide, AdminSide, Opened
<1> QED BY <1>1, <1>2

\* At rest nobody holds applyMu, hence nobody is moving a listener.
LEMMA FollowAtRest == Exclusive /\ FollowInv => ListenersFollow
<1> SUFFICES ASSUME Exclusive, FollowInv, AtRest
             PROVE  ProxySide /\ AdminSide
  BY DEF ListenersFollow, ProxySide, AdminSide
<1>1. \A a \in Lockers : pc[a] \notin Moving
  BY LockersDiffer, MarkersAssumption DEF AtRest, Exclusive, Lockers, Moving, Critical
<1> QED BY <1>1 DEF AtRest, FollowInv, Following, Opened, Moving

\* Whatever is saved, imported, edited, refused, rolled back or killed: when
\* nothing is under way both listeners are where the configuration in force
\* puts them, but for a move that was refused.
THEOREM Followed == Spec => []ListenersFollow
<1>1. Spec => []Typed
  BY TypedInit, TypedStep, PTL DEF Spec
<1>2. Spec => []Exclusive
  BY MutualExclusion
<1>3. Spec => []FollowInv
  BY <1>1, <1>2, FollowInit, FollowStep, PTL DEF Spec
<1> QED BY <1>2, <1>3, FollowAtRest, PTL

-----------------------------------------------------------------------------
(* Without faults ConfigApply implements ConfigStore.  Faults are what     *)
(* Faults allows; ports that others take between transactions are not      *)
(* among them.                                                             *)

\* Nobody is at work on the configuration, and nothing will wake the poller.
Asleep ==
  /\ mu = None
  /\ ~touched
  /\ pc[Watcher] \in {"off", "poll"}
  /\ \A r \in Requests : pc[r] \in {"idle", "ok", "err"}

\* Without a panel nobody can ask for anything.
Dormant == admin = NoAddr => Asleep

\* Until the start is complete the file is what it was, and what main has
\* loaded is in the file.
Starting ==
  pc[Main] # "done" =>
    /\ admin = NoAddr
    /\ disk \in Configs
    /\ base = Store!Stopped(disk)
    /\ pc[Main] \in {"pid", "proxy", "admin"} => cfg[Main] = disk /\ current = disk
    /\ pc[Main] = "admin" => proxy = disk.listen

\* Outside the transactions of requests, file, memory and listeners agree.
Agree == /\ disk \in Configs
         /\ current = disk /\ proxy = disk.listen /\ admin = disk.monitor
Resting == pc[Main] = "done" /\ mu \notin Requests /\ admin # NoAddr => Agree

\* A reload finds what is in force anyway.
Reloading == pc[Watcher] \in {"proxy", "admin"} => cfg[Watcher] = disk

\* The addresses a transaction has begun with are nobody else's to its end.
Reserved(c) ==
  /\ c \in Configs /\ base = Store!Serving(c)
  /\ c.listen \notin held /\ c.monitor \notin held /\ c.listen # c.monitor

\* What the handler of r has in hand.
Unchanged(c) == current = c /\ proxy = c.listen /\ admin = c.monitor
Asked(r, c) == new[r] = IF job[r].kind = "put" THEN Merge(c, job[r].body) ELSE job[r].body
InHand(r, c) == Asked(r, c) /\ new[r] \in Configs /\ old[r] = c
Taken(r) == disk = new[r] /\ current = new[r] /\ cfg[r] = new[r]
Restored(r, c) == disk = c /\ current = c /\ cfg[r] = c

\* Where file, memory and listeners stand at each line of a transaction.
Stage(r, c) ==
  /\ pc[r] = "read" => disk = c /\ Unchanged(c)
  /\ pc[r] = "check" => disk = c /\ Unchanged(c) /\ Asked(r, c)
  /\ pc[r] = "open" => disk = c /\ Unchanged(c) /\ InHand(r, c)
  /\ pc[r] = "write" => Unchanged(c) /\ InHand(r, c)
  /\ pc[r] = "load" => disk = new[r] /\ Unchanged(c) /\ InHand(r, c)
  /\ pc[r] = "proxy" => Taken(r) /\ proxy = c.listen /\ admin = c.monitor /\ InHand(r, c)
  /\ pc[r] = "admin" => /\ Taken(r) /\ admin = c.monitor /\ InHand(r, c)
                        /\ proxy = IF failed[r] THEN c.listen ELSE new[r].listen
  /\ pc[r] \in {"undo_open", "undo_write"} => old[r] = c
  /\ pc[r] \in {"undo_open", "undo_write", "undo_load", "undo_proxy", "undo_admin"} =>
       proxy = c.listen \/ admin = c.monitor
  /\ pc[r] = "undo_load" => disk = c
  /\ pc[r] \in {"undo_proxy", "undo_admin"} => Restored(r, c)
  /\ pc[r] = "undo_admin" => proxy = c.listen

Transaction ==
  mu \in Requests =>
    /\ admin # NoAddr
    /\ Reserved(base.disk)
    /\ Stage(mu, base.disk)

CalmInv ==
  /\ editing = None
  /\ admin \notin held
  /\ Dormant /\ Starting /\ Resting /\ Reloading /\ Transaction

Known == Typed /\ Exclusive /\ ProxyNeverDark /\ CalmInv

-----------------------------------------------------------------------------

\* A configuration is none of the other contents, and reads as it is.
LEMMA ConfigParses ==
  ASSUME NEW c \in Configs
  PROVE  /\ Parses(c) /\ Parse(c) = c
         /\ c # Missing /\ c # Empty
         /\ c.listen \in Addrs /\ c.monitor \in Addrs
         /\ c.listen # NoAddr /\ c.monitor # NoAddr
BY MarkersAssumption, ConfigsAre DEF Parses, Parse, Configs

\* Who is past `idle` finds main up and the panel open.
LEMMA Serves ==
  ASSUME Known, \/ ~Asleep
                \/ \E r \in Requests : pc[r] \notin {"idle", "ok", "err"}
                \/ pc[Watcher] \notin {"off", "poll"}
  PROVE  pc[Main] = "done" /\ admin \in Addrs \ held /\ admin # NoAddr
BY MarkersAssumption DEF Known, CalmInv, Dormant, Starting, Asleep, Typed, World

\* Who is in the critical section is alone there.
LEMMA Holder ==
  ASSUME Known, NEW r \in Requests, pc[r] \in Critical
  PROVE  /\ mu = r /\ pc[Main] = "done" /\ admin \in Addrs \ held
         /\ Reserved(base.disk) /\ Stage(r, base.disk)
         /\ pc[Watcher] \notin Critical
         /\ proxy \in Addrs \ held /\ proxy # admin
<1>1. mu = r /\ pc[Watcher] \notin Critical
  BY ActorsDiffer DEF Known, Exclusive
<1>2. pc[Main] = "done" /\ admin \in Addrs \ held
  BY Serves DEF Critical
<1> QED BY <1>1, <1>2 DEF Known, CalmInv, Transaction, ProxyNeverDark

\* A step inside a transaction cannot be seen, and leads to its next stage.
LEMMA Within ==
  ASSUME Known, NEW r \in Requests, pc[r] \in Critical,
         NEW l \in Critical, Goto(r, l),
         UNCHANGED <<mu, base, machine>>, UNCHANGED job,
         admin' \in Addrs \ held,
         Stage(r, base.disk)'
  PROVE  CalmInv' /\ UNCHANGED Observed
<1>1. /\ mu = r /\ pc[Main] = "done" /\ Reserved(base.disk)
      /\ pc[Watcher] \notin Critical
  BY Holder
<1>2. pc'[Main] = "done" /\ pc'[Watcher] = pc[Watcher]
  BY <1>1, ActorsDiffer DEF Goto, Known, Typed, Own
<1>3. UNCHANGED Observed
  BY <1>1, <1>2 DEF Observed
<1>4. editing' = None /\ admin' \notin held'
  BY DEF Known, CalmInv, machine
<1>5. Dormant' /\ Starting' /\ Resting' /\ Reloading'
  BY <1>1, <1>2, MarkersAssumption DEF Dormant, Starting, Resting, Reloading, Critical
<1>6. Transaction'
  <2>1. Reserved(base.disk)'
    BY <1>1 DEF Reserved, machine
  <2> QED BY <1>1, <2>1, MarkersAssumption DEF Transaction
<1> QED BY <1>3, <1>4, <1>5, <1>6 DEF CalmInv

\* The end of a transaction shows file, memory and listeners in agreement.
LEMMA Ends ==
  ASSUME Known, NEW r \in Requests, pc[r] \in Critical,
         NEW l \in {"ok", "err"}, Answer(r, l), machine' = machine,
         Agree', admin' \notin held
  PROVE  CalmInv' /\ Observed = Store!Serving(base.disk) /\ Observed' = Store!Serving(disk')
<1>1. /\ mu = r /\ pc[Main] = "done" /\ Reserved(base.disk)
      /\ pc[Watcher] \notin Critical
  BY Holder
<1>2. mu' = None /\ pc'[Main] = "done" /\ pc'[Watcher] = pc[Watcher]
  BY <1>1, ActorsDiffer DEF Answer, Unlock, Goto, Known, Typed, Own
<1>3. None \notin Requests
  BY MarkersAssumption DEF Actors
<1>4. Observed = Store!Serving(base.disk)
  BY <1>1 DEF Observed, Reserved
<1>5. Observed' = Store!Serving(disk')
  BY <1>2, <1>3 DEF Observed, State, Agree, Store!Serving
<1>6. editing' = None /\ admin' \notin held' /\ admin' # NoAddr
  BY ConfigParses DEF Known, CalmInv, machine, Agree
<1>7. Dormant' /\ Starting' /\ Resting' /\ Reloading' /\ Transaction'
  BY <1>1, <1>2, <1>3, <1>6
     DEF Dormant, Starting, Resting, Reloading, Transaction, Critical
<1> QED BY <1>4, <1>5, <1>6, <1>7 DEF CalmInv

-----------------------------------------------------------------------------
(* Requests.                                                               *)

\* A transaction begins in agreement.
LEMMA LockCalm ==
  ASSUME Known, NEW r \in Requests, LockRequest(r)
  PROVE  CalmInv' /\ UNCHANGED Observed
<1>1. pc[r] = "lock" /\ mu = None /\ mu' = r /\ base' = State
  BY DEF LockRequest, Lock
<1>2. None \notin Requests /\ r \in Actors /\ r # Main /\ r # Watcher
  BY MarkersAssumption, ActorsDiffer DEF Actors
<1>3. /\ pc[Main] = "done" /\ admin \in Addrs \ held /\ Agree
      /\ proxy \in Addrs \ held /\ proxy # admin
  BY <1>1, <1>2, Serves, ConfigParses DEF Known, CalmInv, Resting, ProxyNeverDark
<1>4. \E l \in {"read", "check"} : Goto(r, l)
  BY DEF LockRequest
<1>5. pc'[Main] = "done" /\ pc'[Watcher] = pc[Watcher]
  BY <1>2, <1>3, <1>4, ActorsDiffer DEF Goto, Known, Typed, Own
<1>6. UNCHANGED <<disk, current, proxy, admin, held, editing, touched, cfg, job, old>>
  BY DEF LockRequest, store, memory, env, machine, locals
<1>7. base' = Store!Serving(disk) /\ base'.disk = disk
  BY <1>1, <1>3 DEF State, Agree, Store!Serving
<1>8. UNCHANGED Observed
  BY <1>1, <1>2, <1>3, <1>5, <1>7 DEF Observed, State, Agree, Store!Serving
<1>9. Transaction'
  <2>1. Reserved(base.disk)'
    BY <1>3, <1>6, <1>7 DEF Reserved, Agree
  <2>2. pc'[r] \in {"read", "check"}
    BY <1>2, <1>4 DEF Goto, Known, Typed, Own
  <2>3. pc'[r] = "check" => Asked(r, disk)'
    <3>1. CASE job[r].kind = "put"
      BY <1>2, <3>1 DEF LockRequest, Goto, Known, Typed, Own
    <3>2. CASE job[r].kind # "put"
      BY <1>6, <3>2 DEF LockRequest, Asked, Known, Typed, Own
    <3> QED BY <3>1, <3>2
  <2>4. Stage(r, base.disk)'
    BY <1>3, <1>6, <1>7, <2>2, <2>3 DEF Stage, Agree, Unchanged, Asked
  <2> QED BY <1>1, <1>3, <1>6, <2>1, <2>4, MarkersAssumption DEF Transaction
<1>10. Dormant' /\ Starting' /\ Resting' /\ Reloading'
  BY <1>1, <1>2, <1>3, <1>5, <1>6, MarkersAssumption
     DEF Dormant, Starting, Resting, Reloading, Known, CalmInv
<1> QED BY <1>3, <1>6, <1>8, <1>9, <1>10 DEF Known, CalmInv

\* From the reading of the file to the load of the new one.
LEMMA SaveCalm ==
  ASSUME Known, NEW r \in Requests,
         \/ ReadAndMerge(r) \/ Check(r) \/ Truncate(r) \/ WriteNew(r) \/ Load(r)
  PROVE  CalmInv' /\ UNCHANGED Observed
<1> DEFINE c == base.disk
<1>0. pc[r] \in Critical /\ r \in Actors /\ r # Main
  BY ActorsDiffer DEF ReadAndMerge, Check, Truncate, WriteNew, Load, Critical
<1>1. /\ mu = r /\ admin \in Addrs \ held /\ Reserved(c) /\ Stage(r, c)
  BY <1>0, Holder
<1>2. c \in Configs /\ base = Store!Serving(c)
  BY <1>1 DEF Reserved
<1>3. pc \in [Actors -> RequestPC \cup WatcherPC \cup MainPC] /\ new \in [Requests -> Contents]
      /\ old \in [Requests -> Contents] /\ cfg \in [Actors -> Configs \cup {NoConfig}]
      /\ job[r] \in Jobs /\ Acceptable(job[r])
  BY <1>0 DEF Known, Typed, Own, Asking
<1>4. CASE ReadAndMerge(r)
  <2>1. pc[r] = "read" /\ disk \in Configs /\ job[r].kind = "put"
    BY <1>1, <1>2, <1>4 DEF ReadAndMerge, Stage, Known, Typed, Own, Asking
  <2>2. /\ new' = [new EXCEPT ![r] = Merge(disk, job[r].body)]
        /\ Goto(r, "check")
        /\ UNCHANGED <<mu, job, old, cfg, failed, store, env, base>>
    BY <1>4, <2>1, ConfigsAre DEF ReadAndMerge
  <2>3. Stage(r, c)'
    BY <1>0, <1>1, <1>3, <2>1, <2>2
       DEF Stage, Goto, Asked, Unchanged, store, memory
  <2> QED BY <1>0, <1>1, <2>2, <2>3, Within DEF Critical, store, memory, env
<1>5. CASE Check(r) /\ Parses(new[r])
  <2>1. /\ old' = [old EXCEPT ![r] = disk]
        /\ pc[r] = "check" /\ Goto(r, "open")
        /\ UNCHANGED <<mu, job, new, cfg, failed, store, env, base>>
    BY <1>5 DEF Check
  <2>2. Asked(r, c) /\ disk = c /\ Unchanged(c)
    BY <1>1, <2>1 DEF Stage
  <2>3. new[r] \in Configs
    <3>1. CASE job[r].kind = "put"
      BY <1>2, <1>3, <2>2, <3>1, MergeType, ConfigsAre DEF Asked
    <3>2. CASE job[r].kind # "put"
      <4>1. new[r] = job[r].body /\ job[r].body # Empty
        BY <1>3, <2>2, <3>2 DEF Asked, Acceptable
      <4> QED BY <1>5, <4>1 DEF Parses
    <3> QED BY <3>1, <3>2
  <2>4. Stage(r, c)'
    BY <1>0, <1>1, <1>3, <2>1, <2>2, <2>3
       DEF Stage, Goto, Asked, Unchanged, InHand, store, memory
  <2> QED BY <1>0, <1>1, <2>1, <2>4, Within DEF Critical, store, memory, env
<1>6. CASE Check(r) /\ ~Parses(new[r])
  <2>1. pc[r] = "check" /\ Answer(r, "err") /\ UNCHANGED <<store, env, base>>
    BY <1>6 DEF Check
  <2>2. disk = c /\ Unchanged(c)
    BY <1>1, <2>1 DEF Stage
  <2>3. Agree' /\ disk' = c
    BY <1>2, <2>1, <2>2 DEF Agree, Unchanged, store, memory
  <2>4. CalmInv' /\ Observed = Store!Serving(c) /\ Observed' = Store!Serving(disk')
    BY <1>0, <1>1, <2>1, <2>3, Ends DEF store, memory, env, machine
  <2> QED BY <2>3, <2>4
<1>7. CASE Truncate(r) \/ WriteNew(r)
  <2>1. /\ UNCHANGED <<memory, machine, mu, locals, base>>
        /\ \/ pc[r] = "open" /\ Goto(r, "write")
           \/ pc[r] = "write" /\ Goto(r, "load") /\ disk' = new[r]
    BY <1>7 DEF Truncate, WriteNew
  <2>2. InHand(r, c) /\ Unchanged(c)
    BY <1>1, <2>1 DEF Stage
  <2>3. Stage(r, c)'
    BY <1>0, <1>1, <1>3, <2>1, <2>2
       DEF Stage, Goto, Asked, Unchanged, InHand, memory, locals
  <2> QED BY <1>0, <1>1, <2>1, <2>3, Within DEF Critical, memory, locals
<1>8. CASE Load(r)
  <2>1. /\ pc[r] = "load" /\ Goto(r, "proxy")
        /\ current' = Parse(disk) /\ cfg' = [cfg EXCEPT ![r] = Parse(disk)]
        /\ UNCHANGED <<disk, proxy, admin, astray, env, mu, job, new, old, failed, base>>
    BY <1>8, ActorsDiffer DEF Load
  <2>2. InHand(r, c) /\ Unchanged(c) /\ disk = new[r]
    BY <1>1, <2>1 DEF Stage
  <2>3. Parse(disk) = new[r]
    BY <2>2, ConfigParses DEF InHand
  <2>4. Stage(r, c)'
    BY <1>0, <1>1, <1>3, <2>1, <2>2, <2>3
       DEF Stage, Goto, Asked, Unchanged, InHand, Taken
  <2> QED BY <1>0, <1>1, <2>1, <2>4, Within DEF Critical, env
<1> QED BY <1>4, <1>5, <1>6, <1>7, <1>8

\* The two moves of the listeners: either both succeed and the transaction
\* ends, or the rollback finds at least one listener where it was.
LEMMA ProxyCalm ==
  ASSUME Known, NEW r \in Requests, SwapProxy(r)
  PROVE  CalmInv' /\ UNCHANGED Observed
<1> DEFINE c == base.disk
<1>0. pc[r] = "proxy" /\ r \in Actors
  BY ActorsDiffer DEF SwapProxy
<1>1. /\ mu = r /\ admin \in Addrs \ held /\ Reserved(c) /\ Stage(r, c)
  BY <1>0, Holder DEF Critical
<1>2. /\ Taken(r) /\ proxy = c.listen /\ admin = c.monitor /\ InHand(r, c)
  BY <1>0, <1>1 DEF Stage
<1>3. /\ Goto(r, "admin")
      /\ proxy' = ProxyAfter(new[r].listen)
      /\ failed' = [failed EXCEPT ![r] = ProxyError(new[r].listen)]
      /\ UNCHANGED <<disk, current, admin, env, mu, job, new, old, cfg, base>>
  BY <1>2 DEF SwapProxy, Taken
<1>4. proxy' = IF failed'[r] THEN c.listen ELSE new[r].listen
  <2>1. failed'[r] = ProxyError(new[r].listen)
    <3>1. r \in DOMAIN failed
      BY <1>0 DEF Known, Typed, Own
    <3> QED BY <1>3, <3>1, Zenon
  <2>2. CASE ProxyError(new[r].listen)
    <3>1. ProxyAfter(new[r].listen) = proxy
      BY <2>2 DEF ProxyError, ProxyAfter
    <3>2. failed'[r]
      BY <2>1, <2>2
    <3> QED BY <1>2, <1>3, <3>1, <3>2
  <2>3. CASE ~ProxyError(new[r].listen)
    <3>1. ProxyAfter(new[r].listen) = new[r].listen
      BY <2>3 DEF ProxyError, ProxyAfter
    <3>2. ~failed'[r]
      BY <2>1, <2>3
    <3> QED BY <1>3, <3>1, <3>2
  <2> QED BY <2>2, <2>3
<1>5. Stage(r, c)'
  <2>1. pc'[r] = "admin"
    BY <1>0, <1>3 DEF Goto, Known, Typed, Own
  <2> QED BY <1>2, <1>3, <1>4, <2>1 DEF Stage, Taken, InHand, Asked
<1> QED BY <1>0, <1>1, <1>3, <1>5, Within DEF Critical, env

\* Editing single nodes of the file is what a save should do.
LEMMA MergeIsSaved ==
  ASSUME NEW c \in Configs, NEW p
  PROVE  Merge(c, p) = Store!Saved(c, p)
<1> DEFINE m == Merge(c, p)
<1>1. /\ c.listen \in Addrs /\ c.monitor \in Addrs /\ c.disable \in BOOLEAN /\ c.rules \in Rules
      /\ DOMAIN c = {"listen", "monitor", "disable", "rules"}
  BY DEF Configs
<1>2. /\ m = [x \in DOMAIN m |-> m[x]]
      /\ DOMAIN m = {"listen", "monitor", "disable", "rules"}
      /\ m.listen = p.listen /\ m.monitor = p.monitor /\ m.disable = c.disable
      /\ m.rules = IF p.rules = NoRules THEN c.rules ELSE p.rules
  BY <1>1 DEF Merge
<1> HIDE DEF m
<1>3. m = [listen |-> m.listen, monitor |-> m.monitor, disable |-> m.disable, rules |-> m.rules]
  BY <1>2
<1> QED BY <1>2, <1>3 DEF m, Store!Saved

\* What a request asks for is what ConfigStore makes of the old configuration.
LEMMA AskedFor ==
  ASSUME Known, NEW r \in Requests, pc[r] = "admin", NEW c \in Configs, InHand(r, c)
  PROVE  \/ \E p \in {q \in Puts : q.rules # BadRules} : new[r] = Store!Saved(c, p)
         \/ new[r] \in Imports \cap Configs
<1>1. job[r] \in Jobs /\ Acceptable(job[r])
  BY DEF Known, Typed, Own, Asking, Critical
<1>2. CASE job[r].kind = "put"
  <2>1. job[r].body \in Puts /\ job[r].body.rules # BadRules
    BY <1>1, <1>2 DEF Jobs, Acceptable
  <2>2. Merge(c, job[r].body) = Store!Saved(c, job[r].body)
    BY MergeIsSaved
  <2> QED BY <1>2, <2>1, <2>2 DEF InHand, Asked
<1>3. CASE job[r].kind # "put"
  BY <1>1, <1>3 DEF InHand, Asked, Jobs
<1> QED BY <1>2, <1>3

LEMMA AdminCalm ==
  ASSUME Known, NEW r \in Requests, SwapAdmin(r)
  PROVE  CalmInv' /\ [Store!Next]_Observed
<1> DEFINE c == base.disk
           x == new[r].monitor
<1>0. pc[r] = "admin" /\ r \in Actors
  BY ActorsDiffer DEF SwapAdmin
<1>1. /\ mu = r /\ admin \in Addrs \ held /\ Reserved(c) /\ Stage(r, c)
      /\ proxy \in Addrs \ held /\ proxy # admin
  BY <1>0, Holder DEF Critical
<1>2. /\ Taken(r) /\ admin = c.monitor /\ InHand(r, c)
      /\ proxy = IF failed[r] THEN c.listen ELSE new[r].listen
  BY <1>0, <1>1 DEF Stage
<1>3. new[r] \in Configs /\ x \in Addrs /\ c \in Configs
  BY <1>1, <1>2, ConfigParses DEF InHand, Reserved
<1>4. admin' = AdminAfter(x) /\ ~PanelOff
  BY <1>1, <1>2, MarkersAssumption DEF SwapAdmin, PanelOff, Taken
<1>5. admin' \in Addrs \ held
  BY <1>1, <1>3, <1>4 DEF AdminAfter, CanBind
<1>6. CASE failed[r] \/ AdminError(x)
  <2>1. /\ Goto(r, "undo_open")
        /\ UNCHANGED <<mu, locals, disk, current, proxy, env, base>>
    BY <1>2, <1>6 DEF SwapAdmin, Taken
  <2>2. proxy' = c.listen \/ admin' = c.monitor
    BY <1>2, <1>4, <1>6, <2>1 DEF AdminAfter, AdminError
  <2>3. Stage(r, c)'
    BY <1>0, <1>2, <2>1, <2>2 DEF Stage, Goto, InHand, locals, Known, Typed, Own
  <2> QED BY <1>0, <1>5, <2>1, <2>3, Within DEF Critical, env, locals
<1>7. CASE ~failed[r] /\ ~AdminError(x)
  <2>1. /\ Answer(r, "ok")
        /\ UNCHANGED <<disk, current, proxy, env, base>>
    BY <1>2, <1>7 DEF SwapAdmin, Taken
  <2>2. Agree' /\ disk' = new[r]
    BY <1>2, <1>3, <1>4, <1>7, <2>1 DEF Agree, Taken, AdminAfter, AdminError
  <2>3. /\ CalmInv'
        /\ Observed = Store!Serving(c) /\ Observed' = Store!Serving(new[r])
    BY <1>0, <1>1, <1>5, <2>1, <2>2, Ends DEF Critical, env, machine
  <2>4. Observed.disk = c
    BY <2>3 DEF Store!Serving
  <2>5. Store!Save \/ Store!Import
    BY <1>0, <1>2, <1>3, <2>3, <2>4, AskedFor DEF Store!Save, Store!Import
  <2> QED BY <2>3, <2>5 DEF Store!Next
<1> QED BY <1>6, <1>7

\* The rollback: with one listener in its place the other finds its old address
\* free, as nobody takes ports meanwhile and no two addresses are the same.
LEMMA UndoCalm ==
  ASSUME Known, Faults = {}, NEW r \in Requests,
         \/ UndoNothing(r) \/ UndoTruncate(r) \/ UndoWrite(r) \/ UndoLoad(r)
         \/ UndoProxy(r) \/ UndoAdmin(r)
  PROVE  CalmInv' /\ UNCHANGED Observed
<1> DEFINE c == base.disk
<1>0. pc[r] \in Critical /\ r \in Actors
  BY ActorsDiffer
     DEF UndoNothing, UndoTruncate, UndoWrite, UndoLoad, UndoProxy, UndoAdmin, Critical
<1>1. /\ mu = r /\ admin \in Addrs \ held /\ Reserved(c) /\ Stage(r, c)
      /\ proxy \in Addrs \ held /\ proxy # admin
  BY <1>0, Holder
<1>2. /\ c \in Configs /\ base = Store!Serving(c)
      /\ c.listen \in Addrs \ held /\ c.monitor \in Addrs \ held
      /\ c.listen # c.monitor /\ c # Missing /\ Parses(c) /\ Parse(c) = c
  BY <1>1, ConfigParses DEF Reserved
<1>3. /\ pc \in [Actors -> RequestPC \cup WatcherPC \cup MainPC]
      /\ cfg \in [Actors -> Configs \cup {NoConfig}]
  BY DEF Known, Typed, Own
<1>4. CASE UndoNothing(r)
  BY <1>1, <1>2, <1>4 DEF UndoNothing, Stage
<1>5. CASE UndoTruncate(r) \/ UndoWrite(r)
  <2>1. /\ UNCHANGED <<memory, machine, mu, locals, base>>
        /\ \/ pc[r] = "undo_open" /\ Goto(r, "undo_write")
           \/ pc[r] = "undo_write" /\ Goto(r, "undo_load") /\ disk' = old[r]
    BY <1>5 DEF UndoTruncate, UndoWrite
  <2>2. Stage(r, c)'
    BY <1>0, <1>1, <1>3, <2>1 DEF Stage, Goto, memory, locals
  <2> QED BY <1>0, <1>1, <2>1, <2>2, Within DEF Critical, memory, locals
<1>6. CASE UndoLoad(r)
  <2>1. disk = c /\ pc[r] = "undo_load"
    BY <1>1, <1>6 DEF UndoLoad, Stage
  <2>2. /\ current' = c /\ cfg' = [cfg EXCEPT ![r] = c] /\ Goto(r, "undo_proxy")
        /\ UNCHANGED <<mu, job, new, old, failed, disk, proxy, admin, env, base>>
    BY <1>2, <1>6, <2>1 DEF UndoLoad
  <2>3. Stage(r, c)'
    BY <1>0, <1>1, <1>3, <2>1, <2>2 DEF Stage, Goto, Restored
  <2> QED BY <1>0, <1>1, <2>2, <2>3, Within DEF Critical, env
<1>7. CASE UndoProxy(r)
  <2>1. Restored(r, c) /\ (proxy = c.listen \/ admin = c.monitor)
    BY <1>1, <1>7 DEF UndoProxy, Stage
  <2>2. /\ proxy' = ProxyAfter(c.listen) /\ Goto(r, "undo_admin")
        /\ UNCHANGED <<disk, current, admin, env, mu, locals, base>>
    BY <1>7, <2>1 DEF UndoProxy, Restored
  <2>3. proxy' = c.listen
    BY <1>2, <2>1, <2>2 DEF ProxyAfter, CanBind
  <2>4. Stage(r, c)'
    BY <1>0, <1>3, <2>1, <2>2, <2>3 DEF Stage, Goto, Restored, locals
  <2> QED BY <1>0, <1>1, <2>2, <2>4, Within DEF Critical, env, locals
<1>8. CASE UndoAdmin(r)
  <2>1. Restored(r, c) /\ proxy = c.listen
    BY <1>1, <1>8 DEF UndoAdmin, Stage
  <2>2. /\ admin' = AdminAfter(c.monitor) /\ Answer(r, "err")
        /\ UNCHANGED <<disk, current, proxy, env, base>>
    BY <1>8, <2>1 DEF UndoAdmin, Restored
  <2>3. admin' = c.monitor
    BY <1>1, <1>2, <2>1, <2>2, MarkersAssumption DEF AdminAfter, CanBind, PanelOff
  <2>4. Agree' /\ disk' = c
    BY <1>2, <2>1, <2>2, <2>3 DEF Agree, Restored
  <2>5. Observed = Store!Serving(c) /\ Observed' = Store!Serving(disk') /\ CalmInv'
    BY <1>0, <1>2, <2>2, <2>3, <2>4, Ends DEF env, machine
  <2> QED BY <2>4, <2>5
<1> QED BY <1>4, <1>5, <1>6, <1>7, <1>8

LEMMA HandlerCalm ==
  ASSUME Known, Faults = {}, NEW r \in Requests, Handler(r)
  PROVE  CalmInv' /\ [Store!Next]_Observed
<1>1. ~LoadFails(r)
  <2>1. ASSUME LoadFails(r) PROVE FALSE
    <3>1. pc[r] = "load" /\ Stage(r, base.disk)
      BY <2>1, Holder DEF LoadFails, Critical
    <3> QED BY <2>1, <3>1, ConfigParses DEF LoadFails, Stage, InHand
  <2> QED BY <2>1
<1>2. ~WriteFails(r) /\ ~UndoWriteFails(r)
  BY DEF WriteFails, UndoWriteFails
<1> QED
  BY <1>1, <1>2, LockCalm, SaveCalm, ProxyCalm, AdminCalm, UndoCalm DEF Handler

-----------------------------------------------------------------------------
(* The poller, main and the environment.                                   *)

\* A step of somebody else does not disturb a transaction.
LEMMA Aside ==
  ASSUME Known, NEW a \in {Watcher, Main}, NEW l, Goto(a, l),
         \/ mu' \notin Requests
         \/ UNCHANGED <<mu, disk, current, proxy, admin, held, base, locals>>
  PROVE  Transaction'
<1>1. CASE mu' \notin Requests
  BY <1>1 DEF Transaction
<1>2. CASE mu' \in Requests
  <2>1. UNCHANGED <<mu, disk, current, proxy, admin, held, base, locals>>
    BY <1>2
  <2>2. pc'[mu] = pc[mu]
    BY <1>2, <2>1, ActorsDiffer DEF Goto, Known, Typed, Own
  <2>3. admin # NoAddr /\ Reserved(base.disk) /\ Stage(mu, base.disk)
    BY <1>2, <2>1 DEF Known, CalmInv, Transaction
  <2>4. Reserved(base.disk)'
    BY <2>1, <2>3 DEF Reserved
  <2>5. Stage(mu, base.disk)'
    BY <2>1, <2>2, <2>3
       DEF Stage, Unchanged, Asked, InHand, Taken, Restored, locals
  <2> QED BY <2>1, <2>3, <2>4, <2>5 DEF Transaction
<1> QED BY <1>1, <1>2

\* The poller only ever finds what is in force already.
LEMMA ReloaderCalm ==
  ASSUME Known, Reloader
  PROVE  CalmInv' /\ UNCHANGED Observed
<1>0. /\ pc \in [Actors -> RequestPC \cup WatcherPC \cup MainPC]
      /\ cfg \in [Actors -> Configs \cup {NoConfig}]
      /\ None \notin Requests /\ Watcher \notin Requests /\ Main # Watcher
      /\ Watcher \in Actors /\ Main \in Actors /\ Requests \subseteq Actors
  BY MarkersAssumption, ActorsDiffer DEF Known, Typed, Own, Actors
<1>1. UNCHANGED machine /\ \E l : Goto(Watcher, l)
  BY DEF Reloader, WatchStart, Poll, LockWatcher, Load, ReloadFails, SwapProxy,
         ReloadAdmin, env
<1>2. pc'[Main] = pc[Main] /\ \A r \in Requests : pc'[r] = pc[r]
  BY <1>0, <1>1, ActorsDiffer DEF Goto
<1>3. editing' = None /\ (admin' = admin => admin' \notin held')
  BY <1>1 DEF Known, CalmInv, machine
<1>4. CASE WatchStart
  <2>1. /\ pc'[Watcher] = "poll" /\ pc[Watcher] = "off" /\ touched' = FALSE
        /\ UNCHANGED <<disk, current, proxy, admin, held, mu, locals, cfg, base>>
    BY <1>0, <1>4 DEF WatchStart, Goto, store, memory, machine, locals
  <2>2. Transaction' /\ UNCHANGED Observed
    BY <1>1, <1>2, <2>1, Aside DEF Observed, State
  <2>3. Dormant' /\ Starting' /\ Resting' /\ Reloading'
    BY <1>2, <2>1
       DEF Known, CalmInv, Dormant, Asleep, Starting, Resting, Agree, Reloading
  <2> QED BY <1>3, <2>1, <2>2, <2>3 DEF CalmInv
<1>5. CASE Poll
  <2>1. /\ pc'[Watcher] = "lock" /\ touched
        /\ UNCHANGED <<disk, current, proxy, admin, held, mu, locals, cfg, base>>
    BY <1>0, <1>5 DEF Poll, Goto, store, memory, machine, locals
  <2>2. Transaction' /\ UNCHANGED Observed
    BY <1>1, <1>2, <2>1, Aside DEF Observed, State
  <2>3. pc[Main] = "done" /\ admin # NoAddr
    BY <2>1, Serves DEF Asleep
  <2>4. Dormant' /\ Starting' /\ Resting' /\ Reloading'
    BY <1>2, <2>1, <2>3
       DEF Known, CalmInv, Dormant, Starting, Resting, Agree, Reloading
  <2> QED BY <1>3, <2>1, <2>2, <2>4 DEF CalmInv
<1>6. CASE LockWatcher
  <2>1. /\ pc'[Watcher] = "load" /\ pc[Watcher] = "lock" /\ mu = None /\ mu' = Watcher
        /\ UNCHANGED <<disk, current, proxy, admin>>
    BY <1>0, <1>6 DEF LockWatcher, Lock, Goto, store, memory
  <2>2. pc[Main] = "done" /\ admin # NoAddr
    BY <2>1, Serves
  <2>3. Agree /\ Agree'
    BY <1>0, <2>1, <2>2 DEF Known, CalmInv, Resting, Agree
  <2>4. Transaction' /\ UNCHANGED Observed
    BY <1>0, <1>1, <1>2, <2>1, <2>2, Aside DEF Observed, State
  <2>5. Dormant' /\ Starting' /\ Resting' /\ Reloading'
    BY <1>2, <2>1, <2>2, <2>3 DEF Dormant, Starting, Resting, Reloading
  <2> QED BY <1>3, <2>1, <2>4, <2>5 DEF CalmInv
<1>7. CASE Load(Watcher) \/ ReloadFails \/ SwapProxy(Watcher) \/ ReloadAdmin
  <2>1. pc[Watcher] \in {"load", "proxy", "admin"}
    BY <1>7 DEF Load, ReloadFails, SwapProxy, ReloadAdmin
  <2>2. mu = Watcher /\ pc[Main] = "done" /\ admin # NoAddr
    BY <2>1, Serves DEF Known, Exclusive, Critical
  <2>3. Agree
    BY <1>0, <2>2 DEF Known, CalmInv, Resting
  <2>4. Parses(disk) /\ Parse(disk) = disk
    BY <2>3, ConfigParses DEF Agree
  <2>5. pc[Watcher] \in {"proxy", "admin"} => cfg[Watcher] = disk
    BY DEF Known, CalmInv, Reloading
  <2>6. /\ UNCHANGED <<disk, current, proxy, admin>>
        /\ mu' \in {Watcher, None}
        /\ pc'[Watcher] \in {"proxy", "admin"} => cfg'[Watcher] = disk
    <3>1. CASE Load(Watcher)
      BY <1>0, <2>2, <2>3, <2>4, <3>1 DEF Load, Goto, Agree
    <3>2. CASE SwapProxy(Watcher)
      <4>1. proxy' = ProxyAfter(disk.listen) /\ UNCHANGED <<disk, current, admin, mu, cfg>>
        BY <2>5, <3>2 DEF SwapProxy
      <4> QED BY <2>2, <2>3, <2>5, <3>2, <4>1 DEF ProxyAfter, Agree, SwapProxy
    <3>3. CASE ReloadAdmin
      <4>1. /\ admin' = AdminAfter(disk.monitor) /\ mu' = None
            /\ pc'[Watcher] = "poll" /\ UNCHANGED <<disk, current, proxy>>
        BY <1>0, <2>5, <3>3 DEF ReloadAdmin, Unlock, Goto
      <4> QED BY <2>3, <4>1 DEF AdminAfter, Agree
    <3>4. CASE ReloadFails
      BY <2>4, <3>4 DEF ReloadFails
    <3> QED BY <1>7, <3>1, <3>2, <3>3, <3>4
  <2>7. mu \notin Requests /\ mu' \notin Requests
    BY <1>0, <2>2, <2>6
  <2>8. Transaction' /\ UNCHANGED Observed
    BY <1>1, <1>2, <2>2, <2>6, <2>7, Aside DEF Observed, State
  <2>9. Dormant' /\ Starting' /\ Resting' /\ Reloading'
    BY <1>2, <2>2, <2>3, <2>6 DEF Dormant, Starting, Resting, Agree, Reloading
  <2> QED BY <1>3, <2>6, <2>8, <2>9 DEF CalmInv
<1> QED BY <1>4, <1>5, <1>6, <1>7 DEF Reloader

\* main is alone until the panel is open, and then has served what it loaded.
LEMMA StarterCalm ==
  ASSUME Known, Starter
  PROVE  CalmInv' /\ [Store!Next]_Observed
<1>0. /\ pc \in [Actors -> RequestPC \cup WatcherPC \cup MainPC]
      /\ cfg \in [Actors -> Configs \cup {NoConfig}] /\ held \subseteq Addrs
      /\ None \notin Requests /\ Main \notin Requests /\ Main # Watcher
      /\ Watcher \in Actors /\ Main \in Actors /\ Requests \subseteq Actors
  BY MarkersAssumption, ActorsDiffer DEF Known, Typed, World, Own, Actors
<1>1. /\ UNCHANGED <<touched, editing, held, mu, base>>
      /\ \E l : Goto(Main, l)
      /\ pc[Main] # "done"
  BY DEF Starter, SetUp, Load, WritePid, StartFails, StartProxy, StartAdmin, env, machine
<1>2. pc'[Watcher] = pc[Watcher] /\ \A r \in Requests : pc'[r] = pc[r]
  BY <1>0, <1>1 DEF Goto
<1>3. /\ admin = NoAddr /\ disk \in Configs /\ base = Store!Stopped(disk)
      /\ pc[Main] \in {"pid", "proxy", "admin"} => cfg[Main] = disk /\ current = disk
      /\ pc[Main] = "admin" => proxy = disk.listen
  BY <1>1 DEF Known, CalmInv, Starting
<1>4. Asleep /\ Asleep'
  BY <1>1, <1>2, <1>3 DEF Known, CalmInv, Dormant, Asleep
<1>5. mu' = None /\ Observed = Store!Stopped(disk)
  BY <1>1, <1>3, <1>4 DEF Observed, Asleep
<1>6. Dormant' /\ Reloading' /\ Transaction' /\ editing' = None
  BY <1>0, <1>1, <1>4, <1>5 DEF Dormant, Reloading, Transaction, Asleep, Known, CalmInv
<1>7. Parses(disk) /\ Parse(disk) = disk /\ disk # Missing
      /\ disk.listen # NoAddr /\ disk.monitor # NoAddr
  BY <1>3, ConfigParses
<1>8. CASE ~StartAdmin
  <2>1. /\ UNCHANGED <<disk, admin>> /\ pc'[Main] # "done"
        /\ pc'[Main] \in {"pid", "proxy", "admin"} => cfg'[Main] = disk /\ current' = disk
        /\ pc'[Main] = "admin" => proxy' = disk.listen
    <3>1. CASE SetUp
      BY <1>0, <1>7, <3>1 DEF SetUp, Seeded, Goto, memory
    <3>2. CASE Load(Main)
      BY <1>0, <1>7, <3>2 DEF Load, Goto
    <3>3. CASE StartFails
      BY <1>0, <3>3 DEF StartFails, Goto
    <3>4. CASE StartProxy
      BY <1>0, <1>3, <3>4 DEF StartProxy, Goto, locals
    <3>5. CASE WritePid
      BY <1>0, <1>3, <3>5 DEF WritePid, Goto, store, memory, locals
    <3> QED BY <1>8, <3>1, <3>2, <3>3, <3>4, <3>5 DEF Starter
  <2>2. Starting' /\ Resting' /\ admin' \notin held'
    BY <1>1, <1>3, <2>1 DEF Starting, Resting, Known, CalmInv
  <2>3. UNCHANGED Observed
    BY <1>1, <2>1 DEF Observed
  <2> QED BY <1>6, <2>2, <2>3 DEF CalmInv
<1>9. CASE StartAdmin
  <2>1. /\ pc[Main] = "admin" /\ pc'[Main] = "done"
        /\ UNCHANGED <<disk, current, proxy>>
        /\ admin' = admin \/ admin' = AdminAfter(cfg[Main].monitor)
    BY <1>0, <1>9 DEF StartAdmin, Goto
  <2>2. cfg[Main] = disk /\ current = disk /\ proxy = disk.listen
    BY <1>3, <2>1
  <2>3. \/ admin' = NoAddr
        \/ admin' = disk.monitor /\ disk.monitor \notin held
    BY <1>3, <2>1, <2>2 DEF AdminAfter, CanBind
  <2>4. Starting' /\ Resting' /\ admin' \notin held'
    BY <1>0, <1>1, <1>3, <2>1, <2>2, <2>3, MarkersAssumption DEF Starting, Resting, Agree
  <2>5. Observed' = [disk |-> disk, memory |-> disk, proxy |-> disk.listen, admin |-> admin']
    BY <1>0, <1>5, <2>1, <2>2 DEF Observed, State
  <2>6. Observed.disk = disk
    BY <1>5 DEF Store!Stopped
  <2>7. Store!Start
    <3>1. CASE admin' = disk.monitor
      BY <1>5, <2>5, <2>6, <3>1 DEF Store!Start, Store!Serving
    <3>2. CASE admin' = NoAddr
      BY <1>5, <2>5, <2>6, <3>2 DEF Store!Start, Store!Serving
    <3> QED BY <2>3, <3>1, <3>2
  <2> QED BY <1>6, <2>4, <2>7 DEF CalmInv, Store!Next
<1> QED BY <1>8, <1>9

\* Without faults the environment sends requests, and takes and frees ports
\* while nothing is applied.
LEMMA EnvironmentCalm ==
  ASSUME Known, Faults = {}, Environment
  PROVE  CalmInv' /\ UNCHANGED Observed
<1>0. /\ pc \in [Actors -> RequestPC \cup WatcherPC \cup MainPC]
      /\ job \in [Requests -> Jobs \cup {None}]
      /\ None \notin Requests /\ Requests \subseteq Actors
      /\ Main \notin Requests /\ Watcher \notin Requests
  BY MarkersAssumption, ActorsDiffer DEF Known, Typed, Own, Actors
<1>1. ASSUME NEW r \in Requests, Submit(r)
      PROVE  CalmInv' /\ UNCHANGED Observed
  <2>1. /\ UNCHANGED <<disk, current, proxy, admin, held, touched, editing, mu,
                       new, old, cfg, failed, base>>
        /\ pc[r] = "idle" /\ admin # NoAddr
        /\ \E l \in {"lock", "err"} : Goto(r, l)
        /\ \A q \in Requests \ {r} : job'[q] = job[q]
    BY <1>0, <1>1 DEF Submit, store, memory, env, machine
  <2>2. /\ pc'[Main] = pc[Main] /\ pc'[Watcher] = pc[Watcher]
        /\ pc'[r] \in {"lock", "err"}
        /\ \A q \in Requests \ {r} : pc'[q] = pc[q]
    BY <1>0, <2>1 DEF Goto
  <2>3. UNCHANGED Observed
    BY <2>1, <2>2 DEF Observed, State
  <2>4. Dormant' /\ Starting' /\ Resting' /\ Reloading' /\ editing' = None /\ admin' \notin held'
    BY <2>1, <2>2 DEF Known, CalmInv, Dormant, Starting, Resting, Agree, Reloading
  <2>5. Transaction'
    <3> SUFFICES ASSUME mu \in Requests
                 PROVE  Reserved(base.disk)' /\ Stage(mu, base.disk)'
      BY <2>1 DEF Transaction
    <3>1. Reserved(base.disk) /\ Stage(mu, base.disk)
      BY DEF Known, CalmInv, Transaction
    <3>2. Reserved(base.disk)'
      BY <2>1, <3>1 DEF Reserved
    <3>3. CASE mu = r
      <4>1. pc'[mu'] \in {"lock", "err"}
        BY <2>1, <2>2, <3>3
      <4> QED BY <3>2, <4>1 DEF Stage
    <3>4. CASE mu # r
      <4>1. UNCHANGED <<mu, pc[mu], job[mu], disk, current, proxy, admin, new, old, cfg,
                        failed, base>>
        BY <2>1, <2>2, <3>4
      <4> QED BY <3>1, <3>2, <4>1 DEF Stage, Unchanged, Asked, InHand, Taken, Restored
    <3> QED BY <3>2, <3>3, <3>4
  <2> QED BY <2>3, <2>4, <2>5 DEF CalmInv
<1>2. ASSUME NEW x \in Addrs, TakePort(x) \/ FreePort(x)
      PROVE  CalmInv' /\ UNCHANGED Observed
  <2>1. /\ UNCHANGED <<disk, current, proxy, admin, touched, editing, mu, pc, locals, base>>
        /\ mu \in Requests => held' \subseteq held
        /\ admin' \notin held'
    BY <1>0, <1>2 DEF TakePort, FreePort, store, memory, Known, CalmInv
  <2>2. UNCHANGED Observed
    BY <2>1 DEF Observed, State
  <2>3. Dormant' /\ Starting' /\ Resting' /\ Reloading'
    BY <2>1
       DEF Known, CalmInv, Dormant, Asleep, Starting, Resting, Agree, Reloading, locals
  <2>4. Transaction'
    <3>1. mu \in Requests => Reserved(base.disk)'
      BY <2>1 DEF Known, CalmInv, Transaction, Reserved
    <3>2. mu \in Requests => Stage(mu, base.disk)'
      BY <2>1
         DEF Known, CalmInv, Transaction, Stage, Unchanged, Asked, InHand, Taken,
             Restored, locals
    <3> QED BY <2>1, <3>1, <3>2 DEF Known, CalmInv, Transaction
  <2> QED BY <2>1, <2>2, <2>3, <2>4 DEF Known, CalmInv
<1>3. ~Shutdown /\ ~Kill /\ ~SecondStart /\ ~EditClose
  BY DEF Shutdown, Kill, Restart, SecondStart, EditClose, Known, CalmInv
<1>4. \A c \in Edits : ~EditRename(c) /\ ~EditOpen(c)
  BY DEF EditRename, EditOpen
<1> QED BY <1>1, <1>2, <1>3, <1>4 DEF Environment

-----------------------------------------------------------------------------
(* The refinement.                                                         *)

LEMMA CalmInit == Init => CalmInv /\ Store!Init
<1> SUFFICES ASSUME Init PROVE CalmInv /\ Store!Init
  OBVIOUS
<1>1. /\ Main \in Actors /\ Watcher \in Actors /\ Main # Watcher
      /\ \A r \in Requests : r \in Actors /\ r # Main /\ r # Watcher
      /\ None \notin Requests
  BY ActorsDiffer, MarkersAssumption DEF Actors
<1>2. pc[Main] = "setup" /\ pc[Watcher] = "off" /\ \A r \in Requests : pc[r] = "idle"
  BY <1>1 DEF Init
<1>3. disk \in Configs /\ base = Store!Stopped(disk) /\ admin = NoAddr /\ mu = None
  BY ConstantsAssumption DEF Init, State, Store!Stopped
<1>4. Dormant /\ Starting /\ Resting /\ Reloading /\ Transaction
  BY <1>1, <1>2, <1>3
     DEF Init, Dormant, Asleep, Starting, Resting, Reloading, Transaction
<1>5. Store!Init
  BY <1>2, <1>3 DEF Init, Observed, Store!Init
<1> QED BY <1>3, <1>4, <1>5, MarkersAssumption DEF Init, CalmInv

LEMMA CalmStep ==
  Faults = {} /\ Known /\ [Next]_vars => CalmInv' /\ [Store!Next]_Observed
<1> SUFFICES ASSUME Faults = {}, Known, [Next]_vars
             PROVE  CalmInv' /\ [Store!Next]_Observed
  OBVIOUS
<1>1. ASSUME NEW r \in Requests, Handler(r) PROVE CalmInv' /\ [Store!Next]_Observed
  BY <1>1, HandlerCalm
<1>2. CASE Reloader
  BY <1>2, ReloaderCalm
<1>3. CASE Starter
  BY <1>3, StarterCalm
<1>4. CASE Environment
  BY <1>4, EnvironmentCalm
<1>5. CASE UNCHANGED vars
  <2>1. UNCHANGED Observed
    BY <1>5 DEF vars, Observed, State
  <2>2. CalmInv'
    BY <1>5
       DEF Known, CalmInv, vars, Dormant, Asleep, Starting, Resting, Agree, Reloading,
           Transaction, Reserved, Stage, Unchanged, Asked, InHand, Taken, Restored
  <2> QED BY <2>1, <2>2
<1> QED BY <1>1, <1>2, <1>3, <1>4, <1>5 DEF Next

\* DESIGN.md 7.4, the transactional path: as long as nothing fails, file, memory
\* and both listeners are one value to everybody who looks between two
\* transactions, and saves and imports replace it one after the other.
THEOREM Transactions == Faults = {} => (Spec => Transactional)
<1> SUFFICES ASSUME Faults = {} PROVE Spec => Transactional
  OBVIOUS
<1>1. Spec => []Typed
  BY TypedInit, TypedStep, PTL DEF Spec
<1>2. Known /\ [Next]_vars => CalmInv' /\ [Store!Next]_Observed
  BY CalmStep
<1>3. Typed /\ Exclusive /\ ProxyNeverDark /\ CalmInv => Known
  BY DEF Known
<1> QED
  BY <1>1, <1>2, <1>3, MutualExclusion, NeverDark, CalmInit, PTL
     DEF Spec, Transactional, Store!Spec

=============================================================================
