------------------------------ MODULE Connections ------------------------------
(***************************************************************************)
(* The table of connections and the counters of stats.go: goroutines that  *)
(* register, count and unregister, a panel request that replaces the       *)
(* configuration and cuts every connection, and the snapshots the panel    *)
(* shows.  No lock covers more than one of the structures, so every step   *)
(* between two of them is a state others see.                              *)
(*                                                                         *)
(* One direction of traffic stands for both.  Each connection runs once.   *)
(***************************************************************************)
EXTENDS Naturals, Sequences, SequencesExt, FiniteSetsExt

CONSTANTS
  Conns,     \* connections, one handler goroutine and one copier each
  Hosts,
  HostOf,    \* the target host of each connection
  Reading,   \* the connections whose server goes on reading what it is sent
  ClosedMax, \* closedMax, the length of the ring of closed connections
  FeedN,     \* closedFeedN, how many of them a snapshot shows
  MaxGen,    \* configurations, the first one included
  MaxBytes   \* times a connection counts bytes

ASSUME ConstantsAssumption ==
  /\ IsFiniteSet(Conns) /\ HostOf \in [Conns -> Hosts]
  /\ Reading \subseteq Conns
  /\ ClosedMax \in Nat \ {0} /\ FeedN \in 0 .. ClosedMax
  /\ MaxGen \in Nat \ {0} /\ MaxBytes \in Nat

VARIABLES
  gen,       \* which configuration is active
  pc,        \* the handler of each connection
  cfg,       \* the configuration it has loaded
  conns,     \* the table
  totalConn, totalUp,
  domains,   \* host -> aggregate, for the hosts that have one
  up,        \* ConnMeta.up
  cp,        \* the copier of each connection, between its three counters
  closed,    \* the ring, oldest first
  log,       \* history: every record ever put in the ring
  killed,    \* connections of the table whose client socket the panel has closed
  req,       \* the panel request: "idle", "copy", "close"
  targets,   \* the connections it still has to close
  hub,       \* the snapshot being taken: "active" or "closed" comes next
  active,    \* its list of active connections
  shown      \* history: connections that some snapshot has shown as closed

ring == <<closed, log>>
handlers == <<pc, cfg, conns, totalConn, ring>>
counters == <<totalUp, up, cp>>
request == <<gen, req, targets>>
panel == <<request, killed>>
feed == <<hub, active, shown>>
vars == <<handlers, counters, domains, panel, feed>>

NoEntry == [conns |-> 0, up |-> 0]

Init ==
  /\ gen = 1
  /\ pc = [c \in Conns |-> "accepted"]
  /\ cfg = [c \in Conns |-> 0]
  /\ conns = {}
  /\ totalConn = 0
  /\ totalUp = 0
  /\ domains = [h \in {} |-> NoEntry]
  /\ up = [c \in Conns |-> 0]
  /\ cp = [c \in Conns |-> "off"]
  /\ closed = <<>>
  /\ log = <<>>
  /\ killed = {}
  /\ req = "idle"
  /\ targets = {}
  /\ hub = "active"
  /\ active = {}
  /\ shown = {}

Goto(c, l) == pc' = [pc EXCEPT ![c] = l]

-----------------------------------------------------------------------------
(* A connection until its tunnel starts.                                   *)

\* serveHTTP and serveSocks5 load the configuration once, before they read the
\* request.
LoadConfig(c) ==
  /\ pc[c] = "accepted"
  /\ cfg' = [cfg EXCEPT ![c] = gen]
  /\ Goto(c, "dial")
  /\ UNCHANGED <<conns, totalConn, ring, counters, domains, panel, feed>>

\* Up to ten seconds, or fifteen, pass here; a failure or REJECT is not
\* registered.
Dial(c) ==
  /\ pc[c] = "dial"
  /\ Goto(c, "insert") \/ Goto(c, "gone")
  /\ UNCHANGED <<cfg, conns, totalConn, ring, counters, domains, panel, feed>>

\* register: the table, the total, the aggregates.
Insert(c) ==
  /\ pc[c] = "insert"
  /\ conns' = conns \cup {c}
  /\ Goto(c, "total")
  /\ UNCHANGED <<cfg, totalConn, ring, counters, domains, panel, feed>>

CountConn(c) ==
  /\ pc[c] = "total"
  /\ totalConn' = totalConn + 1
  /\ Goto(c, "aggregate")
  /\ UNCHANGED <<cfg, conns, ring, counters, domains, panel, feed>>

\* Wrong variant of Entry: a new entry for every connection.
FreshEntry(h) == NoEntry
Entry(h) == IF h \in DOMAIN domains THEN domains[h] ELSE NoEntry

Aggregate(c) ==
  /\ pc[c] = "aggregate"
  /\ LET h == HostOf[c] IN
       domains' = [x \in DOMAIN domains \cup {h} |->
                     IF x = h THEN [Entry(h) EXCEPT !.conns = @ + 1] ELSE domains[x]]
  /\ cp' = [cp EXCEPT ![c] = "run"]
  /\ Goto(c, "live")
  /\ UNCHANGED <<cfg, conns, totalConn, ring, totalUp, up, panel, feed>>

-----------------------------------------------------------------------------
(* addUp, called by the copiers: the connection, the total, the aggregate.  *)

\* countingConn.Read: a copier reads until the handler has closed the sockets,
\* and counts what it has read even if they are closed meanwhile.
Read(c) ==
  /\ cp[c] = "run"
  /\ pc[c] # "gone"
  /\ cp' = [cp EXCEPT ![c] = "read"]
  /\ UNCHANGED <<handlers, totalUp, up, domains, panel, feed>>

CountMeta(c) ==
  /\ cp[c] = "read"
  /\ up[c] < MaxBytes
  /\ up' = [up EXCEPT ![c] = @ + 1]
  /\ cp' = [cp EXCEPT ![c] = "total"]
  /\ UNCHANGED <<handlers, totalUp, domains, panel, feed>>

CountTotal(c) ==
  /\ cp[c] = "total"
  /\ totalUp' = totalUp + 1
  /\ cp' = [cp EXCEPT ![c] = "domain"]
  /\ UNCHANGED <<handlers, up, domains, panel, feed>>

\* Bytes of a host that has no aggregate are not counted.
CountDomain(c) ==
  /\ cp[c] = "domain"
  /\ domains' = [h \in DOMAIN domains |->
                   IF h = HostOf[c] THEN [domains[h] EXCEPT !.up = @ + 1] ELSE domains[h]]
  /\ cp' = [cp EXCEPT ![c] = "run"]
  /\ UNCHANGED <<handlers, totalUp, up, panel, feed>>

-----------------------------------------------------------------------------
(* unregister: the table, the ring, the event.  A peer has closed, or the   *)
(* panel has; the copiers may still be counting.                            *)

\* Wrong variant of Delete: the connection stays in the table.
DeleteForgotten(c) ==
  /\ pc[c] = "live"
  /\ Goto(c, "append")
  /\ UNCHANGED <<cfg, conns, totalConn, ring, counters, domains, panel, feed>>

Delete(c) ==
  /\ pc[c] = "live"
  /\ conns' = conns \ {c}
  /\ killed' = killed \ {c}
  /\ Goto(c, "append")
  /\ UNCHANGED <<cfg, totalConn, ring, counters, domains, request, feed>>

\* The ring keeps the newest records.  Wrong variant: the oldest.
TrimNewest(s) == SubSeq(s, 1, Min({Len(s), ClosedMax}))
Trim(s) == IF Len(s) > ClosedMax THEN SubSeq(s, Len(s) - ClosedMax + 1, Len(s)) ELSE s

AppendRecord(c) ==
  /\ pc[c] = "append"
  /\ LET r == [conn |-> c, up |-> up[c]] IN
       /\ closed' = Trim(Append(closed, r))
       /\ log' = Append(log, r)
  /\ Goto(c, "event")
  /\ UNCHANGED <<cfg, conns, totalConn, counters, domains, panel, feed>>

\* eventsEnqueue (module Events); then the sockets are closed and the copiers
\* stop.
Enqueue(c) ==
  /\ pc[c] = "event"
  /\ Goto(c, "gone")
  /\ UNCHANGED <<cfg, conns, totalConn, ring, counters, domains, panel, feed>>

-----------------------------------------------------------------------------
(* The panel: POST .../close, and PUT /api/config with closeConns.         *)

\* closeConn looks the connection up under the lock and closes without it; one
\* that is not in the table is left alone.
CloseConn(c) ==
  /\ c \in conns \ killed
  /\ killed' = killed \cup {c}
  /\ UNCHANGED <<handlers, counters, domains, request, feed>>

\* activateConfig has replaced the configuration.
Activate ==
  /\ req = "idle"
  /\ gen < MaxGen
  /\ gen' = gen + 1
  /\ req' = "copy"
  /\ UNCHANGED <<handlers, counters, domains, killed, targets, feed>>

\* CloseAll copies the table under its lock and closes without it.  Wrong
\* variant of Targets: connections of the active configuration only.
TargetsOfNow == {c \in conns : cfg[c] = gen}
Targets == conns

CopyTable ==
  /\ req = "copy"
  /\ targets' = Targets
  /\ req' = "close"
  /\ UNCHANGED <<handlers, counters, domains, gen, killed, feed>>

\* The order in which they are closed makes no difference to anybody, and the
\* socket of one that has unregistered meanwhile is about to be closed anyway.
CloseTargets ==
  /\ req = "close"
  /\ killed' = killed \cup (targets \cap conns)
  /\ targets' = {}
  /\ req' = "idle"
  /\ UNCHANGED <<handlers, counters, domains, gen, feed>>

-----------------------------------------------------------------------------
(* Stats.Snapshot, taken every second: one structure after the other.       *)

TakeActive ==
  /\ hub = "active"
  /\ active' = conns
  /\ hub' = "closed"
  /\ UNCHANGED <<handlers, counters, domains, panel, shown>>

Recent == LET n == Min({FeedN, Len(closed)})
          IN  {closed[i].conn : i \in Len(closed) - n + 1 .. Len(closed)}

TakeClosed ==
  /\ hub = "closed"
  /\ shown' = shown \cup Recent
  /\ hub' = "active"
  /\ UNCHANGED <<handlers, counters, domains, panel, active>>

-----------------------------------------------------------------------------

Handler(c) ==
  \/ LoadConfig(c) \/ Dial(c)
  \/ Insert(c) \/ CountConn(c) \/ Aggregate(c)
  \/ AppendRecord(c) \/ Enqueue(c)

Copier(c) == Read(c) \/ CountMeta(c) \/ CountTotal(c) \/ CountDomain(c)

Request == Activate \/ CopyTable \/ CloseTargets

Hub == TakeActive \/ TakeClosed

Next ==
  \/ \E c \in Conns : Handler(c) \/ Delete(c) \/ Copier(c) \/ CloseConn(c)
  \/ Request
  \/ Hub

Spec == Init /\ [][Next]_vars

\* Goroutines run; the hub's ticker ticks.  A connection whose client socket is
\* closed ends if its server goes on reading (module Tunnel, ClosingEnds).  With a
\* server that has stopped reading and sends nothing, one copier may stay in its
\* Write and the other in its Read, and the connection in the table for ever.
FairSpec ==
  /\ Spec
  /\ \A c \in Conns : WF_vars(Handler(c)) /\ WF_vars(Copier(c))
  /\ \A c \in Reading : WF_vars(c \in killed /\ Delete(c))
  /\ WF_vars(CopyTable \/ CloseTargets)
  /\ WF_vars(Hub)

-----------------------------------------------------------------------------
(* Properties.                                                             *)

HandlerPC == {"accepted", "dial", "insert", "total", "aggregate", "live",
              "append", "event", "gone"}
Registered(c) == pc[c] \in {"total", "aggregate", "live"}

\* Every variable has its type, the ring its limit, and the table holds the
\* connections between their register and their unregister.
TypeOK ==
  /\ gen \in 1 .. MaxGen
  /\ pc \in [Conns -> HandlerPC]
  /\ cfg \in [Conns -> 0 .. MaxGen]
  /\ conns = {c \in Conns : Registered(c)}
  /\ totalConn \in 0 .. Cardinality(Conns)
  /\ totalUp \in Nat
  /\ DOMAIN domains \subseteq Hosts
  /\ \A h \in DOMAIN domains : domains[h] \in [conns : Nat, up : Nat]
  /\ up \in [Conns -> 0 .. MaxBytes]
  /\ cp \in [Conns -> {"off", "run", "read", "total", "domain"}]
  /\ closed \in Seq([conn : Conns, up : 0 .. MaxBytes]) /\ Len(closed) <= ClosedMax
  /\ killed \subseteq conns
  /\ req \in {"idle", "copy", "close"}
  /\ targets \subseteq Conns
  /\ hub \in {"active", "closed"}
  /\ active \subseteq Conns
  /\ shown \subseteq Conns

\* DESIGN.md 5.2, three levels of counters that are updated one after the
\* other: when nobody is in between they agree, for the traffic and for the
\* number of connections, however registrations, traffic and ends interleave.
Quiet == \A c \in Conns : cp[c] \in {"off", "run", "read"} /\ pc[c] \notin {"total", "aggregate"}
CountersAgree ==
  Quiet =>
    /\ totalUp = SumFunction(up)
    /\ totalUp = SumFunction([h \in DOMAIN domains |-> domains[h].up])
    /\ totalConn = Cardinality(conns) + Len(log)
                     + Cardinality({c \in Conns : pc[c] = "append"})
    /\ totalConn = SumFunction([h \in DOMAIN domains |-> domains[h].conns])

\* A connection is recorded once, and a newer record never gives way to an
\* older one.
RingIsNewest ==
  /\ IsInjective([i \in DOMAIN log |-> log[i].conn])
  /\ IsSuffix(closed, log)
  /\ Len(closed) = Min({Len(log), ClosedMax})

\* Snapshots are taken in pieces, yet a connection that one of them has shown
\* as closed is never active in a later one.
NoResurrection == hub = "closed" => active \cap shown = {}

\* README.md:28, closeConns: the request is answered, whatever the connections
\* do, and of those the table held when the new configuration was activated, each
\* whose server goes on reading is gone through unregister, closed by the panel or
\* by itself.  stats.go:306 says so of all connections: it is not true of one
\* whose server has stopped reading and sends nothing.
CutConnectionsEnd ==
  /\ req = "copy" ~> req = "idle"
  /\ \A c \in Reading : (req = "copy" /\ c \in conns) ~> pc[c] = "gone"

\* README.md:28, "after a change, cut every connection so that the new rules
\* cover the existing traffic at once": no connection that chose its way by an
\* older configuration lives on once the request is answered.
OldRulesAreCut ==
  req = "idle" => \A c \in Conns : pc[c] = "live" /\ cfg[c] < gen => c \in killed

=============================================================================
