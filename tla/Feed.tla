--------------------------------- MODULE Feed ---------------------------------
(***************************************************************************)
(* The live feed of the panel: the hub of admin.go, which sends one frame  *)
(* a second to every WebSocket client, the writer and the reader goroutine *)
(* of each client, and the browser pages of web/src/composables/useWs.ts,  *)
(* which connect, show the newest frame and connect again.                 *)
(*                                                                         *)
(* A frame is the number of its tick.  A page uses a new socket for every  *)
(* attempt.  Browsers may stop reading, and go away.                       *)
(***************************************************************************)
EXTENDS Naturals, Sequences, SequencesExt, FiniteSetsExt

CONSTANTS
  Pages,   \* open pages of the panel
  Socks,   \* WebSocket connections, each used at most once
  SendCap, \* frames in a client's channel (4)
  Window,  \* frames a socket takes before a Write blocks
  MaxTick,
  NoSock, NoOne, Hub

ASSUME ConstantsAssumption ==
  /\ SendCap \in Nat \ {0} /\ Window \in Nat \ {0} /\ MaxTick \in Nat
  /\ NoSock \notin Socks
  /\ NoOne # Hub

VARIABLES
  mu,      \* who holds hub.mu between two steps: the hub or no one
  frame,   \* the newest frame
  todo,    \* clients the hub has still to visit in this tick
  clients, \* hub.clients
  send,    \* the channel of each client
  hand,    \* the frame the writer has taken from it: a sequence of at most one
  writer,  \* writeLoop: "off", "select", "write", "drop", "stopped"
  reader,  \* readLoop: "off", "read", "drop", "stopped"
  closes,  \* how often `done` has been closed
  server,  \* the server's side of the socket: "none", "accepted", "open", "closed"
  wire,    \* frames on their way to the page
  sock,    \* the page's socket, if it is connected
  snap     \* wsState.snap, the frame the page shows; 0 is none

hubvars == <<mu, frame, todo>>
goroutines == <<hand, writer, reader>>
net == <<server, wire>>
browser == <<sock, snap>>
vars == <<hubvars, clients, send, goroutines, closes, net, browser>>

Init ==
  /\ mu = NoOne
  /\ frame = 0
  /\ todo = {}
  /\ clients = {}
  /\ send = [s \in Socks |-> <<>>]
  /\ hand = [s \in Socks |-> <<>>]
  /\ writer = [s \in Socks |-> "off"]
  /\ reader = [s \in Socks |-> "off"]
  /\ closes = [s \in Socks |-> 0]
  /\ server = [s \in Socks |-> "none"]
  /\ wire = [s \in Socks |-> <<>>]
  /\ sock = [p \in Pages |-> NoSock]
  /\ snap = [p \in Pages |-> 0]

Attached(s) == \E p \in Pages : sock[p] = s

-----------------------------------------------------------------------------
(* handleWS.                                                               *)

\* connect(): the server upgrades and the page's onopen runs.
Connect(p, s) ==
  /\ sock[p] = NoSock
  /\ server[s] = "none"
  /\ server' = [server EXCEPT ![s] = "accepted"]
  /\ sock' = [sock EXCEPT ![p] = s]
  /\ UNCHANGED <<hubvars, clients, send, goroutines, closes, wire, snap>>

\* The client enters the table.
Add(s) ==
  /\ server[s] = "accepted"
  /\ mu = NoOne
  /\ clients' = clients \cup {s}
  /\ server' = [server EXCEPT ![s] = "open"]
  /\ UNCHANGED <<hubvars, send, goroutines, closes, wire, browser>>

\* Its goroutines start; the hub may have sent to it, or dropped it, before.
Start(s) ==
  /\ server[s] \in {"open", "closed"}
  /\ writer[s] = "off"
  /\ writer' = [writer EXCEPT ![s] = "select"]
  /\ reader' = [reader EXCEPT ![s] = "read"]
  /\ UNCHANGED <<hubvars, clients, send, hand, closes, net, browser>>

-----------------------------------------------------------------------------
(* dropLocked, under hub.mu.  Wrong variant: whoever drops closes.          *)

CloseAgain(s) ==
  /\ clients' = clients \ {s}
  /\ closes' = [closes EXCEPT ![s] = @ + 1]
  /\ server' = [server EXCEPT ![s] = "closed"]
DropLocked(s) ==
  IF s \in clients
  THEN /\ clients' = clients \ {s}
       /\ closes' = [closes EXCEPT ![s] = IF @ = 0 THEN 1 ELSE @]
       /\ server' = [server EXCEPT ![s] = "closed"]
  ELSE UNCHANGED <<clients, closes, server>>

-----------------------------------------------------------------------------
(* wsHub.loop.                                                             *)

\* The snapshot is marshalled first; the lock is kept for the whole round.
Tick ==
  /\ mu = NoOne
  /\ frame < MaxTick
  /\ frame' = frame + 1
  /\ mu' = Hub
  /\ todo' = clients
  /\ UNCHANGED <<clients, send, goroutines, closes, net, browser>>

\* A client whose channel is full is dropped.  Wrong variants: the frame is
\* skipped, the hub waits.
Skip(s) == UNCHANGED <<clients, closes, server>>
HubWaits(s) ==
  /\ mu = Hub
  /\ s \in todo
  /\ Len(send[s]) < SendCap
  /\ send' = [send EXCEPT ![s] = Append(@, frame)]
  /\ todo' = todo \ {s}
  /\ UNCHANGED <<mu, frame, clients, goroutines, closes, net, browser>>
Overrun(s) == DropLocked(s)

Visit(s) ==
  /\ mu = Hub
  /\ s \in todo
  /\ IF Len(send[s]) < SendCap
     THEN /\ send' = [send EXCEPT ![s] = Append(@, frame)]
          /\ UNCHANGED <<clients, closes, server>>
     ELSE Overrun(s) /\ UNCHANGED send
  /\ todo' = todo \ {s}
  /\ UNCHANGED <<mu, frame, goroutines, wire, browser>>

RoundEnds ==
  /\ mu = Hub
  /\ todo = {}
  /\ mu' = NoOne
  /\ UNCHANGED <<frame, todo, clients, send, goroutines, closes, net, browser>>

-----------------------------------------------------------------------------
(* writeLoop and readLoop.                                                 *)

\* select: with a frame waiting and `done` closed either may be chosen.  Wrong
\* variant of SeesDone: `done` is not selected on.
TakeFrame(s) ==
  /\ writer[s] = "select"
  /\ send[s] # <<>>
  /\ hand' = [hand EXCEPT ![s] = <<Head(send[s])>>]
  /\ send' = [send EXCEPT ![s] = Tail(@)]
  /\ writer' = [writer EXCEPT ![s] = "write"]
  /\ UNCHANGED <<hubvars, clients, reader, closes, net, browser>>

DoneForgotten(s) ==
  /\ writer[s] = "select"
  /\ closes[s] > 0
  /\ UNCHANGED vars
SeesDone(s) ==
  /\ writer[s] = "select"
  /\ closes[s] > 0
  /\ writer' = [writer EXCEPT ![s] = "stopped"]
  /\ UNCHANGED <<hubvars, clients, send, hand, reader, closes, net, browser>>

WriteFrame(s) ==
  /\ writer[s] = "write"
  /\ server[s] = "open"
  /\ Len(wire[s]) < Window
  /\ wire' = [wire EXCEPT ![s] = @ \o hand[s]]
  /\ hand' = [hand EXCEPT ![s] = <<>>]
  /\ writer' = [writer EXCEPT ![s] = "select"]
  /\ UNCHANGED <<hubvars, clients, send, reader, closes, server, browser>>

\* The socket is closed, the page is gone, or five seconds have passed while the
\* page does not read.
WriteFails(s) ==
  /\ writer[s] = "write"
  /\ server[s] = "closed" \/ ~Attached(s) \/ Len(wire[s]) = Window
  /\ writer' = [writer EXCEPT ![s] = "drop"]
  /\ hand' = [hand EXCEPT ![s] = <<>>]
  /\ UNCHANGED <<hubvars, clients, send, reader, closes, net, browser>>

WriterDrops(s) ==
  /\ writer[s] = "drop"
  /\ mu = NoOne
  /\ DropLocked(s)
  /\ writer' = [writer EXCEPT ![s] = "stopped"]
  /\ UNCHANGED <<hubvars, send, hand, reader, wire, browser>>

\* The reader only waits for the end of the connection.
ReadEnds(s) ==
  /\ reader[s] = "read"
  /\ server[s] = "closed" \/ ~Attached(s)
  /\ reader' = [reader EXCEPT ![s] = "drop"]
  /\ UNCHANGED <<hubvars, clients, send, hand, writer, closes, net, browser>>

ReaderDrops(s) ==
  /\ reader[s] = "drop"
  /\ mu = NoOne
  /\ DropLocked(s)
  /\ reader' = [reader EXCEPT ![s] = "stopped"]
  /\ UNCHANGED <<hubvars, send, hand, writer, wire, browser>>

-----------------------------------------------------------------------------
(* useWs.ts.                                                               *)

OnMessage(p) ==
  /\ sock[p] # NoSock
  /\ LET s == sock[p] IN
       /\ wire[s] # <<>>
       /\ snap' = [snap EXCEPT ![p] = Head(wire[s])]
       /\ wire' = [wire EXCEPT ![s] = Tail(@)]
  /\ UNCHANGED <<hubvars, clients, send, goroutines, closes, server, sock>>

\* What was sent before the close arrives before it.  The last frame stays on
\* the page; the timer starts.
OnClose(p) ==
  /\ sock[p] # NoSock
  /\ server[sock[p]] = "closed"
  /\ wire[sock[p]] = <<>>
  /\ sock' = [sock EXCEPT ![p] = NoSock]
  /\ UNCHANGED <<hubvars, clients, send, goroutines, closes, net, snap>>

\* The tab is closed, or reloaded: it starts over, and need not connect.  Nobody
\* has told the server yet.
Leave(p) ==
  /\ sock[p] # NoSock
  /\ sock' = [sock EXCEPT ![p] = NoSock]
  /\ snap' = [snap EXCEPT ![p] = 0]
  /\ UNCHANGED <<hubvars, clients, send, goroutines, closes, net>>

-----------------------------------------------------------------------------

HubRound == (\E s \in Socks : Visit(s)) \/ RoundEnds

Writer(s) == TakeFrame(s) \/ SeesDone(s) \/ WriteFrame(s) \/ WriteFails(s) \/ WriterDrops(s)
Reader(s) == ReadEnds(s) \/ ReaderDrops(s)
Locking(s) == Add(s) \/ WriterDrops(s) \/ ReaderDrops(s)

Next ==
  \/ Tick
  \/ HubRound
  \/ \E s \in Socks : Add(s) \/ Start(s) \/ Writer(s) \/ Reader(s)
  \/ \E p \in Pages, s \in Socks : Connect(p, s)
  \/ \E p \in Pages : OnMessage(p) \/ OnClose(p) \/ Leave(p)

Spec == Init /\ [][Next]_vars

\* Goroutines run, and a goroutine that waits for hub.mu gets it in the end: a
\* Go mutex that has starved a waiter for a millisecond is handed over to it.  A
\* page has to do nothing.
FairSpec ==
  /\ Spec
  /\ WF_vars(HubRound)
  /\ \A s \in Socks :
       /\ WF_vars(Start(s))
       /\ WF_vars(Writer(s))
       /\ WF_vars(Reader(s))
       /\ SF_vars(Locking(s))

-----------------------------------------------------------------------------
(* Properties.                                                             *)

\* Every variable has its type; `done` is closed once at most (a second close
\* panics), and always with the client's removal.
TypeOK ==
  /\ mu \in {NoOne, Hub}
  /\ frame \in 0 .. MaxTick
  /\ todo \subseteq Socks /\ (mu = NoOne => todo = {})
  /\ clients \subseteq Socks
  /\ \A s \in Socks :
       /\ send[s] \in Seq(1 .. MaxTick) /\ Len(send[s]) <= SendCap
       /\ hand[s] \in Seq(1 .. MaxTick) /\ Len(hand[s]) <= 1
       /\ wire[s] \in Seq(1 .. MaxTick) /\ Len(wire[s]) <= Window
  /\ writer \in [Socks -> {"off", "select", "write", "drop", "stopped"}]
  /\ reader \in [Socks -> {"off", "read", "drop", "stopped"}]
  /\ server \in [Socks -> {"none", "accepted", "open", "closed"}]
  /\ closes = [s \in Socks |-> IF server[s] = "closed" THEN 1 ELSE 0]
  /\ sock \in [Pages -> Socks \cup {NoSock}]
  /\ \A p, q \in Pages : sock[p] = sock[q] /\ sock[p] # NoSock => p = q
  /\ snap \in [Pages -> 0 .. frame]

\* DESIGN.md:212, a slow consumer is dropped, nothing is piled up for it and
\* nothing is skipped: what is under way to a client whose writer has not failed
\* is a row of consecutive frames up to the newest one sent to it, and all of
\* them are newer than what its page shows, also after a reconnect.
UnderWay(s) == wire[s] \o hand[s] \o send[s]
LastSent(s) == IF s \in todo THEN frame - 1 ELSE frame
NoFrameSkipped ==
  \A s \in {c \in clients : writer[c] # "drop"} :
    LET q == UnderWay(s)
    IN  /\ q = [i \in DOMAIN q |-> LastSent(s) - Len(q) + i]
        /\ \A p \in Pages : sock[p] = s => snap[p] <= LastSent(s) - Len(q)

\* The hub never waits for a page: a round that has begun ends, whoever does
\* not read.
RoundsEnd == mu = Hub ~> mu = NoOne

\* No goroutine and no table entry outlives its page: the client of a page that
\* is gone, and one that was dropped while its writer was blocked in a page that
\* does not read, leaves the table and both its goroutines stop.
GoneClientsLeave ==
  \A s \in Socks :
    (server[s] # "none" /\ (~Attached(s) \/ server[s] = "closed"))
      ~> (s \notin clients /\ writer[s] = "stopped" /\ reader[s] = "stopped")

=============================================================================
