-------------------------------- MODULE Tunnel --------------------------------
(***************************************************************************)
(* One connection through the proxy, from the accepted socket to the last  *)
(* Close: handshake, verdict, dial, answer, replay of what the handshake   *)
(* read too much, the two copiers, and the teardown.  The client, the      *)
(* other side (the target or an upstream proxy) and the panel's "close     *)
(* connection" are the environment.                                        *)
(*                                                                         *)
(* Bytes are numbered chunks, 1, 2, ... in each direction; chunk 0 is the  *)
(* proxy's own: its answer to the client, or the request head it rewrites. *)
(***************************************************************************)
EXTENDS Naturals, Sequences, SequencesExt

CONSTANTS
  Modes,      \* inbound protocols: "connect", "plain" (HTTP), "socks"
  Routes,     \* how the proxy dials: "direct", "socks5", "http"
  MaxUp, MaxDown,  \* chunks the client, the other side sends
  Window      \* chunks a socket takes before a Write blocks

ASSUME ConstantsAssumption ==
  /\ Modes \subseteq {"connect", "plain", "socks"}
  /\ Routes \subseteq {"direct", "socks5", "http"}
  /\ MaxUp \in Nat /\ MaxDown \in Nat
  /\ Window \in Nat \ {0}

Dir == {"up", "down"}
MaxChunks(d) == IF d = "up" THEN MaxUp ELSE MaxDown
Side == {"client", "server"}
Src(d) == IF d = "up" THEN "client" ELSE "server"
Dst(d) == IF d = "up" THEN "server" ELSE "client"

VARIABLES
  mode, route,
  pc,       \* the goroutine of handleConn
  early,    \* chunks in the handshake's bufio.Reader that still have to be replayed
  deadline, \* the dialled socket has a deadline
  live,     \* the connection is in the table of stats
  cut,      \* the panel has closed it
  closed,   \* the proxy has closed its socket to a side
  peer,     \* a side's own socket: "none", "open", "closed", "reset"
  sent,     \* chunks the source of a direction has sent
  fin,      \* the source sends no more
  taken,    \* chunks the proxy has read
  out,      \* what the proxy has written, in order
  read,     \* how much of `out` the destination has read
  cp,       \* where each copier is
  end,      \* how it ended: "none", "eof", "error"
  count,    \* ConnMeta.up and ConnMeta.down
  record    \* the counters of the closed-connection record

fixed == <<mode, route>>
socket == <<deadline, closed>>
panel == <<live, cut>>
network == <<peer, sent, fin, read>>
flow == <<taken, out>>
copiers == <<cp, end>>
tally == <<count, record>>
vars == <<mode, route, pc, early, deadline, live, cut, closed, peer, sent, fin,
          taken, out, read, cp, end, count, record>>

Zero == [d \in Dir |-> 0]

Init ==
  /\ mode \in Modes
  /\ route \in Routes
  /\ pc = "handshake"
  /\ early = 0
  /\ deadline = FALSE
  /\ live = FALSE
  /\ cut = FALSE
  /\ closed = [s \in Side |-> FALSE]
  /\ peer = [s \in Side |-> IF s = "client" THEN "open" ELSE "none"]
  /\ sent = Zero
  /\ fin = [d \in Dir |-> FALSE]
  /\ taken = Zero
  /\ out = [d \in Dir |-> <<>>]
  /\ read = Zero
  /\ cp = [d \in Dir |-> "off"]
  /\ end = [d \in Dir |-> "none"]
  /\ count = Zero
  /\ record = Zero

-----------------------------------------------------------------------------
(* Sockets.                                                                *)

Pending(d) == sent[d] - taken[d]
Broken(s) == closed[s] \/ peer[s] = "reset" \/ (s = "server" /\ deadline)
Room(d) == Len(out[d]) - read[d] < Window

Deliver(d, chunk) == out' = [out EXCEPT ![d] = Append(@, chunk)]
Counted(d) == count' = [count EXCEPT ![d] = @ + 1]

\* A Write whose error the code ignores.
Offer(d, chunk) == IF Broken(Dst(d)) THEN UNCHANGED out ELSE Deliver(d, chunk)

-----------------------------------------------------------------------------
(* handleConn, serveHTTP, serveSocks5: until the tunnel stands.            *)

\* The head has arrived whole; the bufio.Reader may hold chunks that came with
\* it.  matchAction decides whether to dial or to refuse; a head that makes no
\* sense is answered with a close.
Handshake ==
  /\ pc = "handshake"
  /\ peer["client"] # "reset"
  /\ \E k \in 0 .. Pending("up") :
       /\ early' = k
       /\ taken' = [taken EXCEPT !["up"] = k]
  /\ pc' \in {"dial", "refuse", "close_client"}
  /\ UNCHANGED <<fixed, socket, panel, network, out, copiers, tally>>

\* The client goes away before its head is complete.
HandshakeFails ==
  /\ pc = "handshake"
  /\ fin["up"]
  /\ pc' = "close_client"
  /\ UNCHANGED <<fixed, early, socket, panel, network, flow, copiers, tally>>

\* 403, 502 or a SOCKS error: REJECT, or a dial that failed.
Refuse ==
  /\ pc = "refuse"
  /\ Offer("down", 0)
  /\ pc' = "close_client"
  /\ UNCHANGED <<fixed, early, socket, panel, network, taken, copiers, tally>>

\* dialDirect, and the SOCKS5 dialer, which reads no more than its answers.
\* dialHTTPUpstream sets a deadline before it sends CONNECT.
Dial ==
  /\ pc = "dial"
  /\ peer' = [peer EXCEPT !["server"] = "open"]
  /\ IF route = "http"
     THEN pc' = "await" /\ deadline' = TRUE
     ELSE pc' = "answer" /\ UNCHANGED deadline
  /\ UNCHANGED <<fixed, early, closed, panel, sent, fin, read, flow,
                 copiers, tally>>

DialFails ==
  /\ pc = "dial"
  /\ pc' = "refuse"
  /\ UNCHANGED <<fixed, early, socket, panel, network, flow, copiers, tally>>

\* Wrong variant of UpstreamAnswers: the deadline is not taken back.
UpstreamAnswersLate ==
  /\ pc = "await"
  /\ pc' = "answer"
  /\ UNCHANGED <<fixed, early, socket, panel, network, flow, copiers, tally>>

\* The upstream's 200 is read through a bufio.Reader of its own, which the
\* function drops with whatever chunks it holds beyond the blank line.
UpstreamAnswers ==
  /\ pc = "await"
  /\ peer["server"] # "reset"
  /\ \E k \in 0 .. Pending("down") : taken' = [taken EXCEPT !["down"] = k]
  /\ deadline' = FALSE
  /\ pc' = "answer"
  /\ UNCHANGED <<fixed, early, closed, panel, network, out, copiers, tally>>

\* Another status, an early end, or 15 seconds without an answer.
UpstreamFails ==
  /\ pc = "await"
  /\ closed' = [closed EXCEPT !["server"] = TRUE]
  /\ pc' = "refuse"
  /\ UNCHANGED <<fixed, early, deadline, panel, network, flow, copiers, tally>>

\* CONNECT and SOCKS5 tell the client that the way is open; a plain request's
\* head, read by the handshake, is rewritten and sent on.
Answer ==
  /\ pc = "answer"
  /\ IF mode = "plain" THEN Offer("up", 0) ELSE Offer("down", 0)
  /\ pc' = "register"
  /\ UNCHANGED <<fixed, early, socket, panel, network, taken, copiers, tally>>

\* stats.register; a rewritten head is counted by hand.
Register ==
  /\ pc = "register"
  /\ live' = TRUE
  /\ IF mode = "plain" THEN Counted("up") ELSE UNCHANGED count
  /\ pc' = "replay"
  /\ UNCHANGED <<fixed, early, socket, cut, network, flow, copiers, record>>

-----------------------------------------------------------------------------
(* tunnel().                                                               *)

\* What the handshake's reader holds is written first; an error is ignored.
Replay ==
  /\ pc = "replay"
  /\ early > 0
  /\ \/ /\ Broken("server")
        /\ early' = 0
        /\ UNCHANGED <<out, count>>
     \/ /\ ~Broken("server")
        /\ Room("up")
        /\ Deliver("up", taken["up"] - early + 1)
        /\ Counted("up")
        /\ early' = early - 1
  /\ UNCHANGED <<fixed, pc, socket, panel, network, taken, copiers, record>>

\* Wrong variant of Replayed: nothing has been replayed.
ReplayForgotten == TRUE
Replayed == early = 0

StartCopiers ==
  /\ pc = "replay"
  /\ Replayed
  /\ cp' = [d \in Dir |-> "read"]
  /\ pc' = "wait"
  /\ UNCHANGED <<fixed, early, socket, panel, network, flow, end, tally>>

\* <-done.  Wrong variant: it waits for both copiers.
BothDone == \A d \in Dir : cp[d] = "done"
SomeoneDone == \E d \in Dir : cp[d] = "done"

Wait ==
  /\ pc = "wait"
  /\ SomeoneDone
  /\ pc' = "unregister"
  /\ UNCHANGED <<fixed, early, socket, panel, network, flow, copiers, tally>>

\* The deferred calls, last one first: stats.unregister, server.Close,
\* client.Close.
Unregister ==
  /\ pc = "unregister"
  /\ live' = FALSE
  /\ record' = count
  /\ pc' = "close_server"
  /\ UNCHANGED <<fixed, early, socket, cut, network, flow, copiers, count>>

\* Wrong variant of CloseServer: the server's socket is forgotten.
ServerForgotten ==
  /\ pc = "close_server"
  /\ pc' = "close_client"
  /\ UNCHANGED <<fixed, early, socket, panel, network, flow, copiers, tally>>

CloseServer ==
  /\ pc = "close_server"
  /\ closed' = [closed EXCEPT !["server"] = TRUE]
  /\ pc' = "close_client"
  /\ UNCHANGED <<fixed, early, deadline, panel, network, flow, copiers, tally>>

CloseClient ==
  /\ pc = "close_client"
  /\ closed' = [closed EXCEPT !["client"] = TRUE]
  /\ pc' = "gone"
  /\ UNCHANGED <<fixed, early, deadline, panel, network, flow, copiers, tally>>

-----------------------------------------------------------------------------
(* io.Copy through two countingConns: read, count, write, count.           *)

Finish(d, how) ==
  /\ cp' = [cp EXCEPT ![d] = "done"]
  /\ end' = [end EXCEPT ![d] = how]

\* Wrong variant of Read: an empty read counts as a chunk.
ReadNothing(d) ==
  /\ cp[d] = "read"
  /\ ~Broken(Src(d))
  /\ taken' = [taken EXCEPT ![d] = @ + 1]
  /\ cp' = [cp EXCEPT ![d] = "count_read"]
  /\ UNCHANGED <<fixed, pc, early, socket, panel, network, out, end, tally>>

Read(d) ==
  /\ cp[d] = "read"
  /\ ~Broken(Src(d))
  /\ Pending(d) > 0
  /\ taken' = [taken EXCEPT ![d] = @ + 1]
  /\ cp' = [cp EXCEPT ![d] = "count_read"]
  /\ UNCHANGED <<fixed, pc, early, socket, panel, network, out, end, tally>>

\* The end of the stream comes after its last chunk.
AtEof(d) == fin[d] /\ Pending(d) = 0

\* Wrong variant of ReadEnds: bytes that come together with io.EOF are dropped.
ReadDropsTail(d) ==
  /\ cp[d] = "read"
  /\ \/ Broken(Src(d)) /\ Finish(d, "error")
     \/ ~Broken(Src(d)) /\ fin[d] /\ Finish(d, "eof")
  /\ UNCHANGED <<fixed, pc, early, socket, panel, network, flow, tally>>

ReadEnds(d) ==
  /\ cp[d] = "read"
  /\ \/ Broken(Src(d)) /\ Finish(d, "error")
     \/ ~Broken(Src(d)) /\ AtEof(d) /\ Finish(d, "eof")
  /\ UNCHANGED <<fixed, pc, early, socket, panel, network, flow, tally>>

CountRead(d) ==
  /\ cp[d] = "count_read"
  /\ Counted(d)
  /\ cp' = [cp EXCEPT ![d] = "write"]
  /\ UNCHANGED <<fixed, pc, early, socket, panel, network, flow, end, record>>

\* Blocks while the destination does not read.
Write(d) ==
  /\ cp[d] = "write"
  /\ ~Broken(Dst(d))
  /\ Room(d)
  /\ Deliver(d, taken[d])
  /\ cp' = [cp EXCEPT ![d] = "count_write"]
  /\ UNCHANGED <<fixed, pc, early, socket, panel, network, taken, end, tally>>

WriteFails(d) ==
  /\ cp[d] = "write"
  /\ Broken(Dst(d))
  /\ Finish(d, "error")
  /\ UNCHANGED <<fixed, pc, early, socket, panel, network, flow, tally>>

CountWrite(d) ==
  /\ cp[d] = "count_write"
  /\ Counted(d)
  /\ cp' = [cp EXCEPT ![d] = "read"]
  /\ UNCHANGED <<fixed, pc, early, socket, panel, network, flow, end, record>>

-----------------------------------------------------------------------------
(* The peers and the panel.                                                *)

proxy == <<fixed, pc, early, socket, panel, flow, copiers, tally>>

Send(d) ==
  /\ peer[Src(d)] = "open"
  /\ ~closed[Src(d)]
  /\ ~fin[d]
  /\ sent[d] < MaxChunks(d)
  /\ sent' = [sent EXCEPT ![d] = @ + 1]
  /\ UNCHANGED <<proxy, peer, fin, read>>

\* shutdown(SHUT_WR): sends no more, still reads.
HalfClose(d) ==
  /\ peer[Src(d)] = "open"
  /\ ~fin[d]
  /\ fin' = [fin EXCEPT ![d] = TRUE]
  /\ UNCHANGED <<proxy, peer, sent, read>>

\* close(): sends no more, reads no more; what still arrives is answered with
\* a reset.
Close(s) ==
  /\ peer[s] = "open"
  /\ peer' = [peer EXCEPT ![s] = "closed"]
  /\ fin' = [d \in Dir |-> fin[d] \/ Src(d) = s]
  /\ UNCHANGED <<proxy, sent, read>>

Reset(s) ==
  /\ peer[s] = "closed"
  /\ peer' = [peer EXCEPT ![s] = "reset"]
  /\ UNCHANGED <<proxy, sent, fin, read>>

Receive(d) ==
  /\ peer[Dst(d)] = "open"
  /\ read[d] < Len(out[d])
  /\ read' = [read EXCEPT ![d] = @ + 1]
  /\ UNCHANGED <<proxy, peer, sent, fin>>

\* closeConn and CloseAll close the client's socket of a registered connection.
PanelClose ==
  /\ live
  /\ ~closed["client"]
  /\ closed' = [closed EXCEPT !["client"] = TRUE]
  /\ cut' = TRUE
  /\ UNCHANGED <<fixed, pc, early, deadline, live, network, flow, copiers,
                 tally>>

-----------------------------------------------------------------------------

Handler ==
  \/ HandshakeFails \/ Refuse \/ Dial \/ DialFails
  \/ UpstreamAnswers \/ UpstreamFails \/ Answer \/ Register
  \/ Replay \/ StartCopiers \/ Wait \/ Unregister \/ CloseServer \/ CloseClient

Copier(d) ==
  \/ Read(d) \/ ReadEnds(d) \/ CountRead(d)
  \/ Write(d) \/ WriteFails(d) \/ CountWrite(d)

Peer ==
  \/ \E d \in Dir : Send(d) \/ HalfClose(d) \/ Receive(d)
  \/ \E s \in Side : Close(s) \/ Reset(s)

Next ==
  \/ Handshake
  \/ Handler
  \/ \E d \in Dir : Copier(d)
  \/ Peer
  \/ PanelClose

Spec == Init /\ [][Next]_vars

\* The scheduler runs every goroutine that can run.
ProxyFairness == WF_vars(Handler) /\ \A d \in Dir : WF_vars(Copier(d))

\* Peers read what they are sent, and the kernel of one that has closed
\* answers late data with a reset.
PeerFairness ==
  /\ \A d \in Dir : WF_vars(Receive(d))
  /\ \A s \in Side : WF_vars(Reset(s))

FairSpec == Spec /\ ProxyFairness /\ PeerFairness

-----------------------------------------------------------------------------
(* Properties.                                                             *)

HandlerPC == {"handshake", "dial", "await", "refuse", "answer", "register",
              "replay", "wait", "unregister", "close_server", "close_client", "gone"}
CopierPC == {"off", "read", "count_read", "write", "count_write", "done"}

\* Every variable has its type; nobody reads what was not sent.
TypeOK ==
  /\ mode \in Modes
  /\ route \in Routes
  /\ pc \in HandlerPC
  /\ early \in 0 .. MaxUp
  /\ {deadline, live, cut} \subseteq BOOLEAN
  /\ closed \in [Side -> BOOLEAN]
  /\ peer \in [Side -> {"none", "open", "closed", "reset"}]
  /\ sent \in [Dir -> Nat]
  /\ fin \in [Dir -> BOOLEAN]
  /\ taken \in [Dir -> Nat]
  /\ \A d \in Dir : taken[d] <= sent[d] /\ sent[d] <= MaxChunks(d)
  /\ out \in [Dir -> Seq(Nat)]
  /\ read \in [Dir -> Nat]
  /\ \A d \in Dir : read[d] <= Len(out[d])
  /\ cp \in [Dir -> CopierPC]
  /\ end \in [Dir -> {"none", "eof", "error"}]
  /\ count \in [Dir -> Nat]
  /\ record \in [Dir -> Nat]

\* What a direction carries: the proxy's own chunk if there is one (the answer
\* to the client, the head of a plain request), then all the source has sent.
OwnChunk(d) ==
  IF d = "up" THEN mode = "plain" ELSE mode # "plain" \/ cp["down"] = "off"
Promise(d) == (IF OwnChunk(d) THEN <<0>> ELSE <<>>) \o [i \in 1 .. sent[d] |-> i]

\* dialHTTPUpstream drops what it has read too much (see UpstreamKeepsBytes).
Transparent(d) == d = "up" \/ route # "http"

\* README.md, "a pure tunnel that does not touch the traffic": whatever was read
\* with the handshake, whoever closes and whenever, what has been written to a
\* side is what the other side has sent, from the start, in order and once.
InOrder == \A d \in Dir : Transparent(d) => IsPrefix(out[d], Promise(d))

\* A direction that ends with its source's end of stream has carried all of it
\* to the other socket, unless that one was reset.
EofMeansDelivered ==
  \A d \in Dir :
    Transparent(d) /\ end[d] = "eof" /\ peer[Dst(d)] # "reset" /\ ~closed[Dst(d)]
      => out[d] = Promise(d)

\* DESIGN.md 4.5, "deadlines are for the handshake and do not reach the data
\* plane": a tunnel ends only after a side has ended its stream, or the panel
\* has closed it; never by itself, however long it is idle.
IdleTunnelSurvives ==
  (\E d \in Dir : cp[d] = "done") => fin["up"] \/ fin["down"] \/ cut

\* No goroutine outlives its connection: once the handler has gone both
\* copiers end, whatever they were blocked in and whatever the peers do.
CopiersEnd == pc = "gone" ~> \A d \in Dir : cp[d] \in {"off", "done"}

\* With peers that read what they are sent, a connection that a side has
\* ended, or that the panel has closed, is gone before long.
ClosingEnds == (fin["up"] \/ cut \/ (fin["down"] /\ pc = "wait")) ~> (pc = "gone")

\* DESIGN.md 4.5, "... may buffer bytes too many, the replay at the start of
\* tunnel() loses no data": also on the way down, through an HTTP upstream.
UpstreamKeepsBytes == IsPrefix(out["down"], Promise("down"))

\* DESIGN.md 3, "the counts are exact by nature, they are the bytes on the very
\* net.Conn": the record of a connection whose two streams were carried to their
\* ends counts every chunk once, and the rewritten head.
CarriedToTheEnd == pc = "gone" /\ \A d \in Dir : end[d] = "eof"
CountsExact ==
  CarriedToTheEnd =>
    /\ record["up"] = Len(out["up"])
    /\ record["down"] = sent["down"]

=============================================================================
