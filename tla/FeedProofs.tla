------------------------------- MODULE FeedProofs ------------------------------
(***************************************************************************)
(* Theorems about Feed for every set of pages and sockets, every length of *)
(* channel and socket: `done` is closed at most once, and a client gets    *)
(* every frame in order or is dropped.                                     *)
(***************************************************************************)
EXTENDS Feed, TLAPS

\* The table holds the clients whose socket the server has open, the hub visits
\* nobody else, and a page's socket has been accepted.
Table ==
  /\ clients = {s \in Socks : server[s] = "open"}
  /\ todo \subseteq clients
  /\ \A p \in Pages : sock[p] # NoSock => server[sock[p]] # "none"

\* The frames of a client: none before it is in the table, none from the future;
\* the writer holds one only while it writes.
Frames ==
  /\ send \in [Socks -> Seq(1 .. frame)]
  /\ hand \in [Socks -> Seq(1 .. frame)]
  /\ wire \in [Socks -> Seq(1 .. frame)]
  /\ \A s \in Socks :
       /\ server[s] \in {"none", "accepted"} =>
            send[s] = <<>> /\ hand[s] = <<>> /\ wire[s] = <<>> /\ writer[s] = "off"
       /\ writer[s] # "write" => hand[s] = <<>>
  /\ mu = Hub => frame # 0

\* What is under way to a client is a row of consecutive frames up to the newest
\* one sent, and its page shows an older one.
Row(q, n) == \A i \in 1 .. Len(q) : q[i] = n - Len(q) + i
Complete(s) ==
  /\ Row(UnderWay(s), LastSent(s))
  /\ \A p \in Pages : sock[p] = s => snap[p] <= LastSent(s) - Len(UnderWay(s))
Rows == \A s \in clients : writer[s] # "drop" => Complete(s)

Inv == TypeOK /\ Table /\ Frames /\ Rows

-----------------------------------------------------------------------------
(* Rows of frames: wire, hand and channel of a client are one queue.       *)

\* What replacing the queue of one client does.
LEMMA Replaced ==
  ASSUME NEW S, NEW Q, NEW f \in [S -> Q], NEW s \in S, NEW v \in Q
  PROVE  /\ [f EXCEPT ![s] = v] \in [S -> Q]
         /\ [f EXCEPT ![s] = v][s] = v
         /\ \A t \in S \ {s} : [f EXCEPT ![s] = v][t] = f[t]
OBVIOUS

LEMMA Wider ==
  ASSUME NEW m \in Nat, NEW n \in Nat, m <= n, NEW q \in Seq(1 .. m)
  PROVE  q \in Seq(1 .. n)
OBVIOUS

LEMMA TailType ==
  ASSUME NEW S, NEW q \in Seq(S), q # <<>>
  PROVE  /\ Tail(q) \in Seq(S) /\ Head(q) \in S /\ <<Head(q)>> \in Seq(S)
         /\ Len(Tail(q)) = Len(q) - 1 /\ Len(q) \in Nat /\ Len(<<Head(q)>>) = 1
OBVIOUS

LEMMA EmptyType == \A S : <<>> \in Seq(S) /\ Len(<<>>) = 0
OBVIOUS

LEMMA JoinType ==
  ASSUME NEW S, NEW w \in Seq(S), NEW h \in Seq(S)
  PROVE  w \o h \in Seq(S) /\ Len(w \o h) = Len(w) + Len(h)
OBVIOUS

LEMMA WholeType ==
  ASSUME NEW S, NEW w \in Seq(S), NEW h \in Seq(S), NEW q \in Seq(S)
  PROVE  /\ w \o h \o q \in Seq(S)
         /\ Len(w \o h \o q) = Len(w) + Len(h) + Len(q)
OBVIOUS

LEMMA TakenInPlace ==
  ASSUME NEW S, NEW w \in Seq(S), NEW q \in Seq(S), q # <<>>
  PROVE  w \o <<Head(q)>> \o Tail(q) = w \o <<>> \o q
OBVIOUS

LEMMA WrittenInPlace ==
  ASSUME NEW S, NEW w \in Seq(S), NEW h \in Seq(S), NEW q \in Seq(S)
  PROVE  w \o h \o <<>> \o q = w \o h \o q
OBVIOUS

\* The property in the words of Rows.
LEMMA RowsAreIt == Frames /\ TypeOK /\ Rows => NoFrameSkipped
<1> SUFFICES ASSUME Frames, TypeOK, Rows, NEW s \in clients, writer[s] # "drop"
             PROVE  /\ UnderWay(s) = [i \in DOMAIN UnderWay(s) |->
                                        LastSent(s) - Len(UnderWay(s)) + i]
                    /\ \A p \in Pages :
                         sock[p] = s => snap[p] <= LastSent(s) - Len(UnderWay(s))
  BY DEF NoFrameSkipped
<1>1. s \in Socks /\ Complete(s)
  BY DEF TypeOK, Rows
<1>2. UnderWay(s) \in Seq(1 .. frame)
  BY <1>1, WholeType DEF Frames, UnderWay
<1> DEFINE q == UnderWay(s)
           n == LastSent(s)
<1>3. Row(q, n) /\ q \in Seq(1 .. frame)
  BY <1>1, <1>2 DEF Complete
<1> HIDE DEF q, n
<1>4. q = [i \in DOMAIN q |-> n - Len(q) + i]
  BY <1>3 DEF Row
<1> QED BY <1>1, <1>4 DEF q, n, Complete

-----------------------------------------------------------------------------
(* The invariant.                                                          *)

\* The hub starts without clients.
LEMMA InvInit == Init => Inv
<1> SUFFICES ASSUME Init PROVE Inv
  OBVIOUS
<1>1. TypeOK
  BY ConstantsAssumption DEF Init, TypeOK
<1>2. Table /\ Rows
  BY DEF Init, Table, Rows
<1>3. Frames
  BY ConstantsAssumption, EmptyType DEF Init, Frames
<1> QED BY <1>1, <1>2, <1>3 DEF Inv

\* Frames gives the queues the type that TypeOK asks of them.
LEMMA QueueType ==
  ASSUME NEW f \in 0 .. MaxTick, NEW Q \in [Socks -> Seq(1 .. f)], NEW s \in Socks
  PROVE  Q[s] \in Seq(1 .. MaxTick)
<1>1. f \in Nat /\ MaxTick \in Nat /\ f <= MaxTick
  BY ConstantsAssumption
<1>2. Q[s] \in Seq(1 .. f)
  OBVIOUS
<1> QED BY <1>1, <1>2, Wider

\* Dropping a client takes it off the table, closes its socket, and touches
\* nobody else.
LEMMA Dropped ==
  ASSUME Inv, NEW s \in Socks, DropLocked(s)
  PROVE  /\ clients' = clients \ {s}
         /\ clients' = {t \in Socks : server'[t] = "open"}
         /\ server' \in [Socks -> {"none", "accepted", "open", "closed"}]
         /\ closes' = [t \in Socks |-> IF server'[t] = "closed" THEN 1 ELSE 0]
         /\ \A t \in Socks : server'[t] \in {"none", "accepted"} <=> server[t] \in {"none", "accepted"}
         /\ \A t \in Socks : server'[t] = "none" <=> server[t] = "none"
<1>1. CASE s \in clients
  <2>1. /\ server[s] = "open" /\ closes[s] = 0
        /\ server' = [server EXCEPT ![s] = "closed"] /\ clients' = clients \ {s}
        /\ closes' = [closes EXCEPT ![s] = 1]
    BY <1>1 DEF DropLocked, Inv, TypeOK, Table
  <2> QED BY <2>1 DEF Inv, TypeOK, Table
<1>2. CASE s \notin clients
  BY <1>2 DEF DropLocked, Inv, TypeOK, Table
<1> QED BY <1>1, <1>2

\* Whoever's queue, number and pages stay as they are has a complete row still.
LEMMA Undisturbed ==
  ASSUME Inv, NEW s \in Socks, s \in clients, writer[s] # "drop",
         UnderWay(s)' = UnderWay(s), LastSent(s)' = LastSent(s),
         \A p \in Pages : sock'[p] = s => sock[p] = s /\ snap'[p] = snap[p]
  PROVE  Complete(s)'
<1>1. Complete(s)
  BY DEF Inv, Rows
<1> QED BY <1>1 DEF Complete, Row

-----------------------------------------------------------------------------
(* The hub.                                                                *)

\* A tick starts a round.
LEMMA TickInv == Inv /\ Tick => Inv'
<1> SUFFICES ASSUME Inv, Tick PROVE Inv'
  OBVIOUS
<1>1. /\ frame \in Nat /\ frame' = frame + 1 /\ frame' \in 0 .. MaxTick
      /\ todo = {} /\ todo' = clients /\ mu' = Hub
      /\ UNCHANGED <<clients, send, goroutines, closes, net, browser>>
  BY ConstantsAssumption DEF Tick, Inv, TypeOK
<1>2. TypeOK'
  BY <1>1, ConstantsAssumption DEF Inv, TypeOK, goroutines, net, browser
<1>3. Table'
  BY <1>1 DEF Inv, Table, net, browser
<1>4. Frames'
  <2>1. Seq(1 .. frame) \subseteq Seq(1 .. frame')
    BY <1>1
  <2> QED BY <1>1, <2>1 DEF Inv, Frames, goroutines, net
<1>5. Rows'
  <2> SUFFICES ASSUME NEW s \in clients, writer[s] # "drop" PROVE Complete(s)'
    BY <1>1 DEF Rows, goroutines
  <2>1. s \in Socks /\ LastSent(s)' = LastSent(s)
    BY <1>1 DEF LastSent, Inv, TypeOK
  <2>2. UnderWay(s)' = UnderWay(s)
    BY <1>1 DEF UnderWay, goroutines, net
  <2> QED BY <1>1, <2>1, <2>2, Undisturbed DEF browser
<1> QED BY <1>2, <1>3, <1>4, <1>5 DEF Inv

\* A visit queues a frame, or drops a client whose channel is full.
LEMMA VisitInv ==
  ASSUME Inv, NEW s \in Socks, Visit(s)
  PROVE  Inv'
<1>1. /\ s \in todo /\ todo' = todo \ {s} /\ s \in clients /\ mu = Hub
      /\ UNCHANGED <<mu, frame, goroutines, wire, browser>>
      /\ frame \in 1 .. MaxTick
  BY DEF Visit, Inv, TypeOK, Table, Frames
<1>2. \A t \in clients \ {s} : LastSent(t)' = LastSent(t)
  BY <1>1 DEF LastSent
<1>3. CASE Len(send[s]) < SendCap
  <2>1. /\ send' = [send EXCEPT ![s] = Append(@, frame)]
        /\ UNCHANGED <<clients, closes, server>>
    BY <1>3 DEF Visit
  <2>2. /\ send[s] \in Seq(1 .. frame) /\ hand[s] \in Seq(1 .. frame) /\ wire[s] \in Seq(1 .. frame)
        /\ send'[s] = Append(send[s], frame) /\ \A t \in Socks \ {s} : send'[t] = send[t]
    BY <2>1 DEF Inv, Frames
  <2>3. send' \in [Socks -> Seq(1 .. frame)]
    BY <1>1, <2>1, <2>2 DEF Inv, Frames
  <2>4. TypeOK'
    <3>1. \A t \in Socks : send'[t] \in Seq(1 .. MaxTick)
      BY <1>1, <2>3, QueueType DEF Inv, TypeOK
    <3>2. Len(send'[s]) <= SendCap
      BY <1>3, <2>2, ConstantsAssumption
    <3>3. \A t \in Socks : Len(send'[t]) <= SendCap
      BY <2>2, <3>2 DEF Inv, TypeOK
    <3> QED BY <1>1, <2>1, <3>1, <3>3, ConstantsAssumption DEF Inv, TypeOK, goroutines, browser
  <2>5. Table' /\ Frames'
    <3>1. server[s] = "open"
      BY <1>1 DEF Inv, Table
    <3> QED BY <1>1, <2>1, <2>2, <2>3, <3>1 DEF Inv, Table, Frames, goroutines, browser
  <2>6. Rows'
    <3> SUFFICES ASSUME NEW t \in clients, writer[t] # "drop" PROVE Complete(t)'
      BY <1>1, <2>1 DEF Rows, goroutines
    <3>1. CASE t = s
      <4> DEFINE q == UnderWay(s)
      <4>1. Row(q, frame - 1) /\ \A p \in Pages : sock[p] = s => snap[p] <= frame - 1 - Len(q)
        BY <1>1, <3>1 DEF Inv, Rows, Complete, LastSent
      <4>2. UnderWay(s)' = Append(q, frame)
        <5>1. wire[s] \o hand[s] \o Append(send[s], frame)
                = Append(wire[s] \o hand[s] \o send[s], frame)
          <6>1. frame \in 1 .. frame
            BY <1>1
          <6>2. \A w, h, r \in Seq(1 .. frame) :
                  w \o h \o Append(r, frame) = Append(w \o h \o r, frame)
            BY <6>1
          <6> QED BY <2>2, <6>2, Zenon
        <5> QED BY <1>1, <2>2, <5>1 DEF UnderWay, goroutines
      <4>3. q \in Seq(1 .. frame)
        <5>1. wire[s] \o hand[s] \o send[s] \in Seq(1 .. frame)
          BY <2>2, WholeType
        <5> QED BY <5>1 DEF UnderWay
      <4>4. LastSent(s)' = frame
        BY <1>1 DEF LastSent
      <4> HIDE DEF q
      <4>5. Row(Append(q, frame), frame)
        BY <1>1, <4>1, <4>3 DEF Row
      <4>6. Len(Append(q, frame)) = Len(q) + 1 /\ Len(q) \in Nat
        BY <4>3
      <4>7. \A p \in Pages : sock'[p] = s => snap'[p] <= frame - (Len(q) + 1)
        <5>1. \A p \in Pages : snap[p] \in Nat
          BY DEF Inv, TypeOK
        <5> QED BY <1>1, <4>1, <4>6, <5>1 DEF browser
      <4>8. \A p \in Pages : sock'[p] = s => snap'[p] <= LastSent(s)' - Len(UnderWay(s)')
        BY <4>2, <4>4, <4>6, <4>7
      <4> QED BY <3>1, <4>2, <4>4, <4>5, <4>8 DEF Complete, Row
    <3>2. CASE t # s
      <4>1. t \in Socks /\ UnderWay(t)' = UnderWay(t)
        BY <1>1, <2>1, <2>2, <3>2 DEF UnderWay, goroutines, Inv, TypeOK
      <4> QED BY <1>1, <1>2, <3>2, <4>1, Undisturbed DEF browser
    <3> QED BY <3>1, <3>2
  <2> QED BY <2>3, <2>4, <2>5, <2>6 DEF Inv
<1>4. CASE ~(Len(send[s]) < SendCap)
  <2>1. DropLocked(s) /\ send' = send
    BY <1>4 DEF Visit, Overrun
  <2>2. TypeOK' /\ Table' /\ Frames'
    BY <1>1, <2>1, Dropped DEF Inv, TypeOK, Table, Frames, goroutines, browser
  <2>3. Rows'
    <3> SUFFICES ASSUME NEW t \in clients \ {s}, writer[t] # "drop" PROVE Complete(t)'
      BY <1>1, <2>1, Dropped DEF Rows, goroutines
    <3>1. t \in Socks /\ UnderWay(t)' = UnderWay(t)
      BY <1>1, <2>1 DEF UnderWay, goroutines, Inv, TypeOK
    <3> QED BY <1>1, <1>2, <3>1, Undisturbed DEF browser
  <2> QED BY <2>2, <2>3 DEF Inv
<1> QED BY <1>3, <1>4

\* A round ends after its last client.
LEMMA RoundEndsInv == Inv /\ RoundEnds => Inv'
<1> SUFFICES ASSUME Inv, RoundEnds PROVE Inv'
  OBVIOUS
<1>1. /\ mu' = NoOne /\ todo = {}
      /\ UNCHANGED <<frame, todo, clients, send, goroutines, closes, net, browser>>
  BY DEF RoundEnds
<1>2. TypeOK' /\ Table' /\ Frames'
  BY <1>1, ConstantsAssumption DEF Inv, TypeOK, Table, Frames, goroutines, net, browser
<1>3. Rows'
  BY <1>1 DEF Inv, Rows, Complete, Row, UnderWay, LastSent, goroutines, net, browser
<1> QED BY <1>2, <1>3 DEF Inv

-----------------------------------------------------------------------------
(* A client's handler and its two goroutines.                              *)

\* A step that sends nothing, takes nothing and lets no writer recover.
LEMMA Elsewhere ==
  ASSUME Inv, UNCHANGED <<frame, todo, snap, sock>>,
         clients' \subseteq clients,
         \A s \in clients' : UnderWay(s)' = UnderWay(s),
         \A s \in clients' : writer'[s] # "drop" => writer[s] # "drop"
  PROVE  Rows'
<1> SUFFICES ASSUME NEW s \in clients', writer'[s] # "drop" PROVE Complete(s)'
  BY DEF Rows
<1>1. s \in Socks /\ s \in clients /\ LastSent(s)' = LastSent(s)
  BY DEF LastSent, Inv, TypeOK
<1> QED BY <1>1, Undisturbed

\* handleWS enters a client in the table, then starts its writer and its reader.
LEMMA HandlerInv ==
  ASSUME Inv, NEW s \in Socks, Add(s) \/ Start(s)
  PROVE  Inv'
<1>1. CASE Add(s)
  <2>1. /\ server[s] = "accepted" /\ todo = {} /\ clients' = clients \cup {s}
        /\ server' = [server EXCEPT ![s] = "open"]
        /\ UNCHANGED <<hubvars, send, goroutines, closes, wire, browser>>
    BY <1>1, ConstantsAssumption DEF Add, Inv, TypeOK
  <2>2. TypeOK' /\ Table' /\ Frames'
    BY <2>1 DEF Inv, TypeOK, Table, Frames, hubvars, goroutines, browser
  <2>3. Rows'
    <3> SUFFICES ASSUME NEW t \in clients \cup {s}, writer[t] # "drop" PROVE Complete(t)'
      BY <2>1 DEF Rows, goroutines
    <3>1. UnderWay(t)' = UnderWay(t) /\ LastSent(t)' = LastSent(t)
      BY <2>1 DEF UnderWay, LastSent, hubvars, goroutines
    <3>2. CASE t = s
      <4>1. UnderWay(s)' = <<>>
        BY <2>1, <3>1, <3>2 DEF UnderWay, Inv, Frames
      <4>2. LastSent(s)' = frame
        BY <2>1 DEF LastSent, hubvars
      <4>3. \A p \in Pages : snap'[p] <= frame
        BY <2>1 DEF Inv, TypeOK, browser
      <4>4. Len(UnderWay(s)') = 0 /\ frame \in Nat
        BY <4>1 DEF Inv, TypeOK
      <4> QED BY <3>2, <4>1, <4>2, <4>3, <4>4 DEF Complete, Row
    <3>3. CASE t # s
      BY <2>1, <3>1, <3>3, Undisturbed DEF browser, Inv, TypeOK
    <3> QED BY <3>2, <3>3
  <2> QED BY <2>2, <2>3 DEF Inv
<1>2. CASE Start(s)
  <2>1. TypeOK' /\ Table' /\ Frames'
    BY <1>2 DEF Start, Inv, TypeOK, Table, Frames, hubvars, net, browser
  <2>2. Rows'
    BY <1>2, Elsewhere DEF Start, UnderWay, hubvars, net, browser, Inv, TypeOK
  <2> QED BY <2>1, <2>2 DEF Inv
<1> QED BY <1>1, <1>2

\* The writer's frame goes to the socket, or the socket fails.
LEMMA WriterInv ==
  ASSUME Inv, NEW s \in Socks, Writer(s)
  PROVE  Inv'
<1>0. /\ send[s] \in Seq(1 .. frame) /\ hand[s] \in Seq(1 .. frame) /\ wire[s] \in Seq(1 .. frame)
      /\ frame \in 0 .. MaxTick /\ MaxTick \in Nat
  BY ConstantsAssumption DEF Inv, Frames, TypeOK
<1>1. CASE TakeFrame(s)
  <2>1. /\ hand' = [hand EXCEPT ![s] = <<Head(send[s])>>]
        /\ send' = [send EXCEPT ![s] = Tail(send[s])]
        /\ writer' = [writer EXCEPT ![s] = "write"] /\ writer[s] = "select"
        /\ hand[s] = <<>> /\ send[s] # <<>>
        /\ UNCHANGED <<hubvars, clients, reader, closes, net, browser>>
    BY <1>1 DEF TakeFrame, Inv, Frames
  <2>2. /\ Tail(send[s]) \in Seq(1 .. frame) /\ <<Head(send[s])>> \in Seq(1 .. frame)
        /\ Len(Tail(send[s])) = Len(send[s]) - 1 /\ Len(send[s]) \in Nat
        /\ Len(<<Head(send[s])>>) = 1
    BY <1>0, <2>1, TailType
  <2>3. /\ send' \in [Socks -> Seq(1 .. frame)] /\ hand' \in [Socks -> Seq(1 .. frame)]
        /\ send'[s] = Tail(send[s]) /\ hand'[s] = <<Head(send[s])>>
        /\ \A t \in Socks \ {s} : send'[t] = send[t] /\ hand'[t] = hand[t]
    BY <2>1, <2>2, Replaced DEF Inv, Frames
  <2>4. TypeOK'
    <3>1. \A t \in Socks : send'[t] \in Seq(1 .. MaxTick) /\ hand'[t] \in Seq(1 .. MaxTick)
      BY <1>0, <2>3, QueueType
    <3>2. Len(send'[s]) <= SendCap /\ Len(hand'[s]) <= 1
      <4>1. Len(send[s]) <= SendCap /\ SendCap \in Nat
        BY ConstantsAssumption DEF Inv, TypeOK
      <4>2. Len(send'[s]) = Len(send[s]) - 1 /\ Len(hand'[s]) = 1 /\ Len(send[s]) \in Nat
        BY <2>2, <2>3
      <4> QED BY <4>1, <4>2
    <3>3. \A t \in Socks : Len(send'[t]) <= SendCap /\ Len(hand'[t]) <= 1
      BY <2>3, <3>2 DEF Inv, TypeOK
    <3> QED BY <2>1, <3>1, <3>3 DEF Inv, TypeOK, hubvars, net, browser
  <2>a. Table'
    BY <2>1 DEF Inv, Table, hubvars, net, browser
  <2>b. Frames'
    <3>1. server[s] \notin {"none", "accepted"} /\ writer'[s] = "write"
          /\ \A t \in Socks \ {s} : writer'[t] = writer[t]
      BY <2>1 DEF Inv, TypeOK, Frames
    <3> QED BY <2>1, <2>3, <3>1 DEF Inv, Frames, hubvars, net
  <2>5. Rows'
    <3>1. UnderWay(s)' = UnderWay(s)
      <4>1. wire[s] \o <<Head(send[s])>> \o Tail(send[s]) = wire[s] \o <<>> \o send[s]
        BY <1>0, <2>1, TakenInPlace
      <4> QED BY <2>1, <2>3, <4>1 DEF UnderWay, net
    <3>2. \A t \in Socks \ {s} : UnderWay(t)' = UnderWay(t)
      BY <2>1, <2>3 DEF UnderWay, net
    <3> QED BY <2>1, <3>1, <3>2, Elsewhere DEF hubvars, browser, Inv, TypeOK
  <2> QED BY <2>4, <2>a, <2>b, <2>5 DEF Inv
<1>2. CASE SeesDone(s)
  <2>1. TypeOK' /\ Table' /\ Frames'
    BY <1>2 DEF SeesDone, Inv, TypeOK, Table, Frames, hubvars, net, browser
  <2>2. Rows'
    BY <1>2, Elsewhere DEF SeesDone, UnderWay, hubvars, net, browser, Inv, TypeOK
  <2> QED BY <2>1, <2>2 DEF Inv
<1>3. CASE WriteFrame(s)
  <2>1. /\ wire' = [wire EXCEPT ![s] = wire[s] \o hand[s]]
        /\ hand' = [hand EXCEPT ![s] = <<>>]
        /\ writer' = [writer EXCEPT ![s] = "select"] /\ writer[s] = "write"
        /\ server[s] = "open" /\ Len(wire[s]) < Window
        /\ UNCHANGED <<hubvars, clients, send, reader, closes, server, browser>>
    BY <1>3 DEF WriteFrame
  <2>2. /\ wire[s] \o hand[s] \in Seq(1 .. frame) /\ <<>> \in Seq(1 .. frame)
        /\ Len(wire[s] \o hand[s]) = Len(wire[s]) + Len(hand[s]) /\ Len(<<>>) = 0
    BY <1>0, JoinType, EmptyType
  <2>3. /\ wire' \in [Socks -> Seq(1 .. frame)] /\ hand' \in [Socks -> Seq(1 .. frame)]
        /\ wire'[s] = wire[s] \o hand[s] /\ hand'[s] = <<>>
        /\ \A t \in Socks \ {s} : wire'[t] = wire[t] /\ hand'[t] = hand[t]
    BY <2>1, <2>2, Replaced DEF Inv, Frames
  <2>4. TypeOK'
    <3>1. \A t \in Socks : wire'[t] \in Seq(1 .. MaxTick) /\ hand'[t] \in Seq(1 .. MaxTick)
      BY <1>0, <2>3, QueueType
    <3>2. Len(wire'[s]) <= Window /\ Len(hand'[s]) <= 1
      <4>1. Len(hand[s]) <= 1 /\ Len(hand[s]) \in Nat /\ Len(wire[s]) \in Nat /\ Window \in Nat
        BY <1>0, ConstantsAssumption DEF Inv, TypeOK
      <4>2. Len(wire'[s]) = Len(wire[s]) + Len(hand[s]) /\ Len(hand'[s]) = 0
        BY <2>2, <2>3
      <4> QED BY <2>1, <4>1, <4>2
    <3>3. \A t \in Socks : Len(wire'[t]) <= Window /\ Len(hand'[t]) <= 1
      BY <2>3, <3>2 DEF Inv, TypeOK
    <3> QED BY <2>1, <3>1, <3>3 DEF Inv, TypeOK, hubvars, browser
  <2>a. Table'
    BY <2>1 DEF Inv, Table, hubvars, browser
  <2>b. Frames'
    <3>1. \A t \in Socks \ {s} : writer'[t] = writer[t]
      BY <2>1 DEF Inv, TypeOK
    <3> QED BY <2>1, <2>3, <3>1 DEF Inv, Frames, hubvars
  <2>5. Rows'
    <3>1. UnderWay(s)' = UnderWay(s)
      <4>1. wire[s] \o hand[s] \o <<>> \o send[s] = wire[s] \o hand[s] \o send[s]
        BY <1>0, WrittenInPlace
      <4> QED BY <2>1, <2>3, <4>1 DEF UnderWay
    <3>2. \A t \in Socks \ {s} : UnderWay(t)' = UnderWay(t)
      BY <2>1, <2>3 DEF UnderWay
    <3> QED BY <2>1, <3>1, <3>2, Elsewhere DEF hubvars, browser, Inv, TypeOK
  <2> QED BY <2>4, <2>a, <2>b, <2>5 DEF Inv
<1>4. CASE WriteFails(s)
  <2>1. /\ hand' = [hand EXCEPT ![s] = <<>>] /\ writer' = [writer EXCEPT ![s] = "drop"]
        /\ writer[s] = "write"
        /\ UNCHANGED <<hubvars, clients, send, reader, closes, net, browser>>
    BY <1>4 DEF WriteFails
  <2>2. /\ hand' \in [Socks -> Seq(1 .. frame)] /\ hand'[s] = <<>>
        /\ \A t \in Socks \ {s} : hand'[t] = hand[t] /\ writer'[t] = writer[t]
    BY <2>1, EmptyType, Replaced DEF Inv, TypeOK, Frames
  <2>3. TypeOK'
    <3>1. \A t \in Socks : hand'[t] \in Seq(1 .. MaxTick)
      BY <1>0, <2>2, QueueType
    <3>2. Len(hand'[s]) = 0
      BY <2>2
    <3>3. \A t \in Socks \ {s} : Len(hand'[t]) <= 1
      BY <2>2 DEF Inv, TypeOK
    <3>4. \A t \in Socks : Len(hand'[t]) <= 1
      BY <3>2, <3>3
    <3> QED BY <2>1, <3>1, <3>4 DEF Inv, TypeOK, hubvars, net, browser
  <2>a. Table'
    BY <2>1 DEF Inv, Table, hubvars, net, browser
  <2>b. Frames'
    BY <2>1, <2>2 DEF Inv, Frames, hubvars, net
  <2>4. Rows'
    <3> SUFFICES ASSUME NEW t \in clients, writer'[t] # "drop" PROVE Complete(t)'
      BY <2>1 DEF Rows
    <3>1. t # s /\ t \in Socks /\ writer[t] # "drop"
      BY <2>1 DEF Inv, TypeOK
    <3>2. UnderWay(t)' = UnderWay(t) /\ LastSent(t)' = LastSent(t)
      BY <2>1, <3>1 DEF UnderWay, LastSent, hubvars, net, Inv, Frames
    <3> QED BY <2>1, <3>1, <3>2, Undisturbed DEF browser
  <2> QED BY <2>3, <2>a, <2>b, <2>4 DEF Inv
<1>5. CASE WriterDrops(s)
  <2>1. /\ DropLocked(s) /\ writer[s] = "drop" /\ mu = NoOne
        /\ writer' = [writer EXCEPT ![s] = "stopped"]
        /\ UNCHANGED <<hubvars, send, hand, reader, wire, browser>>
    BY <1>5 DEF WriterDrops
  <2>2. todo = {}
    BY <2>1 DEF Inv, TypeOK
  <2>3. TypeOK' /\ Table' /\ Frames'
    BY <2>1, <2>2, Dropped DEF Inv, TypeOK, Table, Frames, hubvars, browser
  <2>4. Rows'
    BY <2>1, Dropped, Elsewhere DEF UnderWay, hubvars, browser, Inv, TypeOK
  <2> QED BY <2>3, <2>4 DEF Inv
<1> QED BY <1>1, <1>2, <1>3, <1>4, <1>5 DEF Writer

\* The reader notices that its page is gone.
LEMMA ReaderInv ==
  ASSUME Inv, NEW s \in Socks, Reader(s)
  PROVE  Inv'
<1>1. CASE ReadEnds(s)
  <2>1. TypeOK' /\ Table' /\ Frames'
    BY <1>1 DEF ReadEnds, Inv, TypeOK, Table, Frames, hubvars, net, browser
  <2>2. Rows'
    BY <1>1, Elsewhere DEF ReadEnds, UnderWay, hubvars, net, browser
  <2> QED BY <2>1, <2>2 DEF Inv
<1>2. CASE ReaderDrops(s)
  <2>1. /\ DropLocked(s) /\ todo = {}
        /\ reader' = [reader EXCEPT ![s] = "stopped"]
        /\ UNCHANGED <<hubvars, send, hand, writer, wire, browser>>
    BY <1>2 DEF ReaderDrops, Inv, TypeOK
  <2>2. TypeOK' /\ Table' /\ Frames'
    BY <2>1, Dropped DEF Inv, TypeOK, Table, Frames, hubvars, browser
  <2>3. Rows'
    BY <2>1, Dropped, Elsewhere DEF UnderWay, hubvars, browser
  <2> QED BY <2>2, <2>3 DEF Inv
<1> QED BY <1>1, <1>2 DEF Reader

-----------------------------------------------------------------------------
(* Pages.                                                                  *)

\* A page opens a socket of its own.
LEMMA ConnectInv ==
  ASSUME Inv, NEW p \in Pages, NEW s \in Socks, Connect(p, s)
  PROVE  Inv'
<1>1. /\ sock[p] = NoSock /\ server[s] = "none"
      /\ server' = [server EXCEPT ![s] = "accepted"] /\ sock' = [sock EXCEPT ![p] = s]
      /\ UNCHANGED <<hubvars, clients, send, goroutines, closes, wire, snap>>
  BY DEF Connect
<1>2. \A q \in Pages : sock[q] # s
  BY <1>1, ConstantsAssumption DEF Inv, Table
<1>3. TypeOK'
  BY <1>1, <1>2, ConstantsAssumption DEF Inv, TypeOK, hubvars, goroutines
<1>4. Table' /\ Frames'
  BY <1>1, ConstantsAssumption DEF Inv, TypeOK, Table, Frames, hubvars, goroutines
<1>5. Rows'
  <2> SUFFICES ASSUME NEW t \in clients, writer[t] # "drop" PROVE Complete(t)'
    BY <1>1 DEF Rows, goroutines
  <2>1. t # s /\ t \in Socks
    BY <1>1 DEF Inv, Table
  <2>2. UnderWay(t)' = UnderWay(t) /\ LastSent(t)' = LastSent(t)
    BY <1>1 DEF UnderWay, LastSent, hubvars, goroutines
  <2>3. \A q \in Pages : sock'[q] = t => sock[q] = t /\ snap'[q] = snap[q]
    BY <1>1, <2>1 DEF Inv, TypeOK
  <2> QED BY <2>1, <2>2, <2>3, Undisturbed
<1> QED BY <1>3, <1>4, <1>5 DEF Inv

\* A page takes the oldest frame of its socket.
LEMMA MessageInv ==
  ASSUME Inv, NEW p \in Pages, OnMessage(p)
  PROVE  Inv'
<1>0. PICK s \in Socks : s = sock[p]
  BY DEF OnMessage, Inv, TypeOK
<1> DEFINE q == UnderWay(s)
<1>1. /\ sock[p] = s /\ wire[s] # <<>>
      /\ snap' = [snap EXCEPT ![p] = Head(wire[s])]
      /\ wire' = [wire EXCEPT ![s] = Tail(wire[s])]
      /\ UNCHANGED <<hubvars, clients, send, goroutines, closes, server, sock>>
  BY <1>0 DEF OnMessage
<1>2. /\ send[s] \in Seq(1 .. frame) /\ hand[s] \in Seq(1 .. frame) /\ wire[s] \in Seq(1 .. frame)
      /\ frame \in 0 .. MaxTick /\ MaxTick \in Nat
  BY <1>1, ConstantsAssumption DEF Inv, Frames, TypeOK
<1>3. /\ Tail(wire[s]) \in Seq(1 .. frame) /\ Head(wire[s]) \in 1 .. frame
      /\ Len(Tail(wire[s])) = Len(wire[s]) - 1 /\ Len(wire[s]) \in Nat
  BY <1>1, <1>2, TailType
<1>a. /\ wire' \in [Socks -> Seq(1 .. frame)] /\ wire'[s] = Tail(wire[s])
      /\ \A t \in Socks \ {s} : wire'[t] = wire[t]
  BY <1>1, <1>3, Replaced DEF Inv, Frames
<1>4. TypeOK'
  <2>1. \A t \in Socks : wire'[t] \in Seq(1 .. MaxTick)
    BY <1>2, <1>a, QueueType
  <2>2. Len(wire'[s]) <= Window
    <3>1. Len(wire[s]) <= Window /\ Window \in Nat
      BY <1>1, ConstantsAssumption DEF Inv, TypeOK
    <3>2. Len(wire'[s]) = Len(wire[s]) - 1
      BY <1>3, <1>a
    <3> QED BY <1>3, <3>1, <3>2
  <2>3. \A t \in Socks : Len(wire'[t]) <= Window
    BY <1>a, <2>2 DEF Inv, TypeOK
  <2>4. snap' \in [Pages -> 0 .. frame]
    <3>1. Head(wire[s]) \in 0 .. frame /\ snap \in [Pages -> 0 .. frame]
      BY <1>2, <1>3 DEF Inv, TypeOK
    <3> QED BY <1>1, <3>1
  <2> QED BY <1>1, <2>1, <2>3, <2>4 DEF Inv, TypeOK, hubvars, goroutines
<1>5. Table'
  BY <1>1 DEF Inv, Table, hubvars
<1>6. Frames'
  <2>1. server[s] \notin {"none", "accepted"}
    BY <1>1 DEF Inv, Frames
  <2> QED BY <1>1, <1>a, <2>1 DEF Inv, Frames, hubvars, goroutines
<1>7. Rows'
  <2> SUFFICES ASSUME NEW t \in clients, writer[t] # "drop" PROVE Complete(t)'
    BY <1>1 DEF Rows, goroutines
  <2>1. t \in Socks /\ LastSent(t)' = LastSent(t)
    BY <1>1 DEF LastSent, hubvars, Inv, TypeOK
  <2>2. CASE t # s
    <3>1. UnderWay(t)' = UnderWay(t)
      BY <1>1, <1>a, <2>1, <2>2 DEF UnderWay, goroutines
    <3>2. \A r \in Pages : sock'[r] = t => sock[r] = t /\ snap'[r] = snap[r]
      BY <1>1, <2>2 DEF Inv, TypeOK
    <3> QED BY <2>1, <3>1, <3>2, Undisturbed
  <2>3. CASE t = s
    <3> DEFINE n == LastSent(s)
    <3>1. Row(q, n)
      BY <2>3 DEF Inv, Rows, Complete
    <3>2. UnderWay(s)' = Tail(q) /\ Head(wire[s]) = q[1]
      <4>1. /\ Tail(wire[s]) \o hand[s] \o send[s] = Tail(wire[s] \o hand[s] \o send[s])
            /\ Head(wire[s]) = (wire[s] \o hand[s] \o send[s])[1]
        <5>1. /\ wire[s] \in Seq(1 .. frame) /\ hand[s] \in Seq(1 .. frame)
              /\ send[s] \in Seq(1 .. frame) /\ wire[s] # <<>>
          BY <1>1, <1>2
        <5>2. \A w, h, r \in Seq(1 .. frame) :
                w # <<>> => /\ Tail(w) \o h \o r = Tail(w \o h \o r)
                            /\ Head(w) = (w \o h \o r)[1]
          OBVIOUS
        <5> QED BY <5>1, <5>2, Zenon
      <4>2. UnderWay(s)' = Tail(wire[s]) \o hand[s] \o send[s]
        BY <1>1, <1>a DEF UnderWay, goroutines
      <4> QED BY <4>1, <4>2 DEF UnderWay
    <3>3. q \in Seq(1 .. frame) /\ q # <<>> /\ n \in Int
      <4>1. /\ wire[s] \o hand[s] \o send[s] \in Seq(1 .. frame)
            /\ Len(wire[s] \o hand[s] \o send[s]) = Len(wire[s]) + Len(hand[s]) + Len(send[s])
        BY <1>2, WholeType
      <4>2. Len(hand[s]) \in Nat /\ Len(send[s]) \in Nat /\ Len(wire[s]) # 0
        BY <1>1, <1>2
      <4>3. n \in Int
        BY <1>2 DEF LastSent
      <4> QED BY <1>3, <4>1, <4>2, <4>3 DEF UnderWay
    <3>4. \A r \in Pages : sock'[r] = s => r = p
      BY <1>1, ConstantsAssumption DEF Inv, TypeOK
    <3>5. snap'[p] = q[1]
      BY <1>1, <3>2 DEF Inv, TypeOK
    <3> HIDE DEF q, n
    <3>6. Row(Tail(q), n) /\ q[1] = n - Len(Tail(q)) /\ Len(Tail(q)) \in Nat
      BY <3>1, <3>3 DEF Row
    <3>7. LastSent(s)' = n
      BY <2>1, <2>3 DEF n
    <3>8. \A r \in Pages : sock'[r] = s => snap'[r] <= n - Len(Tail(q))
      BY <3>3, <3>4, <3>5, <3>6
    <3>9. \A r \in Pages : sock'[r] = s => snap'[r] <= LastSent(s)' - Len(UnderWay(s)')
      BY <3>2, <3>7, <3>8
    <3> QED BY <2>3, <3>2, <3>6, <3>7, <3>9 DEF Complete, Row
  <2> QED BY <2>2, <2>3
<1> QED BY <1>4, <1>5, <1>6, <1>7 DEF Inv

\* A page is reloaded, loses its socket or is closed.
LEMMA PageGoes ==
  ASSUME Inv, NEW p \in Pages, OnClose(p) \/ Leave(p)
  PROVE  Inv'
<1>1. /\ sock' = [sock EXCEPT ![p] = NoSock]
      /\ snap' = snap \/ snap' = [snap EXCEPT ![p] = 0]
      /\ UNCHANGED <<hubvars, clients, send, goroutines, closes, net>>
  BY DEF OnClose, Leave
<1>2. TypeOK' /\ Table' /\ Frames'
  BY <1>1, ConstantsAssumption
     DEF Inv, TypeOK, Table, Frames, hubvars, goroutines, net
<1>3. Rows'
  <2> SUFFICES ASSUME NEW t \in clients, writer[t] # "drop" PROVE Complete(t)'
    BY <1>1 DEF Rows, goroutines
  <2>1. /\ t \in Socks /\ t # NoSock
        /\ UnderWay(t)' = UnderWay(t) /\ LastSent(t)' = LastSent(t)
    BY <1>1, ConstantsAssumption DEF UnderWay, LastSent, hubvars, goroutines, net, Inv, TypeOK
  <2>2. \A r \in Pages : sock'[r] = t => sock[r] = t /\ snap'[r] = snap[r]
    BY <1>1, <2>1 DEF Inv, TypeOK
  <2> QED BY <2>1, <2>2, Undisturbed
<1> QED BY <1>2, <1>3 DEF Inv

-----------------------------------------------------------------------------
(* The theorems.                                                           *)

\* Every step of hub, clients and pages keeps the invariant.
LEMMA NextInv == Inv /\ [Next]_vars => Inv'
<1> SUFFICES ASSUME Inv, [Next]_vars PROVE Inv'
  OBVIOUS
<1>1. CASE Next
  BY <1>1, TickInv, VisitInv, RoundEndsInv, HandlerInv, WriterInv, ReaderInv,
     ConnectInv, MessageInv, PageGoes DEF Next, HubRound
<1>2. CASE UNCHANGED vars
  <2>1. UNCHANGED <<mu, frame, todo, clients, send, hand, writer, reader, closes, server,
                    wire, sock, snap>>
    BY <1>2 DEF vars, hubvars, goroutines, net, browser
  <2>2. TypeOK' /\ Table' /\ Frames'
    BY <2>1 DEF Inv, TypeOK, Table, Frames
  <2>3. Rows'
    BY <2>1, Elsewhere DEF UnderWay
  <2> QED BY <2>2, <2>3 DEF Inv
<1> QED BY <1>1, <1>2

\* The invariant holds in every reachable state.
LEMMA Invariance == Spec => []Inv
BY InvInit, NextInv, PTL DEF Spec

\* However hub, writer and reader race for a client, `done` is closed once, and
\* channel and socket keep within their limits (admin.go:61-67).
THEOREM Typing == Spec => []TypeOK
<1>1. Inv => TypeOK
  BY DEF Inv
<1> QED BY <1>1, Invariance, PTL

\* A client gets every frame, each once and in order, or is dropped: for any
\* number of pages, reloads and frames (DESIGN.md:212, admin.go:111-117).
THEOREM NoSkip == Spec => []NoFrameSkipped
<1>1. Inv => NoFrameSkipped
  BY RowsAreIt DEF Inv
<1> QED BY <1>1, Invariance, PTL

=============================================================================
