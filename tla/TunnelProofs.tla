------------------------------ MODULE TunnelProofs ------------------------------
(***************************************************************************)
(* The safety invariants of Tunnel, for every set of inbound protocols and *)
(* routes, any number of chunks and any window of the sockets.             *)
(*                                                                         *)
(* Inv says where a connection is (Phases), which sockets may be closed or *)
(* reset by then (Sockets), which chunks are held between a read and a     *)
(* write (InHand), how a copier has ended (Ends), and from these what was  *)
(* written so far: Stream counts it, out = own chunk + chunks that passed, *)
(* with less only at a side that takes no more.                            *)
(***************************************************************************)
EXTENDS Tunnel, TLAPS

\* Until the handler answers the client, or turns it away.
Opening == {"handshake", "dial", "await", "refuse", "answer"}

\* Where the handler and the copiers are in respect to each other, and what
\* each may have touched by then.
Phases ==
  /\ cp["up"] = "off" <=> cp["down"] = "off"
  /\ pc \in Opening \cup {"register", "replay"} => cp["up"] = "off"
  /\ pc \in {"wait", "unregister", "close_server"} => cp["up"] # "off"
  /\ live => pc \in {"replay", "wait", "unregister"}
  /\ pc = "await" => route = "http"
  /\ deadline => pc = "await" \/ closed["server"]
  /\ pc \in {"unregister", "close_server", "close_client", "gone"} /\ cp["up"] # "off"
       => \E d \in Dir : cp[d] = "done"

\* A side whose socket is closed or reset has ended its stream; the proxy closes
\* its own sockets at the end, or when the panel asks for it.
Sockets ==
  /\ \A d \in Dir : peer[Src(d)] \in {"closed", "reset"} => fin[d]
  /\ closed["client"] => cut \/ pc = "gone"
  /\ closed["server"] => pc \in {"refuse", "close_client", "gone"}

\* What is in hand: replayed chunks first, then what the copiers have read.
InHand ==
  /\ early <= taken["up"]
  /\ pc = "handshake" => taken["up"] = 0 /\ taken["down"] = 0
  /\ pc \in Opening \cup {"register"} => early = taken["up"]
  /\ cp["up"] # "off" => early = 0
  /\ cp["down"] = "off" /\ route # "http" => taken["down"] = 0
  /\ \A d \in Dir : cp[d] \in {"count_read", "write", "count_write"} => taken[d] > 0

\* The end of a copier.
Ends ==
  \A d \in Dir :
    end[d] = "eof" => cp[d] = "done" /\ fin[d] /\ taken[d] = sent[d]

\* The proxy's own chunk, and the chunks of the source that have gone through.
Lead(d) == IF (d = "up") = (mode = "plain") THEN 1 ELSE 0
Passed(d) ==
  IF cp[d] = "off" THEN (IF d = "up" THEN taken["up"] - early ELSE 0)
  ELSE IF cp[d] \in {"count_read", "write"} THEN taken[d] - 1 ELSE taken[d]

\* Nothing is written to a side any more.
Over(d) == closed[Dst(d)] \/ peer[Dst(d)] = "reset"

\* Once the handler has answered, the n-th chunk written is the n-th of the
\* promise, and only a side that takes no more has got less than has passed.
Answered == pc \in {"register", "replay"} \/ cp["up"] # "off"
Stream ==
  /\ pc \in Opening => out["up"] = <<>> /\ out["down"] = <<>>
  /\ ~Answered => out["up"] = <<>> /\ out["down"] \in {<<>>, <<0>>}
  /\ Answered =>
       \A d \in Dir : Transparent(d) =>
         /\ \A i \in 1 .. Len(out[d]) : out[d][i] = i - Lead(d)
         /\ Len(out[d]) <= Lead(d) + Passed(d)
         /\ Over(d) \/ Len(out[d]) = Lead(d) + Passed(d)

Inv == TypeOK /\ Phases /\ Sockets /\ InHand /\ Ends /\ Stream

\* A delivery appends one chunk to one direction.
LEMMA Delivered ==
  ASSUME TypeOK, NEW d \in Dir, NEW n \in Nat, Deliver(d, n)
  PROVE  /\ out' \in [Dir -> Seq(Nat)] /\ out'[d] = Append(out[d], n)
         /\ \A e \in Dir : e # d => out'[e] = out[e]
         /\ \A e \in Dir : Len(out[e]) \in Nat /\ Len(out'[e]) \in Nat /\ Len(out'[e]) >= Len(out[e])
         /\ Len(out'[d]) = Len(out[d]) + 1
         /\ \A i \in 1 .. Len(out[d]) : out'[d][i] = out[d][i]
         /\ out'[d][Len(out[d]) + 1] = n
<1>1. out \in [Dir -> Seq(Nat)] /\ out[d] \in Seq(Nat)
  BY DEF TypeOK
<1>2. /\ out' \in [Dir -> Seq(Nat)] /\ out'[d] = Append(out[d], n)
      /\ \A e \in Dir : e # d => out'[e] = out[e]
  BY <1>1 DEF Deliver
<1>3. \A e \in Dir : Len(out[e]) \in Nat
  BY <1>1
<1>4. /\ Len(out'[d]) = Len(out[d]) + 1
      /\ \A i \in 1 .. Len(out[d]) : out'[d][i] = out[d][i]
      /\ out'[d][Len(out[d]) + 1] = n
  BY <1>1, <1>2
<1>5. \A e \in Dir : Len(out'[e]) \in Nat /\ Len(out'[e]) >= Len(out[e])
  BY <1>2, <1>3, <1>4
<1> QED BY <1>2, <1>3, <1>4, <1>5

\* What has gone through is a number of chunks.
LEMMA Passing ==
  ASSUME TypeOK, InHand, NEW d \in Dir
  PROVE  Passed(d) \in Nat /\ Lead(d) \in Nat
BY DEF TypeOK, InHand, Passed, Lead, Dir

\* A step that writes nothing keeps Stream as long as no chunk passes to a side that
\* still takes them.
LEMMA StreamStays ==
  ASSUME Stream, cp["up"] # "off", cp'["up"] # "off", pc' \notin Opening,
         UNCHANGED <<mode, route, out>>,
         \A d \in Dir : Over(d) => Over(d)',
         \A d \in Dir : /\ Passed(d) \in Nat /\ Passed(d)' \in Nat
                        /\ Passed(d)' = Passed(d) \/ (Over(d)' /\ Passed(d)' >= Passed(d))
  PROVE  Stream'
<1>1. ASSUME NEW d \in Dir, Transparent(d)
      PROVE  /\ \A i \in 1 .. Len(out'[d]) : out'[d][i] = i - Lead(d)
             /\ Len(out'[d]) <= Lead(d) + Passed(d)'
             /\ Over(d)' \/ Len(out'[d]) = Lead(d) + Passed(d)'
  <2>1. /\ \A i \in 1 .. Len(out[d]) : out[d][i] = i - Lead(d)
        /\ Len(out[d]) <= Lead(d) + Passed(d)
        /\ Over(d) \/ Len(out[d]) = Lead(d) + Passed(d)
    BY <1>1 DEF Stream, Answered
  <2>2. Lead(d) \in Nat
    BY DEF Lead
  <2>3. Over(d) => Over(d)'
    OBVIOUS
  <2>4. /\ Passed(d) \in Nat /\ Passed(d)' \in Nat
        /\ Passed(d)' = Passed(d) \/ (Over(d)' /\ Passed(d)' >= Passed(d))
    OBVIOUS
  <2>5. PICK p \in Nat : p = Passed(d)'
    BY <2>4
  <2> QED BY <2>1, <2>2, <2>3, <2>4, <2>5
<1>2. \A d \in Dir : Lead(d)' = Lead(d) /\ (Transparent(d)' <=> Transparent(d))
  BY DEF Lead, Transparent
<1> QED BY <1>1, <1>2 DEF Stream, Answered

\* Reading the head leaves in the reader what it has read beyond it.
LEMMA HandshakeInv ==
  ASSUME Inv, Handshake
  PROVE  Inv'
<1>1. TypeOK'
  BY ConstantsAssumption
  DEF Inv, TypeOK, InHand, HandlerPC, CopierPC, Dir, Side, MaxChunks, Handshake,
      fixed, socket, panel, network, copiers, tally, Pending
<1>2. Phases'
  BY DEF Inv, TypeOK, Phases, Sockets, Opening, HandlerPC, CopierPC, Dir, Side,
         Handshake, fixed, socket, panel, copiers, Pending
<1>3. Sockets'
  BY DEF Inv, TypeOK, Phases, Sockets, Opening, HandlerPC, Dir, Side, Src, Dst,
         Broken, Handshake, socket, panel, network, Pending
<1>4. InHand'
  BY DEF Inv, TypeOK, Phases, InHand, Opening, HandlerPC, CopierPC, Dir,
         Handshake, fixed, copiers, Pending
<1>5. Ends'
  <2>1. \A d \in Dir : end[d] # "eof"
    BY DEF Inv, Phases, Ends, Opening, Dir, Handshake
  <2> QED BY <2>1
  DEF Ends, Handshake, fixed, socket, panel, network, flow, copiers, tally
<1>6. Stream'
  BY DEF Inv, TypeOK, Phases, Sockets, InHand, Stream, Answered, Passed, Lead,
         Over, Transparent, Opening, HandlerPC, CopierPC, Dir, Side, Src, Dst,
         Broken, Handshake, fixed, socket, network, copiers, Pending
<1> QED BY <1>1, <1>2, <1>3, <1>4, <1>5, <1>6 DEF Inv

\* A head that never comes.
LEMMA HandshakeFailsInv ==
  ASSUME Inv, HandshakeFails
  PROVE  Inv'
<1>1. TypeOK'
  BY ConstantsAssumption
  DEF Inv, TypeOK, InHand, HandlerPC, CopierPC, Dir, Side, MaxChunks,
      HandshakeFails, fixed, socket, panel, network, flow, copiers, tally
<1>2. Phases'
  BY DEF Inv, TypeOK, Phases, Sockets, Opening, HandlerPC, CopierPC, Dir, Side,
         HandshakeFails, fixed, socket, panel, copiers
<1>3. Sockets'
  BY DEF Inv, TypeOK, Phases, Sockets, Opening, HandlerPC, Dir, Side, Src, Dst,
         Broken, HandshakeFails, socket, panel, network
<1>4. InHand'
  BY DEF Inv, TypeOK, Phases, InHand, Opening, HandlerPC, CopierPC, Dir,
         HandshakeFails, fixed, flow, copiers
<1>5. Ends'
  BY DEF Inv, TypeOK, Phases, Ends, Dir, Side, Broken, HandshakeFails, network,
         flow, copiers
<1>6. Stream'
  BY DEF Inv, TypeOK, Phases, Sockets, InHand, Stream, Answered, Passed, Lead,
         Over, Transparent, Opening, HandlerPC, CopierPC, Dir, Side, Src, Dst,
         Broken, HandshakeFails, fixed, socket, network, flow, copiers
<1> QED BY <1>1, <1>2, <1>3, <1>4, <1>5, <1>6 DEF Inv

\* The refusal may be the only chunk ever written down.
LEMMA RefuseInv ==
  ASSUME Inv, Refuse
  PROVE  Inv'
<1>1. TypeOK'
  <2>1. UNCHANGED out \/ Deliver("down", 0)
    BY DEF Refuse, Offer
  <2>2. /\ out' \in [Dir -> Seq(Nat)] /\ \A d \in Dir : read[d] <= Len(out'[d])
    <3>1. CASE UNCHANGED out
      BY <3>1 DEF Inv, TypeOK
    <3>2. CASE Deliver("down", 0)
      <4>1. \A d \in Dir : read[d] \in Nat /\ read[d] <= Len(out[d])
        BY DEF Inv, TypeOK
      <4> QED BY <3>2, <4>1, Delivered DEF Inv, Dir
    <3> QED BY <2>1, <3>1, <3>2
  <2> QED BY <2>2
  DEF Inv, TypeOK, HandlerPC, Refuse, fixed, socket, panel, network, flow,
      copiers, tally
<1>2. Phases'
  BY DEF Inv, TypeOK, Phases, Sockets, Opening, HandlerPC, CopierPC, Dir, Side,
         Refuse, Offer, Deliver, fixed, socket, panel, copiers
<1>3. Sockets'
  BY DEF Inv, TypeOK, Phases, Sockets, Opening, HandlerPC, Dir, Side, Src, Dst,
         Broken, Refuse, Offer, Deliver, socket, panel, network
<1>4. InHand'
  BY DEF Inv, TypeOK, Phases, InHand, Opening, HandlerPC, CopierPC, Dir, Refuse,
         Offer, Deliver, fixed, copiers
<1>5. Ends'
  BY DEF Inv, TypeOK, Phases, Ends, Dir, Side, Broken, Refuse, Offer, Deliver,
         network, copiers
<1>6. Stream'
  <2>1. /\ out["up"] = <<>> /\ out["down"] = <<>> /\ cp["up"] = "off"
    BY DEF Inv, Phases, Stream, Opening, Refuse
  <2>2. out'["up"] = <<>> /\ out'["down"] \in {<<>>, <<0>>}
    <3>1. UNCHANGED out \/ Deliver("down", 0)
      BY DEF Refuse, Offer
    <3>2. Deliver("down", 0) => out'["up"] = out["up"] /\ out'["down"] = Append(out["down"], 0)
      BY Delivered DEF Inv, Dir
    <3>3. Append(<<>>, 0) = <<0>>
      OBVIOUS
    <3> QED BY <2>1, <3>1, <3>2, <3>3
  <2> QED BY <2>1, <2>2 DEF Stream, Answered, Opening, Refuse, copiers
<1> QED BY <1>1, <1>2, <1>3, <1>4, <1>5, <1>6 DEF Inv

\* A dialled socket is open; only the upstream route waits with a deadline.
LEMMA DialInv ==
  ASSUME Inv, Dial
  PROVE  Inv'
<1>1. TypeOK'
  BY ConstantsAssumption
  DEF Inv, TypeOK, InHand, HandlerPC, CopierPC, Dir, Side, MaxChunks, Dial, fixed,
      panel, flow, copiers, tally
<1>2. Phases'
  BY DEF Inv, TypeOK, Phases, Sockets, Opening, HandlerPC, CopierPC, Dir, Side,
         Dial, fixed, panel, copiers
<1>3. Sockets'
  BY DEF Inv, TypeOK, Phases, Sockets, Opening, HandlerPC, Dir, Side, Src, Dst,
         Broken, Dial, panel
<1>4. InHand'
  BY DEF Inv, TypeOK, Phases, InHand, Opening, HandlerPC, CopierPC, Dir, Dial,
         fixed, flow, copiers
<1>5. Ends'
  BY DEF Inv, TypeOK, Phases, Ends, Dir, Side, Broken, Dial, flow, copiers
<1>6. Stream'
  BY DEF Inv, TypeOK, Phases, Sockets, InHand, Stream, Answered, Passed, Lead,
         Over, Transparent, Opening, HandlerPC, CopierPC, Dir, Side, Src, Dst,
         Broken, Dial, fixed, flow, copiers
<1> QED BY <1>1, <1>2, <1>3, <1>4, <1>5, <1>6 DEF Inv

\* A dial that fails is answered like a refusal.
LEMMA DialFailsInv ==
  ASSUME Inv, DialFails
  PROVE  Inv'
<1>1. TypeOK'
  BY ConstantsAssumption
  DEF Inv, TypeOK, InHand, HandlerPC, CopierPC, Dir, Side, MaxChunks, DialFails,
      fixed, socket, panel, network, flow, copiers, tally
<1>2. Phases'
  BY DEF Inv, TypeOK, Phases, Sockets, Opening, HandlerPC, CopierPC, Dir, Side,
         DialFails, fixed, socket, panel, copiers
<1>3. Sockets'
  BY DEF Inv, TypeOK, Phases, Sockets, Opening, HandlerPC, Dir, Side, Src, Dst,
         Broken, DialFails, socket, panel, network
<1>4. InHand'
  BY DEF Inv, TypeOK, Phases, InHand, Opening, HandlerPC, CopierPC, Dir,
         DialFails, fixed, flow, copiers
<1>5. Ends'
  BY DEF Inv, TypeOK, Phases, Ends, Dir, Side, Broken, DialFails, network, flow,
         copiers
<1>6. Stream'
  BY DEF Inv, TypeOK, Phases, Sockets, InHand, Stream, Answered, Passed, Lead,
         Over, Transparent, Opening, HandlerPC, CopierPC, Dir, Side, Src, Dst,
         Broken, DialFails, fixed, socket, network, flow, copiers
<1> QED BY <1>1, <1>2, <1>3, <1>4, <1>5, <1>6 DEF Inv

\* The deadline is taken back before the tunnel may start; what the reader of the
\* answer drops is taken from "down", a direction that is not transparent then.
LEMMA UpstreamAnswersInv ==
  ASSUME Inv, UpstreamAnswers
  PROVE  Inv'
<1>1. TypeOK'
  <2>1. /\ taken \in [Dir -> Nat] /\ sent \in [Dir -> Nat]
        /\ \A d \in Dir : taken[d] <= sent[d]
    BY DEF Inv, TypeOK
  <2>2. PICK k \in 0 .. sent["down"] - taken["down"] : taken' = [taken EXCEPT !["down"] = k]
    BY DEF UpstreamAnswers, Pending
  <2>3. /\ taken' \in [Dir -> Nat] /\ \A d \in Dir : taken'[d] <= sent[d]
    BY <2>1, <2>2 DEF Dir
  <2> QED BY <2>3
  DEF Inv, TypeOK, HandlerPC, UpstreamAnswers, fixed, socket, panel, network,
      flow, copiers, tally
<1>2. Phases'
  BY DEF Inv, TypeOK, Phases, Sockets, Opening, HandlerPC, CopierPC, Dir, Side,
         UpstreamAnswers, fixed, panel, copiers, Pending
<1>3. Sockets'
  BY DEF Inv, TypeOK, Phases, Sockets, Opening, HandlerPC, Dir, Side, Src, Dst,
         Broken, UpstreamAnswers, panel, network, Pending
<1>4. InHand'
  <2>1. /\ route = "http" /\ cp["up"] = "off" /\ cp["down"] = "off" /\ taken'["up"] = taken["up"]
    BY DEF Inv, TypeOK, Phases, Opening, UpstreamAnswers, Dir
  <2> QED BY <2>1
  DEF Inv, InHand, Opening, Dir, UpstreamAnswers, fixed, socket, panel, network,
      flow, copiers, tally
<1>5. Ends'
  <2>1. \A d \in Dir : end[d] # "eof"
    BY DEF Inv, Phases, Ends, Opening, Dir, UpstreamAnswers
  <2> QED BY <2>1
  DEF Ends, UpstreamAnswers, fixed, socket, panel, network, flow, copiers, tally
<1>6. Stream'
  BY DEF Inv, TypeOK, Phases, Sockets, InHand, Stream, Answered, Passed, Lead,
         Over, Transparent, Opening, HandlerPC, CopierPC, Dir, Side, Src, Dst,
         Broken, UpstreamAnswers, fixed, network, copiers, Pending
<1> QED BY <1>1, <1>2, <1>3, <1>4, <1>5, <1>6 DEF Inv

\* An upstream that refuses is closed with its deadline on.
LEMMA UpstreamFailsInv ==
  ASSUME Inv, UpstreamFails
  PROVE  Inv'
<1>1. TypeOK'
  BY ConstantsAssumption
  DEF Inv, TypeOK, InHand, HandlerPC, CopierPC, Dir, Side, MaxChunks,
      UpstreamFails, fixed, panel, network, flow, copiers, tally
<1>2. Phases'
  BY DEF Inv, TypeOK, Phases, Sockets, Opening, HandlerPC, CopierPC, Dir, Side,
         UpstreamFails, fixed, panel, copiers
<1>3. Sockets'
  BY DEF Inv, TypeOK, Phases, Sockets, Opening, HandlerPC, Dir, Side, Src, Dst,
         Broken, UpstreamFails, panel, network
<1>4. InHand'
  BY DEF Inv, TypeOK, Phases, InHand, Opening, HandlerPC, CopierPC, Dir,
         UpstreamFails, fixed, flow, copiers
<1>5. Ends'
  BY DEF Inv, TypeOK, Phases, Ends, Dir, Side, Broken, UpstreamFails, network,
         flow, copiers
<1>6. Stream'
  BY DEF Inv, TypeOK, Phases, Sockets, InHand, Stream, Answered, Passed, Lead,
         Over, Transparent, Opening, HandlerPC, CopierPC, Dir, Side, Src, Dst,
         Broken, UpstreamFails, fixed, network, flow, copiers
<1> QED BY <1>1, <1>2, <1>3, <1>4, <1>5, <1>6 DEF Inv

\* The proxy's own chunk is the first one of its direction.
LEMMA AnswerInv ==
  ASSUME Inv, Answer
  PROVE  Inv'
<1>1. TypeOK'
  <2>1. UNCHANGED out \/ \E d \in Dir : Deliver(d, 0)
    BY DEF Answer, Offer, Dir
  <2>2. /\ out' \in [Dir -> Seq(Nat)] /\ \A d \in Dir : read[d] <= Len(out'[d])
    <3>1. CASE UNCHANGED out
      BY <3>1 DEF Inv, TypeOK
    <3>2. ASSUME NEW d \in Dir, Deliver(d, 0)
          PROVE  out' \in [Dir -> Seq(Nat)] /\ \A e \in Dir : read[e] <= Len(out'[e])
      <4>1. \A e \in Dir : read[e] \in Nat /\ read[e] <= Len(out[e])
        BY DEF Inv, TypeOK
      <4> QED BY <3>2, <4>1, Delivered DEF Inv
    <3> QED BY <2>1, <3>1, <3>2
  <2> QED BY <2>2
  DEF Inv, TypeOK, HandlerPC, Answer, fixed, socket, panel, network, flow,
      copiers, tally
<1>2. Phases'
  BY DEF Inv, TypeOK, Phases, Sockets, Opening, HandlerPC, CopierPC, Dir, Side,
         Answer, Offer, Deliver, fixed, socket, panel, copiers
<1>3. Sockets'
  BY DEF Inv, TypeOK, Phases, Sockets, Opening, HandlerPC, Dir, Side, Src, Dst,
         Broken, Answer, Offer, Deliver, socket, panel, network
<1>4. InHand'
  BY DEF Inv, TypeOK, Phases, InHand, Opening, HandlerPC, CopierPC, Dir, Answer,
         Offer, Deliver, fixed, copiers
<1>5. Ends'
  BY DEF Inv, TypeOK, Phases, Ends, Dir, Side, Broken, Answer, Offer, Deliver,
         network, copiers
<1>6. Stream'
  BY DEF Inv, TypeOK, Phases, Sockets, InHand, Stream, Answered, Passed, Lead,
         Over, Transparent, Opening, HandlerPC, CopierPC, Dir, Side, Src, Dst,
         Broken, Answer, Offer, Deliver, fixed, socket, network, copiers
<1> QED BY <1>1, <1>2, <1>3, <1>4, <1>5, <1>6 DEF Inv

\* The table entry: no chunk moves.
LEMMA RegisterInv ==
  ASSUME Inv, Register
  PROVE  Inv'
<1>1. TypeOK'
  BY ConstantsAssumption
  DEF Inv, TypeOK, InHand, HandlerPC, CopierPC, Dir, Side, MaxChunks, Register,
      Counted, fixed, socket, network, flow, copiers
<1>2. Phases'
  BY DEF Inv, TypeOK, Phases, Sockets, Opening, HandlerPC, CopierPC, Dir, Side,
         Register, Counted, fixed, socket, copiers
<1>3. Sockets'
  BY DEF Inv, TypeOK, Phases, Sockets, Opening, HandlerPC, Dir, Side, Src, Dst,
         Broken, Register, Counted, socket, network
<1>4. InHand'
  BY DEF Inv, TypeOK, Phases, InHand, Opening, HandlerPC, CopierPC, Dir, Register,
         Counted, fixed, flow, copiers
<1>5. Ends'
  BY DEF Inv, TypeOK, Phases, Ends, Dir, Side, Broken, Register, Counted, network,
         flow, copiers
<1>6. Stream'
  BY DEF Inv, TypeOK, Phases, Sockets, InHand, Stream, Answered, Passed, Lead,
         Over, Transparent, Opening, HandlerPC, CopierPC, Dir, Side, Src, Dst,
         Broken, Register, Counted, fixed, socket, network, flow, copiers
<1> QED BY <1>1, <1>2, <1>3, <1>4, <1>5, <1>6 DEF Inv

\* Each replayed chunk is the next one of "up", and the reader forgets it; one
\* that cannot be written is followed by no other, the socket stays broken.
LEMMA ReplayInv ==
  ASSUME Inv, Replay
  PROVE  Inv'
<1>1. TypeOK'
  <2>1. /\ early \in Nat /\ taken["up"] \in Nat /\ early <= taken["up"] /\ early > 0 /\ early \in 0 .. MaxUp
        /\ MaxUp \in Nat /\ count["up"] \in Nat /\ count \in [Dir -> Nat]
    BY ConstantsAssumption DEF Inv, TypeOK, InHand, Replay, Dir
  <2>2. early' \in 0 .. MaxUp /\ count' \in [Dir -> Nat]
    BY <2>1 DEF Replay, Counted
  <2>3. UNCHANGED out \/ Deliver("up", taken["up"] - early + 1)
    BY DEF Replay
  <2>4. /\ out' \in [Dir -> Seq(Nat)] /\ \A d \in Dir : read[d] <= Len(out'[d])
    <3>1. CASE UNCHANGED out
      BY <3>1 DEF Inv, TypeOK
    <3>2. CASE Deliver("up", taken["up"] - early + 1)
      <4>1. \A d \in Dir : read[d] \in Nat /\ read[d] <= Len(out[d])
        BY DEF Inv, TypeOK
      <4>2. taken["up"] - early + 1 \in Nat
        BY <2>1
      <4> QED BY <3>2, <4>1, <4>2, Delivered DEF Inv, Dir
    <3> QED BY <2>3, <3>1, <3>2
  <2> QED BY <2>2, <2>4
  DEF Inv, TypeOK, HandlerPC, Replay, fixed, socket, panel, network, flow,
      copiers, tally
<1>2. Phases'
  BY DEF Inv, TypeOK, Phases, Sockets, Opening, HandlerPC, CopierPC, Dir, Side,
         Replay, Deliver, Counted, Room, fixed, socket, panel, copiers
<1>3. Sockets'
  BY DEF Inv, TypeOK, Phases, Sockets, Opening, HandlerPC, Dir, Side, Src, Dst,
         Broken, Replay, Deliver, Counted, Room, socket, panel, network
<1>4. InHand'
  BY DEF Inv, TypeOK, Phases, InHand, Opening, HandlerPC, CopierPC, Dir, Replay,
         Deliver, Counted, Room, fixed, copiers
<1>5. Ends'
  BY DEF Inv, TypeOK, Phases, Ends, Dir, Side, Broken, Replay, Deliver, Counted,
         Room, network, copiers
<1>6. Stream'
  <2> DEFINE n == taken["up"] - early
  <2>1. /\ early \in Nat /\ taken["up"] \in Nat /\ early <= taken["up"] /\ early > 0 /\ n \in Nat
        /\ Lead("up") \in Nat /\ cp["up"] = "off" /\ cp["down"] = "off"
    BY DEF Inv, TypeOK, InHand, Phases, Opening, Replay, Dir, Lead
  <2>2. /\ UNCHANGED <<mode, route, pc, cp, taken, closed, peer>>
        /\ pc = "replay"
        /\ \/ Broken("server") /\ early' = 0 /\ UNCHANGED out
           \/ ~Broken("server") /\ Deliver("up", n + 1) /\ early' = early - 1
    BY DEF Replay, fixed, socket, panel, network, copiers
  <2>3. Broken("server") <=> Over("up")
    BY <2>2 DEF Inv, Phases, Broken, Over, Dst
  <2>4. /\ \A i \in 1 .. Len(out["up"]) : out["up"][i] = i - Lead("up")
        /\ Len(out["up"]) <= Lead("up") + n
        /\ Over("up") \/ Len(out["up"]) = Lead("up") + n
    BY <2>1, <2>2 DEF Inv, Stream, Answered, Transparent, Passed, Dir
  <2>5. /\ \A i \in 1 .. Len(out'["up"]) : out'["up"][i] = i - Lead("up")
        /\ Len(out'["up"]) <= Lead("up") + (taken["up"] - early')
        /\ Over("up") \/ Len(out'["up"]) = Lead("up") + (taken["up"] - early')
    <3>1. CASE Broken("server") /\ early' = 0 /\ UNCHANGED out
      <4>1. Len(out["up"]) \in Nat
        BY DEF Inv, TypeOK, Dir
      <4> QED BY <2>1, <2>3, <2>4, <3>1, <4>1
    <3>2. CASE ~Broken("server") /\ Deliver("up", n + 1) /\ early' = early - 1
      <4>1. /\ Len(out'["up"]) = Len(out["up"]) + 1 /\ Len(out["up"]) \in Nat
            /\ \A i \in 1 .. Len(out["up"]) : out'["up"][i] = out["up"][i]
            /\ out'["up"][Len(out["up"]) + 1] = n + 1
        BY <2>1, <3>2, Delivered DEF Inv, Dir
      <4>2. Len(out["up"]) = Lead("up") + n /\ taken["up"] - early' = n + 1
        BY <2>1, <2>3, <2>4, <3>2
      <4>3. \A i \in 1 .. Len(out["up"]) + 1 : i \in 1 .. Len(out["up"]) \/ i = Len(out["up"]) + 1
        BY <4>1
      <4> HIDE DEF n
      <4>4. ASSUME NEW i \in 1 .. Len(out["up"]) + 1
            PROVE  out'["up"][i] = i - Lead("up")
        <5>1. CASE i \in 1 .. Len(out["up"])
          BY <2>4, <4>1, <5>1
        <5>2. CASE i = Len(out["up"]) + 1
          <6>1. i = Lead("up") + (n + 1)
            BY <2>1, <4>2, <5>2
          <6>2. i - Lead("up") = n + 1
            BY <2>1, <6>1
          <6> QED BY <4>1, <5>2, <6>2
        <5> QED BY <4>3, <5>1, <5>2
      <4>5. Len(out'["up"]) = Lead("up") + (n + 1)
        BY <2>1, <4>1, <4>2
      <4> QED BY <2>1, <4>1, <4>2, <4>4, <4>5
    <3> QED BY <2>2, <3>1, <3>2
  <2>6. out'["down"] = out["down"]
    BY <2>1, <2>2, Delivered DEF Inv, Dir
  <2>7. ASSUME NEW d \in Dir, Transparent(d)
        PROVE  /\ \A i \in 1 .. Len(out'[d]) : out'[d][i] = i - Lead(d)
               /\ Len(out'[d]) <= Lead(d) + Passed(d)'
               /\ Over(d)' \/ Len(out'[d]) = Lead(d) + Passed(d)'
    <3>1. CASE d = "up"
      BY <2>1, <2>2, <2>5, <3>1 DEF Passed, Over
    <3>2. CASE d = "down"
      BY <2>1, <2>2, <2>6, <2>7, <3>2 DEF Inv, Stream, Answered, Passed, Over
    <3> QED BY <3>1, <3>2 DEF Dir
  <2> QED BY <2>1, <2>2, <2>7 DEF Stream, Answered, Transparent, Lead, Opening
<1> QED BY <1>1, <1>2, <1>3, <1>4, <1>5, <1>6 DEF Inv

\* The copiers start with nothing left in the reader.
LEMMA StartCopiersInv ==
  ASSUME Inv, StartCopiers
  PROVE  Inv'
<1>1. TypeOK'
  BY ConstantsAssumption
  DEF Inv, TypeOK, InHand, HandlerPC, CopierPC, Dir, Side, MaxChunks,
      StartCopiers, Replayed, fixed, socket, panel, network, flow, tally
<1>2. Phases'
  BY DEF Inv, TypeOK, Phases, Sockets, Opening, HandlerPC, CopierPC, Dir, Side,
         StartCopiers, Replayed, fixed, socket, panel
<1>3. Sockets'
  BY DEF Inv, TypeOK, Phases, Sockets, Opening, HandlerPC, Dir, Side, Src, Dst,
         Broken, StartCopiers, Replayed, socket, panel, network
<1>4. InHand'
  BY DEF Inv, TypeOK, Phases, InHand, Opening, HandlerPC, CopierPC, Dir,
         StartCopiers, Replayed, fixed, flow
<1>5. Ends'
  BY DEF Inv, TypeOK, Phases, Ends, Dir, Side, Broken, StartCopiers, Replayed,
         network, flow
<1>6. Stream'
  BY DEF Inv, TypeOK, Phases, Sockets, InHand, Stream, Answered, Passed, Lead,
         Over, Transparent, Opening, HandlerPC, CopierPC, Dir, Side, Src, Dst,
         Broken, StartCopiers, Replayed, fixed, socket, network, flow
<1> QED BY <1>1, <1>2, <1>3, <1>4, <1>5, <1>6 DEF Inv

\* The handler goes on when a copier is done.
LEMMA WaitInv ==
  ASSUME Inv, Wait
  PROVE  Inv'
<1>1. TypeOK'
  BY ConstantsAssumption
  DEF Inv, TypeOK, InHand, HandlerPC, CopierPC, Dir, Side, MaxChunks, Wait,
      SomeoneDone, fixed, socket, panel, network, flow, copiers, tally
<1>2. Phases'
  BY DEF Inv, TypeOK, Phases, Sockets, Opening, HandlerPC, CopierPC, Dir, Side,
         Wait, SomeoneDone, fixed, socket, panel, copiers
<1>3. Sockets'
  BY DEF Inv, TypeOK, Phases, Sockets, Opening, HandlerPC, Dir, Side, Src, Dst,
         Broken, Wait, SomeoneDone, socket, panel, network
<1>4. InHand'
  BY DEF Inv, TypeOK, Phases, InHand, Opening, HandlerPC, CopierPC, Dir, Wait,
         SomeoneDone, fixed, flow, copiers
<1>5. Ends'
  BY DEF Inv, TypeOK, Phases, Ends, Dir, Side, Broken, Wait, SomeoneDone, network,
         flow, copiers
<1>6. Stream'
  BY DEF Inv, TypeOK, Phases, Sockets, InHand, Stream, Answered, Passed, Lead,
         Over, Transparent, Opening, HandlerPC, CopierPC, Dir, Side, Src, Dst,
         Broken, Wait, SomeoneDone, fixed, socket, network, flow, copiers
<1> QED BY <1>1, <1>2, <1>3, <1>4, <1>5, <1>6 DEF Inv

\* The table entry goes.
LEMMA UnregisterInv ==
  ASSUME Inv, Unregister
  PROVE  Inv'
<1>1. TypeOK'
  BY ConstantsAssumption
  DEF Inv, TypeOK, InHand, HandlerPC, CopierPC, Dir, Side, MaxChunks, Unregister,
      fixed, socket, network, flow, copiers
<1>2. Phases'
  BY DEF Inv, TypeOK, Phases, Sockets, Opening, HandlerPC, CopierPC, Dir, Side,
         Unregister, fixed, socket, copiers
<1>3. Sockets'
  BY DEF Inv, TypeOK, Phases, Sockets, Opening, HandlerPC, Dir, Side, Src, Dst,
         Broken, Unregister, socket, network
<1>4. InHand'
  BY DEF Inv, TypeOK, Phases, InHand, Opening, HandlerPC, CopierPC, Dir,
         Unregister, fixed, flow, copiers
<1>5. Ends'
  BY DEF Inv, TypeOK, Phases, Ends, Dir, Side, Broken, Unregister, network, flow,
         copiers
<1>6. Stream'
  BY DEF Inv, TypeOK, Phases, Sockets, InHand, Stream, Answered, Passed, Lead,
         Over, Transparent, Opening, HandlerPC, CopierPC, Dir, Side, Src, Dst,
         Broken, Unregister, fixed, socket, network, flow, copiers
<1> QED BY <1>1, <1>2, <1>3, <1>4, <1>5, <1>6 DEF Inv

\* The server's socket is closed after the entry is gone.
LEMMA CloseServerInv ==
  ASSUME Inv, CloseServer
  PROVE  Inv'
<1>1. TypeOK'
  BY ConstantsAssumption
  DEF Inv, TypeOK, InHand, HandlerPC, CopierPC, Dir, Side, MaxChunks, CloseServer,
      fixed, panel, network, flow, copiers, tally
<1>2. Phases'
  BY DEF Inv, TypeOK, Phases, Sockets, Opening, HandlerPC, CopierPC, Dir, Side,
         CloseServer, fixed, panel, copiers
<1>3. Sockets'
  BY DEF Inv, TypeOK, Phases, Sockets, Opening, HandlerPC, Dir, Side, Src, Dst,
         Broken, CloseServer, panel, network
<1>4. InHand'
  BY DEF Inv, TypeOK, Phases, InHand, Opening, HandlerPC, CopierPC, Dir,
         CloseServer, fixed, flow, copiers
<1>5. Ends'
  BY DEF Inv, TypeOK, Phases, Ends, Dir, Side, Broken, CloseServer, network, flow,
         copiers
<1>6. Stream'
  BY DEF Inv, TypeOK, Phases, Sockets, InHand, Stream, Answered, Passed, Lead,
         Over, Transparent, Opening, HandlerPC, CopierPC, Dir, Side, Src, Dst,
         Broken, CloseServer, fixed, network, flow, copiers
<1> QED BY <1>1, <1>2, <1>3, <1>4, <1>5, <1>6 DEF Inv

\* The client's socket is the last.
LEMMA CloseClientInv ==
  ASSUME Inv, CloseClient
  PROVE  Inv'
<1>1. TypeOK'
  BY ConstantsAssumption
  DEF Inv, TypeOK, InHand, HandlerPC, CopierPC, Dir, Side, MaxChunks, CloseClient,
      fixed, panel, network, flow, copiers, tally
<1>2. Phases'
  BY DEF Inv, TypeOK, Phases, Sockets, Opening, HandlerPC, CopierPC, Dir, Side,
         CloseClient, fixed, panel, copiers
<1>3. Sockets'
  BY DEF Inv, TypeOK, Phases, Sockets, Opening, HandlerPC, Dir, Side, Src, Dst,
         Broken, CloseClient, panel, network
<1>4. InHand'
  BY DEF Inv, TypeOK, Phases, InHand, Opening, HandlerPC, CopierPC, Dir,
         CloseClient, fixed, flow, copiers
<1>5. Ends'
  BY DEF Inv, TypeOK, Phases, Ends, Dir, Side, Broken, CloseClient, network, flow,
         copiers
<1>6. Stream'
  BY DEF Inv, TypeOK, Phases, Sockets, InHand, Stream, Answered, Passed, Lead,
         Over, Transparent, Opening, HandlerPC, CopierPC, Dir, Side, Src, Dst,
         Broken, CloseClient, fixed, network, flow, copiers
<1> QED BY <1>1, <1>2, <1>3, <1>4, <1>5, <1>6 DEF Inv

\* The panel closes the client's socket under a running tunnel.
LEMMA PanelCloseInv ==
  ASSUME Inv, PanelClose
  PROVE  Inv'
<1>1. TypeOK'
  BY ConstantsAssumption
  DEF Inv, TypeOK, InHand, HandlerPC, CopierPC, Dir, Side, MaxChunks, PanelClose,
      fixed, network, flow, copiers, tally
<1>2. Phases'
  BY DEF Inv, TypeOK, Phases, Sockets, Opening, HandlerPC, CopierPC, Dir, Side,
         PanelClose, fixed, copiers
<1>3. Sockets'
  BY DEF Inv, TypeOK, Phases, Sockets, Opening, HandlerPC, Dir, Side, Src, Dst,
         Broken, PanelClose, network
<1>4. InHand'
  BY DEF Inv, TypeOK, Phases, InHand, Opening, HandlerPC, CopierPC, Dir,
         PanelClose, fixed, flow, copiers
<1>5. Ends'
  BY DEF Inv, TypeOK, Phases, Ends, Dir, Side, Broken, PanelClose, network, flow,
         copiers
<1>6. Stream'
  BY DEF Inv, TypeOK, Phases, Sockets, InHand, Stream, Answered, Passed, Lead,
         Over, Transparent, Opening, HandlerPC, CopierPC, Dir, Side, Src, Dst,
         Broken, PanelClose, fixed, network, flow, copiers
<1> QED BY <1>1, <1>2, <1>3, <1>4, <1>5, <1>6 DEF Inv

\* A copier reads a chunk it has not written yet.
LEMMA ReadInv ==
  ASSUME Inv, NEW d \in Dir, Read(d)
  PROVE  Inv'
<1>1. TypeOK'
  <2>1. /\ taken \in [Dir -> Nat] /\ sent \in [Dir -> Nat] /\ taken[d] < sent[d]
        /\ \A e \in Dir : taken[e] <= sent[e]
    BY DEF Inv, TypeOK, Read, Pending
  <2>2. taken' \in [Dir -> Nat] /\ \A e \in Dir : taken'[e] <= sent[e]
    BY <2>1 DEF Read
  <2> QED BY <2>2
  DEF Inv, TypeOK, CopierPC, Read, fixed, socket, panel, network, copiers, tally
<1>2. Phases'
  BY DEF Inv, TypeOK, Phases, Sockets, Opening, HandlerPC, CopierPC, Dir, Side,
         Src, Read, Pending, fixed, socket, panel
<1>3. Sockets'
  BY DEF Inv, TypeOK, Phases, Sockets, Opening, HandlerPC, Dir, Side, Src, Dst,
         Broken, Read, Pending, socket, panel, network
<1>4. InHand'
  BY DEF Inv, TypeOK, Phases, InHand, Opening, HandlerPC, CopierPC, Dir, Read,
         Pending, fixed
<1>5. Ends'
  BY DEF Inv, TypeOK, Phases, Ends, Dir, Src, Side, Broken, Read, Pending, network
<1>6. Stream'
  <2>1. /\ UNCHANGED <<mode, route, pc, out, early, closed, peer>>
        /\ cp["up"] # "off" /\ cp'["up"] # "off"
    BY DEF Inv, TypeOK, Phases, Read, Dir, fixed, socket, panel, network, flow
  <2>2. ASSUME NEW e \in Dir
        PROVE  /\ Passed(e) \in Nat /\ Passed(e)' \in Nat
               /\ Passed(e)' = Passed(e) \/ (Over(e)' /\ Passed(e)' >= Passed(e))
    <3>1. /\ taken \in [Dir -> Nat] /\ cp \in [Dir -> CopierPC]
          /\ cp[d] = "read" /\ cp' = [cp EXCEPT ![d] = "count_read"]
          /\ taken' = [taken EXCEPT ![d] = @ + 1]
      BY DEF Inv, TypeOK, Read
    <3>2. Passed(e) \in Nat
      BY Passing DEF Inv
    <3>3. CASE e # d
      <4>1. cp'[e] = cp[e] /\ taken'[e] = taken[e]
        BY <3>1, <3>3
      <4>2. cp["up"] # "off" => cp["down"] # "off"
        BY DEF Inv, Phases
      <4> QED BY <2>1, <3>2, <4>1, <4>2 DEF Passed, Dir
    <3>4. CASE e = d
      <4>1. cp'[e] = "count_read" /\ taken'[e] = taken[e] + 1 /\ taken[e] \in Nat
        BY <3>1, <3>4
      <4> QED BY <3>1, <3>2, <3>4, <4>1 DEF Passed
    <3> QED BY <3>3, <3>4
  <2>3. \A e \in Dir : Over(e) => Over(e)'
    BY <2>1 DEF Over
  <2>4. pc' \notin Opening
    BY <2>1 DEF Inv, Phases
  <2>5. Stream
    BY DEF Inv
  <2> QED BY <2>1, <2>2, <2>3, <2>4, <2>5, StreamStays
<1> QED BY <1>1, <1>2, <1>3, <1>4, <1>5, <1>6 DEF Inv

\* A copier that meets the end of the stream has read all of it.
LEMMA ReadEndsInv ==
  ASSUME Inv, NEW d \in Dir, ReadEnds(d)
  PROVE  Inv'
<1>1. TypeOK'
  BY ConstantsAssumption
  DEF Inv, TypeOK, InHand, HandlerPC, CopierPC, Dir, Side, Src, MaxChunks,
      ReadEnds, Finish, AtEof, Pending, fixed, socket, panel, network, flow, tally
<1>2. Phases'
  BY DEF Inv, TypeOK, Phases, Sockets, Opening, HandlerPC, CopierPC, Dir, Side,
         Src, ReadEnds, Finish, AtEof, Pending, fixed, socket, panel
<1>3. Sockets'
  BY DEF Inv, TypeOK, Phases, Sockets, Opening, HandlerPC, Dir, Side, Src, Dst,
         Broken, ReadEnds, Finish, AtEof, Pending, socket, panel, network
<1>4. InHand'
  BY DEF Inv, TypeOK, Phases, InHand, Opening, HandlerPC, CopierPC, Dir, ReadEnds,
         Finish, AtEof, Pending, fixed, flow
<1>5. Ends'
  BY DEF Inv, TypeOK, Phases, Ends, Dir, Src, Side, Broken, ReadEnds, Finish,
         AtEof, Pending, network, flow
<1>6. Stream'
  <2>1. /\ UNCHANGED <<mode, route, pc, out, early, closed, peer>>
        /\ cp["up"] # "off" /\ cp'["up"] # "off"
    BY DEF Inv, TypeOK, Phases, ReadEnds, Finish, Dir, fixed, socket, panel,
           network, flow
  <2>2. ASSUME NEW e \in Dir
        PROVE  /\ Passed(e) \in Nat /\ Passed(e)' \in Nat
               /\ Passed(e)' = Passed(e) \/ (Over(e)' /\ Passed(e)' >= Passed(e))
    BY <2>1 DEF Inv, TypeOK, InHand, Phases, Passed, Dir, ReadEnds, Finish, flow
  <2>3. \A e \in Dir : Over(e) => Over(e)'
    BY <2>1 DEF Over
  <2>4. pc' \notin Opening
    BY <2>1 DEF Inv, Phases
  <2>5. Stream
    BY DEF Inv
  <2> QED BY <2>1, <2>2, <2>3, <2>4, <2>5, StreamStays
<1> QED BY <1>1, <1>2, <1>3, <1>4, <1>5, <1>6 DEF Inv

\* Counting what was read moves no chunk.
LEMMA CountReadInv ==
  ASSUME Inv, NEW d \in Dir, CountRead(d)
  PROVE  Inv'
<1>1. TypeOK'
  BY ConstantsAssumption
  DEF Inv, TypeOK, InHand, HandlerPC, CopierPC, Dir, Side, MaxChunks, CountRead,
      Counted, fixed, socket, panel, network, flow
<1>2. Phases'
  BY DEF Inv, TypeOK, Phases, Sockets, Opening, HandlerPC, CopierPC, Dir, Side,
         CountRead, Counted, fixed, socket, panel
<1>3. Sockets'
  BY DEF Inv, TypeOK, Phases, Sockets, Opening, HandlerPC, Dir, Side, Src, Dst,
         Broken, CountRead, Counted, socket, panel, network
<1>4. InHand'
  BY DEF Inv, TypeOK, Phases, InHand, Opening, HandlerPC, CopierPC, Dir,
         CountRead, Counted, fixed, flow
<1>5. Ends'
  BY DEF Inv, TypeOK, Phases, Ends, Dir, Side, Broken, CountRead, Counted,
         network, flow
<1>6. Stream'
  <2>1. /\ UNCHANGED <<mode, route, pc, out, early, closed, peer>>
        /\ cp["up"] # "off" /\ cp'["up"] # "off"
    BY DEF Inv, TypeOK, Phases, CountRead, Dir, fixed, socket, panel, network, flow
  <2>2. ASSUME NEW e \in Dir
        PROVE  /\ Passed(e) \in Nat /\ Passed(e)' \in Nat
               /\ Passed(e)' = Passed(e) \/ (Over(e)' /\ Passed(e)' >= Passed(e))
    BY <2>1 DEF Inv, TypeOK, InHand, Phases, Passed, Dir, CountRead, flow
  <2>3. \A e \in Dir : Over(e) => Over(e)'
    BY <2>1 DEF Over
  <2>4. pc' \notin Opening
    BY <2>1 DEF Inv, Phases
  <2>5. Stream
    BY DEF Inv
  <2> QED BY <2>1, <2>2, <2>3, <2>4, <2>5, StreamStays
<1> QED BY <1>1, <1>2, <1>3, <1>4, <1>5, <1>6 DEF Inv

\* A copier writes the chunk it has read last.
LEMMA WriteInv ==
  ASSUME Inv, NEW d \in Dir, Write(d)
  PROVE  Inv'
<1>1. TypeOK'
  <2>1. Deliver(d, taken[d]) /\ taken[d] \in Nat
    BY DEF Inv, TypeOK, Write
  <2>2. \A e \in Dir : read[e] \in Nat /\ read[e] <= Len(out[e])
    BY DEF Inv, TypeOK
  <2>3. /\ out' \in [Dir -> Seq(Nat)] /\ \A e \in Dir : read[e] <= Len(out'[e])
    BY <2>1, <2>2, Delivered DEF Inv
  <2> QED BY <2>3
  DEF Inv, TypeOK, CopierPC, Write, fixed, socket, panel, network, tally
<1>2. Phases'
  BY DEF Inv, TypeOK, Phases, Sockets, Opening, HandlerPC, CopierPC, Dir, Side,
         Dst, Write, Deliver, Room, fixed, socket, panel
<1>3. Sockets'
  BY DEF Inv, TypeOK, Phases, Sockets, Opening, HandlerPC, Dir, Side, Src, Dst,
         Broken, Write, Deliver, Room, socket, panel, network
<1>4. InHand'
  BY DEF Inv, TypeOK, Phases, InHand, Opening, HandlerPC, CopierPC, Dir, Write,
         Deliver, Room, fixed
<1>5. Ends'
  BY DEF Inv, TypeOK, Phases, Ends, Dir, Dst, Side, Broken, Write, Deliver, Room,
         network
<1>6. Stream'
  <2>1. /\ UNCHANGED <<mode, route, pc, taken, early, closed, peer>>
        /\ cp[d] = "write" /\ cp' = [cp EXCEPT ![d] = "count_write"]
        /\ ~Broken(Dst(d)) /\ Deliver(d, taken[d])
    BY DEF Write, fixed, socket, panel, network
  <2>2. /\ cp["up"] # "off" /\ cp'["up"] # "off" /\ pc \notin Opening
        /\ taken[d] \in Nat /\ taken[d] > 0 /\ cp'[d] = "count_write"
        /\ \A e \in Dir : e # d => cp'[e] = cp[e]
    BY <2>1 DEF Inv, TypeOK, Phases, InHand, Opening, Dir
  <2>3. ~ Over(d) /\ \A e \in Dir : Over(e)' <=> Over(e)
    BY <2>1 DEF Broken, Over
  <2>4. ASSUME NEW e \in Dir, Transparent(e)
        PROVE  /\ \A i \in 1 .. Len(out'[e]) : out'[e][i] = i - Lead(e)
               /\ Len(out'[e]) <= Lead(e) + Passed(e)'
               /\ Over(e)' \/ Len(out'[e]) = Lead(e) + Passed(e)'
    <3>1. /\ \A i \in 1 .. Len(out[e]) : out[e][i] = i - Lead(e)
          /\ Len(out[e]) <= Lead(e) + Passed(e)
          /\ Over(e) \/ Len(out[e]) = Lead(e) + Passed(e)
      BY <2>2, <2>4 DEF Inv, Stream, Answered
    <3>2. CASE e # d
      <4>1. out'[e] = out[e]
        BY <2>1, <2>2, <3>2, Delivered DEF Inv
      <4>2. Passed(e)' = Passed(e)
        BY <2>1, <2>2, <3>2 DEF Passed
      <4> QED BY <2>3, <3>1, <4>1, <4>2
    <3>3. CASE e = d
      <4>1. Passed(d) = taken[d] - 1 /\ Passed(d)' = taken[d] /\ Lead(d) \in Nat
        BY <2>1, <2>2 DEF Passed, Lead
      <4>2. Len(out[d]) = Lead(d) + (taken[d] - 1)
        BY <2>3, <3>1, <3>3, <4>1
      <4>3. /\ Len(out'[d]) = Len(out[d]) + 1 /\ Len(out[d]) \in Nat
            /\ \A i \in 1 .. Len(out[d]) : out'[d][i] = out[d][i]
            /\ out'[d][Len(out[d]) + 1] = taken[d]
        BY <2>1, <2>2, Delivered DEF Inv
      <4>4. \A i \in 1 .. Len(out[d]) + 1 : i \in 1 .. Len(out[d]) \/ i = Len(out[d]) + 1
        BY <4>3
      <4>5. Len(out'[d]) = Lead(d) + taken[d]
        BY <2>2, <4>1, <4>2, <4>3
      <4>6. ASSUME NEW i \in 1 .. Len(out[d]) + 1
            PROVE  out'[d][i] = i - Lead(d)
        <5>1. CASE i \in 1 .. Len(out[d])
          BY <3>1, <3>3, <4>3, <5>1
        <5>2. CASE i = Len(out[d]) + 1
          <6>1. i = Lead(d) + taken[d]
            BY <2>2, <4>1, <4>2, <5>2
          <6>2. i - Lead(d) = taken[d]
            BY <2>2, <4>1, <6>1
          <6> QED BY <4>3, <5>2, <6>2
        <5> QED BY <4>4, <5>1, <5>2
      <4> QED BY <2>2, <3>3, <4>1, <4>3, <4>5, <4>6
    <3> QED BY <3>2, <3>3
  <2>5. \A e \in Dir : Lead(e)' = Lead(e) /\ (Transparent(e)' <=> Transparent(e))
    BY <2>1 DEF Lead, Transparent
  <2> QED BY <2>1, <2>2, <2>4, <2>5 DEF Stream, Answered
<1> QED BY <1>1, <1>2, <1>3, <1>4, <1>5, <1>6 DEF Inv

\* A chunk is lost only to a side that takes no more.
LEMMA WriteFailsInv ==
  ASSUME Inv, NEW d \in Dir, WriteFails(d)
  PROVE  Inv'
<1>1. TypeOK'
  BY ConstantsAssumption
  DEF Inv, TypeOK, InHand, HandlerPC, CopierPC, Dir, Side, Dst, MaxChunks,
      WriteFails, Finish, fixed, socket, panel, network, flow, tally
<1>2. Phases'
  BY DEF Inv, TypeOK, Phases, Sockets, Opening, HandlerPC, CopierPC, Dir, Side,
         Dst, WriteFails, Finish, fixed, socket, panel
<1>3. Sockets'
  BY DEF Inv, TypeOK, Phases, Sockets, Opening, HandlerPC, Dir, Side, Src, Dst,
         Broken, WriteFails, Finish, socket, panel, network
<1>4. InHand'
  BY DEF Inv, TypeOK, Phases, InHand, Opening, HandlerPC, CopierPC, Dir,
         WriteFails, Finish, fixed, flow
<1>5. Ends'
  BY DEF Inv, TypeOK, Phases, Ends, Dir, Dst, Side, Broken, WriteFails, Finish,
         network, flow
<1>6. Stream'
  <2>1. /\ UNCHANGED <<mode, route, pc, out, early, closed, peer>>
        /\ cp["up"] # "off" /\ cp'["up"] # "off"
    BY DEF Inv, TypeOK, Phases, WriteFails, Finish, Dir, fixed, socket, panel,
           network, flow
  <2>2. ASSUME NEW e \in Dir
        PROVE  /\ Passed(e) \in Nat /\ Passed(e)' \in Nat
               /\ Passed(e)' = Passed(e) \/ (Over(e)' /\ Passed(e)' >= Passed(e))
    <3>1. /\ taken' = taken /\ taken \in [Dir -> Nat] /\ cp \in [Dir -> CopierPC]
          /\ cp[d] = "write" /\ cp' = [cp EXCEPT ![d] = "done"] /\ taken[d] > 0
          /\ Broken(Dst(d))
      BY DEF Inv, TypeOK, InHand, WriteFails, Finish, flow
    <3>2. Passed(e) \in Nat
      BY Passing DEF Inv
    <3>3. CASE e # d
      <4>1. cp'[e] = cp[e]
        BY <3>1, <3>3
      <4> QED BY <2>1, <3>1, <3>2, <4>1 DEF Passed
    <3>4. CASE e = d
      <4>1. cp'[e] = "done" /\ Passed(e) = taken[e] - 1 /\ Passed(e)' = taken[e] /\ taken[e] \in Nat
        BY <3>1, <3>4 DEF Passed
      <4>2. Over(d)'
        <5>1. deadline => closed["server"]
          BY <2>1 DEF Inv, Phases, Opening
        <5> QED BY <2>1, <3>1, <5>1 DEF Broken, Over, Dst
      <4> QED BY <3>1, <3>4, <4>1, <4>2
    <3> QED BY <3>3, <3>4
  <2>3. \A e \in Dir : Over(e) => Over(e)'
    BY <2>1 DEF Over
  <2>4. pc' \notin Opening
    BY <2>1 DEF Inv, Phases
  <2>5. Stream
    BY DEF Inv
  <2> QED BY <2>1, <2>2, <2>3, <2>4, <2>5, StreamStays
<1> QED BY <1>1, <1>2, <1>3, <1>4, <1>5, <1>6 DEF Inv

\* Counting what was written moves no chunk.
LEMMA CountWriteInv ==
  ASSUME Inv, NEW d \in Dir, CountWrite(d)
  PROVE  Inv'
<1>1. TypeOK'
  BY ConstantsAssumption
  DEF Inv, TypeOK, InHand, HandlerPC, CopierPC, Dir, Side, MaxChunks, CountWrite,
      Counted, fixed, socket, panel, network, flow
<1>2. Phases'
  BY DEF Inv, TypeOK, Phases, Sockets, Opening, HandlerPC, CopierPC, Dir, Side,
         CountWrite, Counted, fixed, socket, panel
<1>3. Sockets'
  BY DEF Inv, TypeOK, Phases, Sockets, Opening, HandlerPC, Dir, Side, Src, Dst,
         Broken, CountWrite, Counted, socket, panel, network
<1>4. InHand'
  BY DEF Inv, TypeOK, Phases, InHand, Opening, HandlerPC, CopierPC, Dir,
         CountWrite, Counted, fixed, flow
<1>5. Ends'
  BY DEF Inv, TypeOK, Phases, Ends, Dir, Side, Broken, CountWrite, Counted,
         network, flow
<1>6. Stream'
  <2>1. /\ UNCHANGED <<mode, route, pc, out, early, closed, peer>>
        /\ cp["up"] # "off" /\ cp'["up"] # "off"
    BY DEF Inv, TypeOK, Phases, CountWrite, Dir, fixed, socket, panel, network, flow
  <2>2. ASSUME NEW e \in Dir
        PROVE  /\ Passed(e) \in Nat /\ Passed(e)' \in Nat
               /\ Passed(e)' = Passed(e) \/ (Over(e)' /\ Passed(e)' >= Passed(e))
    BY <2>1 DEF Inv, TypeOK, InHand, Phases, Passed, Dir, CountWrite, flow
  <2>3. \A e \in Dir : Over(e) => Over(e)'
    BY <2>1 DEF Over
  <2>4. pc' \notin Opening
    BY <2>1 DEF Inv, Phases
  <2>5. Stream
    BY DEF Inv
  <2> QED BY <2>1, <2>2, <2>3, <2>4, <2>5, StreamStays
<1> QED BY <1>1, <1>2, <1>3, <1>4, <1>5, <1>6 DEF Inv

\* A source sends before it has ended its stream only.
LEMMA SendInv ==
  ASSUME Inv, NEW d \in Dir, Send(d)
  PROVE  Inv'
<1>1. TypeOK'
  BY ConstantsAssumption
  DEF Inv, TypeOK, InHand, HandlerPC, CopierPC, Dir, Side, Src, MaxChunks, Send,
      proxy, fixed, socket, panel, flow, copiers, tally
<1>2. Phases'
  BY DEF Inv, TypeOK, Phases, Sockets, Opening, HandlerPC, CopierPC, Dir, Side,
         Src, Send, proxy, fixed, socket, panel, copiers
<1>3. Sockets'
  BY DEF Inv, TypeOK, Phases, Sockets, Opening, HandlerPC, Dir, Side, Src, Dst,
         Broken, Send, proxy, socket, panel
<1>4. InHand'
  BY DEF Inv, TypeOK, Phases, InHand, Opening, HandlerPC, CopierPC, Dir, Send,
         proxy, fixed, flow, copiers
<1>5. Ends'
  BY DEF Inv, TypeOK, Phases, Ends, Dir, Src, Side, Broken, Send, proxy, flow,
         copiers
<1>6. Stream'
  BY DEF Inv, TypeOK, Phases, Sockets, InHand, Stream, Answered, Passed, Lead,
         Over, Transparent, Opening, HandlerPC, CopierPC, Dir, Side, Src, Dst,
         Broken, Send, proxy, fixed, socket, flow, copiers
<1> QED BY <1>1, <1>2, <1>3, <1>4, <1>5, <1>6 DEF Inv

\* A source that ends its stream.
LEMMA HalfCloseInv ==
  ASSUME Inv, NEW d \in Dir, HalfClose(d)
  PROVE  Inv'
<1>1. TypeOK'
  BY ConstantsAssumption
  DEF Inv, TypeOK, InHand, HandlerPC, CopierPC, Dir, Side, Src, MaxChunks,
      HalfClose, proxy, fixed, socket, panel, flow, copiers, tally
<1>2. Phases'
  BY DEF Inv, TypeOK, Phases, Sockets, Opening, HandlerPC, CopierPC, Dir, Side,
         Src, HalfClose, proxy, fixed, socket, panel, copiers
<1>3. Sockets'
  BY DEF Inv, TypeOK, Phases, Sockets, Opening, HandlerPC, Dir, Side, Src, Dst,
         Broken, HalfClose, proxy, socket, panel
<1>4. InHand'
  BY DEF Inv, TypeOK, Phases, InHand, Opening, HandlerPC, CopierPC, Dir,
         HalfClose, proxy, fixed, flow, copiers
<1>5. Ends'
  BY DEF Inv, TypeOK, Phases, Ends, Dir, Src, Side, Broken, HalfClose, proxy,
         flow, copiers
<1>6. Stream'
  BY DEF Inv, TypeOK, Phases, Sockets, InHand, Stream, Answered, Passed, Lead,
         Over, Transparent, Opening, HandlerPC, CopierPC, Dir, Side, Src, Dst,
         Broken, HalfClose, proxy, fixed, socket, flow, copiers
<1> QED BY <1>1, <1>2, <1>3, <1>4, <1>5, <1>6 DEF Inv

\* A side reads what was written to it.
LEMMA ReceiveInv ==
  ASSUME Inv, NEW d \in Dir, Receive(d)
  PROVE  Inv'
<1>1. TypeOK'
  <2>1. /\ read' \in [Dir -> Nat] /\ read'[d] = read[d] + 1
        /\ \A e \in Dir : e # d => read'[e] = read[e]
        /\ \A e \in Dir : Len(out[e]) \in Nat
    BY DEF Inv, TypeOK, Receive
  <2>2. \A e \in Dir : read'[e] <= Len(out[e])
    BY <2>1 DEF Inv, TypeOK, Receive
  <2> QED BY <2>1, <2>2
  DEF Inv, TypeOK, Receive, proxy, fixed, socket, panel, flow, copiers, tally
<1>2. Phases'
  BY DEF Inv, TypeOK, Phases, Sockets, Opening, HandlerPC, CopierPC, Dir, Side,
         Dst, Receive, proxy, fixed, socket, panel, copiers
<1>3. Sockets'
  BY DEF Inv, TypeOK, Phases, Sockets, Opening, HandlerPC, Dir, Side, Src, Dst,
         Broken, Receive, proxy, socket, panel
<1>4. InHand'
  BY DEF Inv, TypeOK, Phases, InHand, Opening, HandlerPC, CopierPC, Dir, Receive,
         proxy, fixed, flow, copiers
<1>5. Ends'
  BY DEF Inv, TypeOK, Phases, Ends, Dir, Dst, Side, Broken, Receive, proxy, flow,
         copiers
<1>6. Stream'
  BY DEF Inv, TypeOK, Phases, Sockets, InHand, Stream, Answered, Passed, Lead,
         Over, Transparent, Opening, HandlerPC, CopierPC, Dir, Side, Src, Dst,
         Broken, Receive, proxy, fixed, socket, flow, copiers
<1> QED BY <1>1, <1>2, <1>3, <1>4, <1>5, <1>6 DEF Inv

\* A side that closes ends its stream.
LEMMA CloseInv ==
  ASSUME Inv, NEW s \in Side, Close(s)
  PROVE  Inv'
<1>1. TypeOK'
  BY ConstantsAssumption
  DEF Inv, TypeOK, InHand, HandlerPC, CopierPC, Dir, Side, Src, MaxChunks, Close,
      proxy, fixed, socket, panel, flow, copiers, tally
<1>2. Phases'
  BY DEF Inv, TypeOK, Phases, Sockets, Opening, HandlerPC, CopierPC, Dir, Side,
         Src, Close, proxy, fixed, socket, panel, copiers
<1>3. Sockets'
  BY DEF Inv, TypeOK, Phases, Sockets, Opening, HandlerPC, Dir, Side, Src, Dst,
         Broken, Close, proxy, socket, panel
<1>4. InHand'
  BY DEF Inv, TypeOK, Phases, InHand, Opening, HandlerPC, CopierPC, Dir, Close,
         proxy, fixed, flow, copiers
<1>5. Ends'
  BY DEF Inv, TypeOK, Phases, Ends, Dir, Src, Side, Broken, Close, proxy, flow,
         copiers
<1>6. Stream'
  BY DEF Inv, TypeOK, Phases, Sockets, InHand, Stream, Answered, Passed, Lead,
         Over, Transparent, Opening, HandlerPC, CopierPC, Dir, Side, Src, Dst,
         Broken, Close, proxy, fixed, socket, flow, copiers
<1> QED BY <1>1, <1>2, <1>3, <1>4, <1>5, <1>6 DEF Inv

\* Only a side that has closed resets.
LEMMA ResetInv ==
  ASSUME Inv, NEW s \in Side, Reset(s)
  PROVE  Inv'
<1>1. TypeOK'
  BY ConstantsAssumption
  DEF Inv, TypeOK, InHand, HandlerPC, CopierPC, Dir, Side, MaxChunks, Reset,
      proxy, fixed, socket, panel, flow, copiers, tally
<1>2. Phases'
  BY DEF Inv, TypeOK, Phases, Sockets, Opening, HandlerPC, CopierPC, Dir, Side,
         Reset, proxy, fixed, socket, panel, copiers
<1>3. Sockets'
  BY DEF Inv, TypeOK, Phases, Sockets, Opening, HandlerPC, Dir, Side, Src, Dst,
         Broken, Reset, proxy, socket, panel
<1>4. InHand'
  BY DEF Inv, TypeOK, Phases, InHand, Opening, HandlerPC, CopierPC, Dir, Reset,
         proxy, fixed, flow, copiers
<1>5. Ends'
  BY DEF Inv, TypeOK, Phases, Ends, Dir, Side, Broken, Reset, proxy, flow, copiers
<1>6. Stream'
  BY DEF Inv, TypeOK, Phases, Sockets, InHand, Stream, Answered, Passed, Lead,
         Over, Transparent, Opening, HandlerPC, CopierPC, Dir, Side, Src, Dst,
         Broken, Reset, proxy, fixed, socket, flow, copiers
<1> QED BY <1>1, <1>2, <1>3, <1>4, <1>5, <1>6 DEF Inv

\* The empty sequence is a prefix of every sequence.
LEMMA EmptyPrefix ==
  ASSUME NEW s \in Seq(Nat), NEW t \in Seq(Nat), Len(s) = 0
  PROVE  IsPrefix(s, t)
<1>1. SubSeq(s, 1, Len(s)) = <<>> /\ SubSeq(t, 1, Len(s)) = <<>>
  OBVIOUS
<1> QED BY <1>1 DEF IsPrefix

\* Sequences with equal elements are equal.
LEMMA SeqEqual ==
  ASSUME NEW s \in Seq(Nat), NEW t \in Seq(Nat), Len(s) = Len(t),
         \A i \in 1 .. Len(s) : s[i] = t[i]
  PROVE  s = t
OBVIOUS

\* A connection starts with nothing read and nothing written.
LEMMA InvInit == Init => Inv
<1> SUFFICES ASSUME Init PROVE Inv
  OBVIOUS
<1>1. TypeOK
  <2>1. /\ mode \in Modes /\ route \in Routes /\ pc \in HandlerPC
        /\ {deadline, live, cut} \subseteq BOOLEAN
        /\ closed \in [Side -> BOOLEAN]
        /\ peer \in [Side -> {"none", "open", "closed", "reset"}]
        /\ fin \in [Dir -> BOOLEAN]
        /\ cp \in [Dir -> CopierPC]
        /\ end \in [Dir -> {"none", "eof", "error"}]
    BY DEF Init, HandlerPC, CopierPC
  <2>2. early \in 0 .. MaxUp
    BY ConstantsAssumption DEF Init
  <2>3. Zero \in [Dir -> Nat] /\ \A d \in Dir : Zero[d] = 0
    BY DEF Zero
  <2>4. \A d \in Dir : sent[d] = 0 /\ taken[d] = 0 /\ MaxChunks(d) \in Nat
    BY <2>3, ConstantsAssumption DEF Init, MaxChunks
  <2>5. out \in [Dir -> Seq(Nat)] /\ \A d \in Dir : Len(out[d]) = 0
    BY DEF Init
  <2>6. \A d \in Dir : read[d] <= Len(out[d])
    BY <2>3, <2>5 DEF Init
  <2> QED BY <2>1, <2>2, <2>3, <2>4, <2>5, <2>6 DEF Init, TypeOK
<1>2. Phases /\ Sockets
  BY DEF Init, Phases, Sockets, Opening, Dir, Side, Src
<1>3. InHand /\ Ends
  BY DEF Init, InHand, Ends, Opening, Dir, Zero
<1>4. Stream
  BY DEF Init, Stream, Answered, Opening, Dir
<1> QED BY <1>1, <1>2, <1>3, <1>4 DEF Inv

\* Every step of the handler, the copiers, the peers and the panel keeps Inv.
LEMMA InvStep == Inv /\ [Next]_vars => Inv'
<1> SUFFICES ASSUME Inv, [Next]_vars PROVE Inv'
  OBVIOUS
<1>1. CASE Handler
  BY <1>1, HandshakeFailsInv, RefuseInv, DialInv, DialFailsInv, UpstreamAnswersInv,
     UpstreamFailsInv, AnswerInv, RegisterInv, ReplayInv, StartCopiersInv, WaitInv,
     UnregisterInv, CloseServerInv, CloseClientInv DEF Handler
<1>2. ASSUME NEW d \in Dir, Copier(d) PROVE Inv'
  BY <1>2, ReadInv, ReadEndsInv, CountReadInv, WriteInv, WriteFailsInv,
       CountWriteInv
  DEF Copier
<1>3. CASE Peer
  BY <1>3, SendInv, HalfCloseInv, ReceiveInv, CloseInv, ResetInv DEF Peer
<1>4. CASE UNCHANGED vars
  <2>1. TypeOK'
    BY <1>4 DEF vars, Inv, TypeOK
  <2>2. Phases' /\ Sockets' /\ InHand' /\ Ends'
    BY <1>4 DEF vars, Inv, Phases, Sockets, InHand, Ends
  <2>3. \A d \in Dir : /\ Lead(d)' = Lead(d) /\ Passed(d)' = Passed(d)
                       /\ Over(d)' = Over(d) /\ Transparent(d)' = Transparent(d)
    BY <1>4 DEF vars, Lead, Passed, Over, Transparent
  <2>4. Stream'
    BY <1>4, <2>3 DEF vars, Inv, Stream, Answered
  <2> QED BY <2>1, <2>2, <2>4 DEF Inv
<1> QED BY <1>1, <1>2, <1>3, <1>4, HandshakeInv, PanelCloseInv DEF Next

\* Inv holds in every reachable state.
LEMMA Invariance == Spec => []Inv
BY InvInit, InvStep, PTL DEF Spec

\* Typing.  Every variable keeps its type, and no chunk is read that was not sent
\* nor received that was not written, for any number of chunks and window.
THEOREM Typing == Spec => []TypeOK
<1>1. Inv => TypeOK
  BY DEF Inv
<1> QED BY <1>1, Invariance, PTL

\* A promise is the own chunk, if there is one, and then the chunks in order.
LEMMA Promised ==
  ASSUME TypeOK, NEW d \in Dir, OwnChunk(d) <=> Lead(d) = 1
  PROVE  /\ Promise(d) \in Seq(Nat)
         /\ Len(Promise(d)) = Lead(d) + sent[d]
         /\ \A i \in 1 .. Len(Promise(d)) : Promise(d)[i] = i - Lead(d)
<1> DEFINE chunks == [i \in 1 .. sent[d] |-> i]
<1>1. sent[d] \in Nat
  BY DEF TypeOK
<1>2. chunks \in Seq(Nat) /\ Len(chunks) = sent[d]
  BY <1>1
<1>3. Lead(d) = 0 \/ Lead(d) = 1
  BY DEF Lead
<1>4. CASE Lead(d) = 1
  <2>1. Promise(d) = <<0>> \o chunks
    BY <1>4 DEF Promise
  <2>2. Promise(d) \in Seq(Nat) /\ Len(Promise(d)) = 1 + sent[d]
    BY <2>1, <1>1, <1>2
  <2>3. \A i \in 1 .. 1 + sent[d] : Promise(d)[i] = i - 1
    BY <2>1, <1>1, <1>2
  <2> QED BY <2>2, <2>3, <1>4
<1>5. CASE Lead(d) = 0
  <2>1. Promise(d) = <<>> \o chunks
    BY <1>5 DEF Promise
  <2>2. Promise(d) \in Seq(Nat) /\ Len(Promise(d)) = sent[d]
    BY <2>1, <1>1, <1>2
  <2>3. \A i \in 1 .. sent[d] : Promise(d)[i] = i
    BY <2>1, <1>1, <1>2
  <2> QED BY <2>2, <2>3, <1>5, <1>1
<1> QED BY <1>3, <1>4, <1>5

\* A promise is a sequence of chunks.
LEMMA PromiseType ==
  ASSUME TypeOK, NEW d \in Dir
  PROVE  Promise(d) \in Seq(Nat)
<1> DEFINE chunks == [i \in 1 .. sent[d] |-> i]
<1>1. chunks \in Seq(Nat)
  BY DEF TypeOK
<1> HIDE DEF chunks
<1>2. <<0>> \o chunks \in Seq(Nat) /\ <<>> \o chunks \in Seq(Nat)
  BY <1>1
<1> QED BY <1>2 DEF Promise, chunks

\* Once the copiers run, the own chunk that is promised is the one that leads.
LEMMA Owned ==
  ASSUME Inv, NEW d \in Dir, cp["up"] # "off"
  PROVE  OwnChunk(d) <=> Lead(d) = 1
BY DEF Inv, Phases, OwnChunk, Lead, Dir

\* What Inv says of a direction makes what was written a prefix of the promise.
LEMMA StreamIsPrefix ==
  ASSUME Inv, NEW d \in Dir, Transparent(d)
  PROVE  IsPrefix(out[d], Promise(d))
<1>1. TypeOK /\ out[d] \in Seq(Nat) /\ sent[d] \in Nat /\ taken[d] \in Nat /\ taken[d] <= sent[d]
  BY DEF Inv, TypeOK
<1>2. Lead(d) \in Nat /\ Passed(d) \in Nat /\ Passed(d) <= taken[d]
  <2>1. early \in Nat /\ early <= taken["up"] /\ cp[d] \in CopierPC
    BY ConstantsAssumption DEF Inv, InHand, TypeOK
  <2>2. cp[d] \in {"count_read", "write", "count_write"} => taken[d] > 0
    BY DEF Inv, InHand
  <2>3. d = "up" \/ d = "down"
    BY DEF Dir
  <2> QED BY <1>1, <2>1, <2>2, <2>3 DEF Passed, Lead
<1>3. ASSUME OwnChunk(d) <=> Lead(d) = 1,
             \A i \in 1 .. Len(out[d]) : out[d][i] = i - Lead(d),
             Len(out[d]) <= Lead(d) + sent[d]
      PROVE  IsPrefix(out[d], Promise(d))
  <2>1. /\ Promise(d) \in Seq(Nat)
        /\ Len(Promise(d)) = Lead(d) + sent[d]
        /\ \A i \in 1 .. Len(Promise(d)) : Promise(d)[i] = i - Lead(d)
    BY <1>1, <1>3, Promised
  <2>2. Len(out[d]) \in Nat /\ Len(out[d]) <= Len(Promise(d))
    BY <1>1, <1>3, <2>1
  <2>3. \A i \in 1 .. Len(out[d]) : out[d][i] = Promise(d)[i]
    BY <1>1, <1>3, <2>1, <2>2
  <2> HIDE DEF Promise
  <2>4. SubSeq(out[d], 1, Len(out[d])) = SubSeq(Promise(d), 1, Len(out[d]))
    BY <1>1, <2>1, <2>2, <2>3
  <2> QED BY <2>2, <2>4 DEF IsPrefix
<1>4. CASE Answered /\ cp["up"] # "off"
  <2>1. /\ \A i \in 1 .. Len(out[d]) : out[d][i] = i - Lead(d)
        /\ Len(out[d]) <= Lead(d) + Passed(d)
    BY <1>4 DEF Inv, Stream
  <2>2. Len(out[d]) <= Lead(d) + sent[d]
    BY <1>1, <1>2, <2>1
  <2> QED BY <1>3, <1>4, <2>1, <2>2, Owned
<1>5. CASE Answered /\ cp["up"] = "off"
  <2>1. /\ \A i \in 1 .. Len(out[d]) : out[d][i] = i - Lead(d)
        /\ Len(out[d]) <= Lead(d) + Passed(d)
    BY <1>5 DEF Inv, Stream
  <2>2. Len(out[d]) <= Lead(d) + sent[d]
    BY <1>1, <1>2, <2>1
  <2>3. CASE OwnChunk(d) <=> Lead(d) = 1
    BY <1>3, <2>1, <2>2, <2>3
  <2>4. CASE ~(OwnChunk(d) <=> Lead(d) = 1)
    <3>1. d = "down" /\ mode = "plain" /\ Lead(d) = 0 /\ route # "http"
      BY <2>4, <1>5 DEF Inv, Phases, OwnChunk, Lead, Transparent, Dir
    <3>2. Passed(d) = 0
      BY <3>1, <1>5 DEF Inv, Phases, InHand, Passed
    <3>3. Len(out[d]) = 0
      BY <3>1, <3>2, <2>1, <1>1
    <3> QED BY <3>3, <1>1, PromiseType, EmptyPrefix
  <2> QED BY <2>3, <2>4
<1>6. CASE ~Answered
  <2>1. out["up"] = <<>> /\ out["down"] \in {<<>>, <<0>>} /\ cp["up"] = "off" /\ cp["down"] = "off"
    BY <1>6 DEF Inv, Stream, Phases, Answered
  <2>2. CASE out[d] = <<>>
    BY <2>2, <1>1, PromiseType, EmptyPrefix
  <2>3. CASE out[d] # <<>>
    <3>1. d = "down" /\ out[d] = <<0>>
      BY <2>1, <2>3 DEF Dir
    <3>2. Promise(d) = <<0>> \o [i \in 1 .. sent[d] |-> i]
      BY <3>1, <2>1 DEF Promise, OwnChunk
    <3> DEFINE chunks == [i \in 1 .. sent[d] |-> i]
    <3>3. chunks \in Seq(Nat) /\ Len(chunks) = sent[d]
      BY <1>1
    <3> HIDE DEF chunks
    <3>4. /\ Promise(d) \in Seq(Nat) /\ Len(Promise(d)) = 1 + sent[d]
          /\ Promise(d)[1] = 0
      BY <3>2, <3>3, <1>1 DEF chunks
    <3>5. SubSeq(out[d], 1, 1) = SubSeq(Promise(d), 1, 1) /\ Len(out[d]) = 1
      BY <3>1, <3>4, <1>1
    <3> QED BY <3>4, <3>5, <1>1 DEF IsPrefix
  <2> QED BY <2>2, <2>3
<1> QED BY <1>4, <1>5, <1>6

\* InOrder.  Whatever the handshake has read too much (main.go, the reader of
\* handleConn and the replay in tunnel) and whoever closes when, what was written to a side is what
\* the other has sent, from the start, in order and once.
THEOREM Orderly == Spec => []InOrder
<1>1. Inv => InOrder
  BY StreamIsPrefix DEF InOrder
<1> QED BY <1>1, Invariance, PTL

\* What Inv says of a copier that ended with its stream makes the promise kept.
LEMMA EofDelivers ==
  ASSUME Inv, NEW d \in Dir, Transparent(d), end[d] = "eof",
         peer[Dst(d)] # "reset", ~closed[Dst(d)]
  PROVE  out[d] = Promise(d)
<1>1. TypeOK /\ out[d] \in Seq(Nat) /\ sent[d] \in Nat
  BY DEF Inv, TypeOK
<1>2. cp[d] = "done" /\ taken[d] = sent[d]
  BY DEF Inv, Ends
<1>3. cp["up"] # "off" /\ Answered
  BY <1>2 DEF Inv, Phases, Answered, Dir
<1>4. Passed(d) = sent[d]
  BY <1>2 DEF Passed
<1>5. /\ \A i \in 1 .. Len(out[d]) : out[d][i] = i - Lead(d)
      /\ Len(out[d]) = Lead(d) + sent[d]
  BY <1>3, <1>4 DEF Inv, Stream, Over
<1>6. /\ Promise(d) \in Seq(Nat)
      /\ Len(Promise(d)) = Lead(d) + sent[d]
      /\ \A i \in 1 .. Len(Promise(d)) : Promise(d)[i] = i - Lead(d)
  BY <1>1, <1>3, Owned, Promised
<1>7. Len(out[d]) = Len(Promise(d)) /\ \A i \in 1 .. Len(out[d]) : out[d][i] = Promise(d)[i]
  BY <1>5, <1>6
<1> HIDE DEF Promise
<1> QED BY <1>1, <1>6, <1>7, SeqEqual

\* EofMeansDelivered.  A copy that ends with io.EOF (main.go, tunnel) has carried the
\* whole stream to a socket that was neither closed nor reset.
THEOREM Delivery == Spec => []EofMeansDelivered
<1>1. Inv => EofMeansDelivered
  BY EofDelivers DEF EofMeansDelivered
<1> QED BY <1>1, Invariance, PTL

\* A socket that fails a running copier was reset after its side had closed, or was
\* closed by the panel, or by the handler after the other copier had ended.
LEMMA NoSelfEnd ==
  ASSUME Inv, NEW d \in Dir, cp[d] \notin {"off", "done"}, NEW s \in Side, Broken(s)
  PROVE  fin["up"] \/ fin["down"] \/ cut \/ \E e \in Dir : cp[e] = "done"
<1>1. cp["up"] # "off"
  BY DEF Inv, Phases, Dir
<1>2. CASE peer[s] = "reset"
  BY <1>2 DEF Inv, Sockets, Dir, Side, Src
<1>3. CASE closed["client"]
  BY <1>1, <1>3 DEF Inv, Phases, Sockets
<1>4. CASE closed["server"]
  BY <1>1, <1>4 DEF Inv, Phases, Sockets, Opening
<1>5. CASE deadline
  BY <1>1, <1>4, <1>5 DEF Inv, Phases, Opening
<1> QED BY <1>2, <1>3, <1>4, <1>5 DEF Broken, Side

\* A copier ends only at the end of a stream or on a socket that fails.
LEMMA IdleStep == Inv /\ IdleTunnelSurvives /\ [Next]_vars => IdleTunnelSurvives'
<1> SUFFICES ASSUME Inv, IdleTunnelSurvives, [Next]_vars PROVE IdleTunnelSurvives'
  OBVIOUS
<1> DEFINE Cause == fin["up"] \/ fin["down"] \/ cut
<1>1. fin \in [Dir -> BOOLEAN] /\ cp \in [Dir -> CopierPC]
  BY DEF Inv, TypeOK
<1>2. Cause => Cause'
  BY <1>1 DEF Next, Handshake, Handler, HandshakeFails, Refuse, Dial, DialFails,
       UpstreamAnswers, UpstreamFails, Answer, Register, Replay, StartCopiers, Wait,
       Unregister, CloseServer, CloseClient, Copier, Read, ReadEnds, CountRead, Write,
       WriteFails, CountWrite, Peer, Send, HalfClose, Receive, Close, Reset, PanelClose,
       vars, proxy, panel, network, Dir
<1>3. ASSUME NEW d \in Dir, ReadEnds(d) PROVE Cause'
  <2>1. cp[d] = "read" /\ (Broken(Src(d)) \/ fin[d])
    BY <1>3 DEF ReadEnds, AtEof
  <2>2. Src(d) \in Side
    BY DEF Src, Side
  <2>3. Cause
    BY <2>1, <2>2, NoSelfEnd DEF IdleTunnelSurvives, Dir
  <2> QED BY <2>3, <1>2
<1>4. ASSUME NEW d \in Dir, WriteFails(d) PROVE Cause'
  <2>1. cp[d] = "write" /\ Broken(Dst(d))
    BY <1>4 DEF WriteFails
  <2>2. Dst(d) \in Side
    BY DEF Dst, Side
  <2>3. Cause
    BY <2>1, <2>2, NoSelfEnd DEF IdleTunnelSurvives, Dir
  <2> QED BY <2>3, <1>2
<1>5. CASE \/ Handshake \/ Handler \/ Peer \/ PanelClose \/ UNCHANGED vars
           \/ \E d \in Dir : Read(d) \/ CountRead(d) \/ Write(d) \/ CountWrite(d)
  <2>1. \A d \in Dir : cp'[d] = "done" => cp[d] = "done"
    BY <1>1, <1>5 DEF Handshake, Handler, HandshakeFails, Refuse, Dial, DialFails,
       UpstreamAnswers, UpstreamFails, Answer, Register, Replay, StartCopiers, Wait,
       Unregister, CloseServer, CloseClient, Read, CountRead, Write, CountWrite,
       Peer, Send, HalfClose, Receive, Close, Reset, PanelClose, vars, proxy, copiers
  <2> QED BY <2>1, <1>2 DEF IdleTunnelSurvives
<1> QED BY <1>3, <1>4, <1>5 DEF Next, Copier, IdleTunnelSurvives

\* IdleTunnelSurvives.  No deadline of the handshake or of the upstream dial
\* (main.go, dialHTTPUpstream) reaches the copiers: a tunnel ends only after a
\* side has ended its stream or the panel has closed it.
THEOREM NotByItself == Spec => []IdleTunnelSurvives
<1>1. Init => IdleTunnelSurvives
  BY DEF Init, IdleTunnelSurvives, Dir
<1> QED BY <1>1, IdleStep, Invariance, PTL DEF Spec

===============================================================================
