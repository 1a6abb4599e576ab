------------------------------ MODULE EventsProofs ------------------------------
(***************************************************************************)
(* Theorems about Events for every set of events, every size of channel    *)
(* and batch and every number of refusals and kills: the type invariant    *)
(* with the limits of channel and batch, and the implementation of         *)
(* EventLog.                                                               *)
(***************************************************************************)
EXTENDS Events, TLAPS

\* TypeOK is not inductive: Take lets a batch of full capacity grow once, and
\* only because a batch that is not being flushed is shorter than the grown
\* capacity does it never have to grow again (history.go:207-213).
Slack == writer # "flush" => Len(buf) < Grown

\* Only a goroutine whose send went through is in the channel's history, so
\* that a goroutine about to send brings a new event.
Fresh == \A i \in DOMAIN order : post[order[i]] = "sent"

Inv == TypeOK /\ Slack /\ Fresh

-----------------------------------------------------------------------------
(* Sequences.                                                              *)

\* trimEvents never lengthens a batch and leaves at most MaxKeep events.
LEMMA TrimKeeps ==
  ASSUME NEW s \in Seq(Events)
  PROVE  /\ TrimTo(s) \in Seq(Events)
         /\ Len(TrimTo(s)) <= MaxKeep
         /\ Len(TrimTo(s)) <= Len(s)
  BY ConstantsAssumption DEF TrimTo

\* An event put at the end of the queue is at the end of batch and queue.
LEMMA AppendBehind ==
  ASSUME NEW b \in Seq(Events), NEW q \in Seq(Events), NEW e \in Events
  PROVE  b \o Append(q, e) = Append(b \o q, e)
  OBVIOUS

\* The event that moves from queue to batch stays where it is in the whole.
LEMMA TakeInPlace ==
  ASSUME NEW b \in Seq(Events), NEW q \in Seq(Events), q # <<>>
  PROVE  Append(b, Head(q)) \o Tail(q) = b \o q
  OBVIOUS

\* What is behind the first Len(b) events of b \o q is q.
LEMMA SplitWhole ==
  ASSUME NEW b \in Seq(Events), NEW q \in Seq(Events)
  PROVE  /\ SubSeq(b \o q, 1, Len(b)) = b
         /\ SubSeq(b \o q, Len(b) + 1, Len(b \o q)) = q
  OBVIOUS

\* Trimming the batch takes a prefix off the whole.
LEMMA TrimIsPrefix ==
  ASSUME NEW b \in Seq(Events), NEW q \in Seq(Events), Len(b) > MaxKeep
  PROVE  TrimTo(b) \o q = SubSeq(b \o q, Len(b) - MaxKeep + 1, Len(b \o q))
  BY ConstantsAssumption DEF TrimTo

-----------------------------------------------------------------------------
(* The invariant.                                                          *)

\* A process starts with nothing waiting.
LEMMA InitInv == Init => Inv
<1> SUFFICES ASSUME Init PROVE Inv
  OBVIOUS
<1>1. <<>> \in Seq(Events) /\ Len(<<>>) = 0
  OBVIOUS
<1>2. TypeOK
  <2>1. post \in [Events -> {"tunnel", "send", "sent", "skipped", "dropped"}]
    BY DEF Init
  <2>2. queue \in Seq(Events) /\ buf \in Seq(Events) /\ db \in Seq(Events) /\ order \in Seq(Events)
    BY <1>1 DEF Init
  <2>3. Len(queue) = 0 /\ Len(buf) = 0
    BY DEF Init
  <2>4. fails \in 0 .. MaxFails /\ crashes \in 0 .. MaxCrashes /\ 0 <= QueueMax /\ 0 <= cap
    BY ConstantsAssumption DEF Init
  <2>5. QED BY <2>1, <2>2, <2>3, <2>4 DEF Init, TypeOK
<1>3. Slack /\ Fresh
  BY ConstantsAssumption DEF Init, Slack, Fresh
<1>4. QED BY <1>2, <1>3 DEF Inv

\* The posting goroutines.
LEMMA PostInv ==
  ASSUME Inv, NEW e \in Events, ReadFlag(e) \/ Send(e)
  PROVE  Inv'
<1>1. CASE ReadFlag(e)
  <2>1. TypeOK'
    BY <1>1 DEF ReadFlag, Inv, TypeOK, loop
  <2>2. Slack' /\ Fresh'
    BY <1>1 DEF ReadFlag, Inv, TypeOK, Slack, Fresh, loop
  <2>3. QED BY <2>1, <2>2 DEF Inv
<1>2. CASE Send(e) /\ Full
  <2>1. TypeOK'
    BY <1>2 DEF Send, Inv, TypeOK, loop
  <2>2. Slack' /\ Fresh'
    BY <1>2 DEF Send, Inv, TypeOK, Slack, Fresh, loop
  <2>3. QED BY <2>1, <2>2 DEF Inv
<1>3. CASE Send(e) /\ ~Full
  <2>0. /\ queue' = Append(queue, e) /\ order' = Append(order, e)
        /\ post' = [post EXCEPT ![e] = "sent"]
        /\ UNCHANGED <<enabled, writer, buf, cap, db, trimmed, fails, lost, crashes>>
    BY <1>3 DEF Send, loop
  <2>1. TypeOK'
    <3>1. queue' \in Seq(Events) /\ Len(queue') <= QueueMax
      BY <1>3, <2>0, ConstantsAssumption DEF Full, Inv, TypeOK
    <3>2. QED BY <2>0, <3>1 DEF Inv, TypeOK
  <2>2. Slack' /\ Fresh'
    <3>1. \A i \in DOMAIN order' : (i \in DOMAIN order /\ order'[i] = order[i]) \/ order'[i] = e
      BY <2>0 DEF Inv, TypeOK
    <3>2. \A i \in DOMAIN order : order[i] \in Events
      BY DEF Inv, TypeOK
    <3>3. QED BY <2>0, <3>1, <3>2 DEF Inv, TypeOK, Slack, Fresh
  <2>3. QED BY <2>1, <2>2 DEF Inv
<1>4. QED BY <1>1, <1>2, <1>3

\* The writer.
LEMMA WriterInv ==
  ASSUME Inv, Writer
  PROVE  Inv'
<1>1. CASE Prepare
  BY <1>1 DEF Prepare, Inv, TypeOK, Slack, Fresh
<1>2. CASE PrepareFails
  <2>1. fails' \in 0 .. MaxFails
    BY <1>2, ConstantsAssumption DEF PrepareFails, Inv, TypeOK
  <2>2. TypeOK'
    BY <1>2, <2>1 DEF PrepareFails, Inv, TypeOK
  <2>3. QED BY <1>2, <2>2 DEF PrepareFails, Inv, Slack, Fresh
<1>3. CASE Take
  <2>1. /\ queue' \in Seq(Events) /\ Len(queue') <= QueueMax
        /\ buf' \in Seq(Events) /\ Len(buf') = Len(buf) + 1
    BY <1>3, ConstantsAssumption DEF Take, Inv, TypeOK
  <2>2. cap' \in {MaxKeep, Grown} /\ Len(buf') <= cap' /\ Slack'
    BY <1>3, <2>1, ConstantsAssumption DEF Take, Inv, TypeOK, Slack
  <2>3. TypeOK'
    BY <1>3, <2>1, <2>2 DEF Take, Inv, TypeOK
  <2>4. QED BY <1>3, <2>2, <2>3 DEF Take, Inv, Fresh
<1>4. CASE Tick
  BY <1>4 DEF Tick, Inv, TypeOK, Slack, Fresh
<1>5. CASE Commit
  <2>1. buf' = <<>> /\ db' \in Seq(Events)
    BY <1>5 DEF Commit, Rest, Inv, TypeOK
  <2>2. TypeOK' /\ Slack'
    BY <1>5, <2>1, ConstantsAssumption DEF Commit, Inv, TypeOK, Slack
  <2>3. QED BY <1>5, <2>2 DEF Commit, Inv, Fresh
<1>6. CASE FlushFails
  <2>1. /\ buf' \in Seq(Events)
        /\ Len(buf') <= MaxKeep /\ Len(buf') <= Len(buf)
    BY <1>6, TrimKeeps DEF FlushFails, Inv, TypeOK
  <2>2. trimmed' \subseteq Events
    BY <1>6 DEF FlushFails, Inv, TypeOK, ToSet
  <2>3. TypeOK' /\ Slack'
    BY <1>6, <2>1, <2>2, ConstantsAssumption DEF FlushFails, Inv, TypeOK, Slack
  <2>4. QED BY <1>6, <2>3 DEF FlushFails, Inv, Fresh
<1>7. QED BY <1>1, <1>2, <1>3, <1>4, <1>5, <1>6 DEF Writer

\* The process starts, and ends.
LEMMA ProcessInv ==
  ASSUME Inv, Open \/ Crash
  PROVE  Inv'
<1>1. CASE Open
  BY <1>1 DEF Open, Inv, TypeOK, Slack, Fresh
<1>2. CASE Crash
  <2>1. lost' \subseteq Events
    BY <1>2 DEF Crash, Inv, TypeOK, ToSet
  <2>2. TypeOK' /\ Slack'
    <3>1. crashes' \in 0 .. MaxCrashes
      BY <1>2, ConstantsAssumption DEF Crash, Inv, TypeOK
    <3>2. <<>> \in Seq(Events) /\ Len(<<>>) = 0
      OBVIOUS
    <3>3. post' \in [Events -> {"tunnel", "send", "sent", "skipped", "dropped"}]
      BY <1>2 DEF Crash, Inv, TypeOK
    <3>4. /\ queue' = <<>> /\ buf' = <<>> /\ cap' = MaxKeep /\ writer' = "off"
          /\ enabled' = FALSE /\ UNCHANGED <<db, order, trimmed, fails>>
      BY <1>2 DEF Crash
    <3>5. 0 <= QueueMax /\ 0 <= MaxKeep /\ 0 < Grown
      BY ConstantsAssumption
    <3>6. QED BY <2>1, <3>1, <3>2, <3>3, <3>4, <3>5 DEF Inv, TypeOK, Slack
  <2>3. Fresh'
    BY <1>2 DEF Crash, Inv, TypeOK, Fresh
  <2>4. QED BY <2>2, <2>3 DEF Inv
<1>3. QED BY <1>1, <1>2

\* Every step keeps the invariant.
LEMMA NextInv == Inv /\ [Next]_vars => Inv'
<1> SUFFICES ASSUME Inv, [Next]_vars PROVE Inv'
  OBVIOUS
<1>1. CASE Next
  BY <1>1, PostInv, WriterInv, ProcessInv DEF Next
<1>2. CASE UNCHANGED vars
  BY <1>2 DEF vars, Inv, TypeOK, Slack, Fresh
<1>3. QED BY <1>1, <1>2

\* The invariant holds in every reachable state.
LEMMA Invariance == Spec => []Inv
BY InitInv, NextInv, PTL DEF Spec

\* Channel and batch keep within their limits however long the database
\* refuses (history.go:188 and 253-260).
THEOREM Typing == Spec => []TypeOK
<1>1. Inv => TypeOK BY DEF Inv
<1>2. QED BY <1>1, Invariance, PTL

-----------------------------------------------------------------------------
(* Events implements EventLog.                                             *)

\* The log starts empty.
LEMMA InitLog == Init => Log!Init
BY DEF Init, Log!Init, ToSet

\* A send that finds room is an Accept; reading the flag, and a send that finds
\* none, cannot be seen.
LEMMA PostLog ==
  ASSUME Inv, NEW e \in Events, ReadFlag(e) \/ Send(e)
  PROVE  [Log!Next]_(Log!vars)
<1>1. CASE ReadFlag(e) \/ (Send(e) /\ Full)
  BY <1>1 DEF ReadFlag, Send, Log!vars, loop
<1>2. CASE Send(e) /\ ~Full
  <2>1. buf' \o queue' = Append(buf \o queue, e)
    <3>1. buf' = buf /\ queue' = Append(queue, e)
      BY <1>2 DEF Send, loop
    <3>2. buf \in Seq(Events) /\ queue \in Seq(Events)
      BY DEF Inv, TypeOK
    <3>3. QED BY <3>1, <3>2, AppendBehind
  <2>2. e \notin ToSet(order)
    BY <1>2 DEF Send, Inv, TypeOK, Fresh, ToSet
  <2>3. ToSet(order') = ToSet(order) \cup {e}
    <3>1. order \in Seq(Events) /\ order' = Append(order, e)
      BY <1>2 DEF Send, Inv, TypeOK
    <3>2. /\ DOMAIN order' = DOMAIN order \cup {Len(order) + 1}
          /\ order'[Len(order) + 1] = e
          /\ \A i \in DOMAIN order : order'[i] = order[i]
      BY <3>1
    <3>3. QED BY <3>2 DEF ToSet
  <2>4. Len(buf \o queue) < QueueMax + Grown
    BY <1>2, ConstantsAssumption DEF Full, Inv, TypeOK
  <2>5. db' = db
    BY <1>2 DEF Send, loop
  <2>6. Log!Accept(e)
    BY <2>1, <2>2, <2>3, <2>4, <2>5 DEF Log!Accept
  <2>7. QED BY <2>6 DEF Log!Next
<1>3. QED BY <1>1, <1>2

\* A commit stores the oldest, a refusal forgets the oldest or nothing; the
\* other steps of the writer cannot be seen.
LEMMA WriterLog ==
  ASSUME Inv, Writer
  PROVE  [Log!Next]_(Log!vars)
<1>1. CASE Prepare \/ PrepareFails \/ Tick
  BY <1>1 DEF Prepare, PrepareFails, Tick, Log!vars
<1>2. CASE Take
  BY <1>2, TakeInPlace DEF Take, Log!vars, Inv, TypeOK
<1>3. CASE Commit
  <2>1. /\ buf' \o queue' = Log!Without(Len(buf))
        /\ Log!Oldest(Len(buf)) = buf
    BY <1>3, SplitWhole DEF Commit, Rest, Log!Without, Log!Oldest, Inv, TypeOK
  <2>2. CASE buf = <<>>
    BY <1>3, <2>2 DEF Commit, Rest, Log!vars, Inv, TypeOK
  <2>3. CASE buf # <<>>
    <3>1. Len(buf) \in DOMAIN (buf \o queue)
      BY <2>3 DEF Inv, TypeOK
    <3>2. Log!Store(Len(buf))
      BY <1>3, <2>1 DEF Commit, Log!Store
    <3>3. QED BY <3>1, <3>2 DEF Log!Next
  <2>4. QED BY <2>2, <2>3
<1>4. CASE FlushFails
  <2>1. CASE Len(buf) <= MaxKeep
    <3>1. buf' = buf
      BY <1>4, <2>1, ConstantsAssumption DEF FlushFails, TrimTo, Inv, TypeOK
    <3>2. QED BY <1>4, <3>1 DEF FlushFails, Log!vars
  <2>2. CASE ~(Len(buf) <= MaxKeep)
    <3> DEFINE n == Len(buf) - MaxKeep
    <3>1. n \in DOMAIN (buf \o queue)
      BY <2>2, ConstantsAssumption DEF Inv, TypeOK
    <3>2. buf' \o queue' = Log!Without(n)
      <4>1. buf' = TrimTo(buf) /\ queue' = queue
        BY <1>4 DEF FlushFails
      <4>2. /\ buf \in Seq(Events) /\ queue \in Seq(Events)
            /\ Len(buf) > MaxKeep
        BY <2>2, ConstantsAssumption DEF Inv, TypeOK
      <4>3. QED BY <4>1, <4>2, TrimIsPrefix DEF Log!Without
    <3>3. Log!Forget(n)
      BY <1>4, <3>2 DEF FlushFails, Log!Forget
    <3>4. QED BY <3>1, <3>3 DEF Log!Next
  <2>3. QED BY <2>1, <2>2
<1>5. QED BY <1>1, <1>2, <1>3, <1>4 DEF Writer

\* A kill forgets all that waits.
LEMMA ProcessLog ==
  ASSUME Inv, Open \/ Crash
  PROVE  [Log!Next]_(Log!vars)
<1>1. CASE Open
  BY <1>1 DEF Open, Log!vars
<1>2. CASE Crash
  <2> DEFINE n == Len(buf \o queue)
  <2>1. buf' \o queue' = <<>>
    BY <1>2 DEF Crash
  <2>2. CASE n = 0
    BY <1>2, <2>1, <2>2 DEF Crash, Log!vars, Inv, TypeOK
  <2>3. CASE n # 0
    <3>1. n \in DOMAIN (buf \o queue)
      BY <2>3 DEF Inv, TypeOK
    <3>2. Log!Without(n) = <<>>
      BY DEF Log!Without, Inv, TypeOK
    <3>3. Log!Forget(n)
      BY <1>2, <2>1, <3>2 DEF Crash, Log!Forget
    <3>4. QED BY <3>1, <3>3 DEF Log!Next
  <2>4. QED BY <2>2, <2>3
<1>3. QED BY <1>1, <1>2

\* Every step is a step of the log or a stutter.
LEMMA NextLog == Inv /\ [Next]_vars => [Log!Next]_(Log!vars)
<1> SUFFICES ASSUME Inv, [Next]_vars PROVE [Log!Next]_(Log!vars)
  OBVIOUS
<1>1. CASE Next
  BY <1>1, PostLog, WriterLog, ProcessLog DEF Next
<1>2. CASE UNCHANGED vars
  BY <1>2 DEF vars, Log!vars
<1>3. QED BY <1>1, <1>2

\* Channel, batch, retries and kills of the event layer are, seen from outside,
\* a log that only ever stores or forgets its oldest events.
THEOREM Implementation == Spec => ImplementsLog
<1>1. Init => Log!Init BY InitLog
<1>2. Inv /\ [Next]_vars => [Log!Next]_(Log!vars) BY NextLog
<1>3. QED BY <1>1, <1>2, Invariance, PTL DEF Spec, ImplementsLog, Log!Spec

-----------------------------------------------------------------------------
(* Stored once and in order.                                               *)

\* Concatenation is associative.
LEMMA Assoc ==
  ASSUME NEW a \in Seq(Events), NEW b \in Seq(Events), NEW c \in Seq(Events)
  PROVE  (a \o b) \o c = a \o (b \o c)
OBVIOUS

\* Where the elements of a concatenation come from.
LEMMA Places ==
  ASSUME NEW a \in Seq(Events), NEW c \in Seq(Events)
  PROVE  /\ a \o c \in Seq(Events)
         /\ Len(a \o c) = Len(a) + Len(c)
         /\ \A i \in 1 .. Len(a) : (a \o c)[i] = a[i]
         /\ \A i \in 1 .. Len(c) : (a \o c)[Len(a) + i] = c[i]
         /\ ToSet(a \o c) = ToSet(a) \cup ToSet(c)
<1>1. /\ a \o c \in Seq(Events)
      /\ Len(a \o c) = Len(a) + Len(c)
      /\ \A i \in 1 .. Len(a) : (a \o c)[i] = a[i]
      /\ \A i \in 1 .. Len(c) : (a \o c)[Len(a) + i] = c[i]
  OBVIOUS
<1>2. \A i \in 1 .. Len(a) + Len(c) :
        i \in 1 .. Len(a) \/ (i - Len(a) \in 1 .. Len(c) /\ i = Len(a) + (i - Len(a)))
  OBVIOUS
<1>3. /\ \A i \in 1 .. Len(a) : i \in 1 .. Len(a \o c)
      /\ \A i \in 1 .. Len(c) : Len(a) + i \in 1 .. Len(a \o c)
  BY <1>1
<1>4. ToSet(a \o c) \subseteq ToSet(a) \cup ToSet(c)
  BY <1>1, <1>2 DEF ToSet
<1>5. ToSet(a) \cup ToSet(c) \subseteq ToSet(a \o c)
  BY <1>1, <1>3 DEF ToSet
<1> QED BY <1>1, <1>4, <1>5

\* What is in order stays in order when a piece is cut out of it; the piece has
\* no event in common with the rest.
LEMMA CutOut ==
  ASSUME NEW a \in Seq(Events), NEW b \in Seq(Events), NEW c \in Seq(Events),
         order \in Seq(Events), AsTaken(a \o b \o c), ToSet(a \o b \o c) \subseteq ToSet(order)
  PROVE  /\ AsTaken(a \o c)
         /\ ToSet(a \o c) = ToSet(a \o b \o c) \ ToSet(b)
<1> DEFINE s == a \o b \o c
           t == a \o c
<1>1. /\ s \in Seq(Events) /\ Len(s) = Len(a) + Len(b) + Len(c)
      /\ \A i \in 1 .. Len(a) : s[i] = a[i]
      /\ \A i \in 1 .. Len(b) : s[Len(a) + i] = b[i]
      /\ \A i \in 1 .. Len(c) : s[Len(a) + Len(b) + i] = c[i]
  OBVIOUS
<1>2. /\ t \in Seq(Events) /\ Len(t) = Len(a) + Len(c)
      /\ \A i \in 1 .. Len(a) : t[i] = a[i]
      /\ \A i \in 1 .. Len(c) : t[Len(a) + i] = c[i]
  OBVIOUS
<1>3. AsTaken(s) /\ ToSet(s) \subseteq ToSet(order) /\ ToSet(s) = ToSet(t) \cup ToSet(b)
  <2>1. AsTaken(s) /\ ToSet(s) \subseteq ToSet(order)
    OBVIOUS
  <2>2. ToSet(t) = ToSet(a) \cup ToSet(c)
    BY Places
  <2>3. a \o b \in Seq(Events) /\ ToSet(a \o b) = ToSet(a) \cup ToSet(b)
    BY Places
  <2>4. ToSet(s) = ToSet(a \o b) \cup ToSet(c)
    BY <2>3, Places
  <2> QED BY <2>1, <2>2, <2>3, <2>4
<1>4. Len(a) \in Nat /\ Len(b) \in Nat /\ Len(c) \in Nat
  OBVIOUS
<1> HIDE DEF s, t
<1> DEFINE at(i) == IF i <= Len(a) THEN i ELSE i + Len(b)
<1>5. \A i \in 1 .. Len(t) : at(i) \in 1 .. Len(s) /\ t[i] = s[at(i)]
  <2> TAKE i \in 1 .. Len(t)
  <2>1. CASE i <= Len(a)
    BY <2>1, <1>1, <1>2, <1>4
  <2>2. CASE ~(i <= Len(a))
    <3>0. i \in Nat /\ i <= Len(a) + Len(c) /\ i > Len(a)
      BY <1>2, <1>4, <2>2
    <3>1. PICK n \in 1 .. Len(c) : n = i - Len(a)
      <4>1. i - Len(a) \in 1 .. Len(c)
        BY <3>0, <1>4
      <4> QED BY <4>1
    <3>2. t[Len(a) + n] = c[n] /\ s[Len(a) + Len(b) + n] = c[n]
      BY <1>1, <1>2, <3>1
    <3>3. i = Len(a) + n /\ at(i) = Len(a) + Len(b) + n
      BY <2>2, <3>1, <1>4
    <3> QED BY <3>1, <3>2, <3>3, <1>1, <1>4
  <2> QED BY <2>1, <2>2
<1>6. AsTaken(t)
  <2> SUFFICES ASSUME NEW i \in 1 .. Len(t), NEW j \in 1 .. Len(t),
                      NEW k \in DOMAIN order, NEW l \in DOMAIN order,
                      i < j, t[i] = order[k], t[j] = order[l]
               PROVE  k < l
    BY <1>2 DEF AsTaken
  <2>1. at(i) < at(j)
    BY <1>2, <1>4
  <2>2. at(i) \in DOMAIN s /\ at(j) \in DOMAIN s
    BY <1>1, <1>5
  <2>3. s[at(i)] = order[k] /\ s[at(j)] = order[l]
    BY <1>5
  <2> HIDE DEF at
  <2> QED BY <2>1, <2>2, <2>3, <1>3 DEF AsTaken
<1>7. ASSUME NEW e \in ToSet(t), e \in ToSet(b) PROVE FALSE
  <2>1. PICK i \in 1 .. Len(t) : t[i] = e
    BY <1>2, <1>7 DEF ToSet
  <2>2. PICK n \in 1 .. Len(b) : b[n] = e
    BY <1>7 DEF ToSet
  <2>3. PICK k \in DOMAIN order : order[k] = e
    BY <1>3, <1>7 DEF ToSet
  <2>4. PICK j \in 1 .. Len(s) : j = Len(a) + n
    BY <1>1, <1>4
  <2>5. s[j] = e /\ s[at(i)] = e /\ at(i) # j /\ at(i) \in 1 .. Len(s)
    BY <1>1, <1>2, <1>4, <1>5, <2>1, <2>2, <2>4
  <2>6. PICK h \in 1 .. Len(s) : h = at(i)
    BY <2>5
  <2> HIDE DEF at
  <2>7. h < j \/ j < h
    BY <2>5, <2>6
  <2>8. k < k
    <3>1. s[h] = order[k] /\ s[j] = order[k] /\ h \in DOMAIN s /\ j \in DOMAIN s
      BY <2>3, <2>5, <2>6, <1>1
    <3> QED BY <3>1, <2>7, <1>3 DEF AsTaken
  <2>9. k \in Nat
    OBVIOUS
  <2> QED BY <2>8, <2>9
<1> QED BY <1>3, <1>6, <1>7 DEF s, t

\* Only an event the channel has taken can be thrown away or lost.
Gone == trimmed \cup lost \subseteq ToSet(order)
KeptInv == StoredOnceInOrder /\ Gone

\* What is kept is a sequence of events, those of table, batch and channel.
LEMMA KeptType ==
  ASSUME Inv
  PROVE  /\ kept \in Seq(Events) /\ order \in Seq(Events)
         /\ db \in Seq(Events) /\ buf \in Seq(Events) /\ queue \in Seq(Events)
         /\ ToSet(kept) = ToSet(db) \cup ToSet(buf) \cup ToSet(queue)
<1>1. /\ db \in Seq(Events) /\ buf \in Seq(Events) /\ queue \in Seq(Events)
      /\ order \in Seq(Events)
  BY DEF Inv, TypeOK
<1>2. db \o buf \in Seq(Events) /\ ToSet(db \o buf) = ToSet(db) \cup ToSet(buf)
  BY <1>1, Places
<1>3. /\ (db \o buf) \o queue \in Seq(Events)
      /\ ToSet((db \o buf) \o queue) = ToSet(db \o buf) \cup ToSet(queue)
  BY <1>1, <1>2, Places
<1> QED BY <1>1, <1>2, <1>3 DEF kept

\* An event the channel takes is a new one, and comes behind all others.
LEMMA SendKept ==
  ASSUME Inv, KeptInv, NEW e \in Events, Send(e), ~Full
  PROVE  KeptInv'
<1>1. /\ kept \in Seq(Events) /\ order \in Seq(Events)
      /\ db \in Seq(Events) /\ buf \in Seq(Events) /\ queue \in Seq(Events)
  BY KeptType
<1>2. /\ queue' = Append(queue, e) /\ order' = Append(order, e)
      /\ UNCHANGED <<db, buf, trimmed, lost>>
  BY DEF Send, loop
<1>3. kept' = Append(kept, e)
  BY <1>1, <1>2 DEF kept
<1>4. e \notin ToSet(order) /\ e \notin trimmed \cup lost
  <2>1. e \notin ToSet(order)
    BY DEF Send, Inv, TypeOK, Fresh, ToSet
  <2> QED BY <2>1 DEF KeptInv, Gone
<1>5. /\ ToSet(kept) = ToSet(order) \ (trimmed \cup lost)
      /\ \A i, j \in DOMAIN kept : \A k, l \in DOMAIN order :
           i < j /\ kept[i] = order[k] /\ kept[j] = order[l] => k < l
  BY DEF KeptInv, StoredOnceInOrder, AsTaken
<1>6. /\ Len(kept') = Len(kept) + 1 /\ kept'[Len(kept) + 1] = e
      /\ \A i \in 1 .. Len(kept) : kept'[i] = kept[i]
      /\ Len(kept) \in Nat /\ DOMAIN kept = 1 .. Len(kept)
      /\ DOMAIN kept' = 1 .. Len(kept) + 1
  BY <1>1, <1>3
<1>7. /\ Len(order') = Len(order) + 1 /\ order'[Len(order) + 1] = e
      /\ \A i \in 1 .. Len(order) : order'[i] = order[i]
      /\ Len(order) \in Nat /\ DOMAIN order = 1 .. Len(order)
      /\ DOMAIN order' = 1 .. Len(order) + 1
  BY <1>1, <1>2
<1>8. ToSet(kept') = ToSet(kept) \cup {e} /\ ToSet(order') = ToSet(order) \cup {e}
  <2>1. ToSet(kept') = ToSet(kept) \cup {e}
    BY <1>6 DEF ToSet
  <2>2. ToSet(order') = ToSet(order) \cup {e}
    BY <1>7 DEF ToSet
  <2> QED BY <2>1, <2>2
<1>9. AsTaken(kept)'
  <2> SUFFICES ASSUME NEW i \in DOMAIN kept', NEW j \in DOMAIN kept',
                      NEW k \in DOMAIN order', NEW l \in DOMAIN order',
                      i < j, kept'[i] = order'[k], kept'[j] = order'[l]
               PROVE  k < l
    BY DEF AsTaken
  <2>1. i \in 1 .. Len(kept) /\ kept'[i] = kept[i] /\ kept[i] # e
    <3>1. i \in 1 .. Len(kept)
      BY <1>6
    <3> QED BY <3>1, <1>4, <1>5, <1>6 DEF ToSet
  <2>2. k \in 1 .. Len(order) /\ order'[k] = order[k]
    <3>1. k # Len(order) + 1
      BY <2>1, <1>7
    <3>2. k \in 1 .. Len(order)
      BY <3>1, <1>7
    <3> QED BY <3>2, <1>7
  <2>3. CASE j \in 1 .. Len(kept)
    <3>1. kept'[j] = kept[j] /\ kept[j] # e
      BY <2>3, <1>4, <1>5, <1>6 DEF ToSet
    <3>2. l \in 1 .. Len(order) /\ order'[l] = order[l]
      <4>1. l # Len(order) + 1
        BY <3>1, <1>7
      <4>2. l \in 1 .. Len(order)
        BY <4>1, <1>7
      <4> QED BY <4>2, <1>7
    <3> QED BY <2>1, <2>2, <2>3, <3>1, <3>2, <1>5, <1>6, <1>7
  <2>4. CASE j = Len(kept) + 1
    <3>1. order'[l] = e
      BY <2>4, <1>6
    <3>2. l = Len(order) + 1
      BY <3>1, <1>4, <1>7 DEF ToSet
    <3> QED BY <2>2, <3>2, <1>7
  <2> QED BY <2>3, <2>4, <1>6
<1> QED BY <1>2, <1>4, <1>5, <1>8, <1>9 DEF KeptInv, StoredOnceInOrder, Gone

\* A trimmed batch is the end of what it was.
LEMMA TrimIsTail ==
  ASSUME NEW b \in Seq(Events)
  PROVE  \E a \in Seq(Events) : b = a \o TrimTo(b)
<1>1. CASE Len(b) > MaxKeep
  <2> DEFINE a == SubSeq(b, 1, Len(b) - MaxKeep)
  <2>1. a \in Seq(Events) /\ TrimTo(b) \in Seq(Events) /\ Len(b) - MaxKeep \in 1 .. Len(b)
    BY <1>1, TrimKeeps, ConstantsAssumption
  <2>2. TrimTo(b) = SubSeq(b, Len(b) - MaxKeep + 1, Len(b))
    BY <1>1 DEF TrimTo
  <2>3. \A n \in 1 .. Len(b) : b = SubSeq(b, 1, n) \o SubSeq(b, n + 1, Len(b))
    OBVIOUS
  <2>4. b = a \o TrimTo(b)
    BY <2>1, <2>2, <2>3
  <2> QED BY <2>1, <2>4
<1>2. CASE ~(Len(b) > MaxKeep)
  <2>1. <<>> \in Seq(Events) /\ b = <<>> \o TrimTo(b)
    BY <1>2 DEF TrimTo
  <2> QED BY <2>1
<1> QED BY <1>1, <1>2

\* A refusal cuts the oldest events out of the batch, and remembers them.
LEMMA TrimKept ==
  ASSUME Inv, KeptInv, FlushFails
  PROVE  KeptInv'
<1>1. /\ kept \in Seq(Events) /\ order \in Seq(Events)
      /\ db \in Seq(Events) /\ buf \in Seq(Events) /\ queue \in Seq(Events)
      /\ ToSet(buf) \subseteq ToSet(kept)
  BY KeptType
<1>2. /\ buf' = TrimTo(buf)
      /\ trimmed' = trimmed \cup (ToSet(buf) \ ToSet(buf'))
      /\ UNCHANGED <<db, queue, order, lost>>
  BY DEF FlushFails
<1>3. PICK b \in Seq(Events) : buf = b \o buf'
  BY <1>1, <1>2, TrimIsTail
<1>4. buf' \in Seq(Events) /\ ToSet(buf) = ToSet(b) \cup ToSet(buf')
  <2>1. buf' \in Seq(Events)
    BY <1>1, <1>2, TrimKeeps
  <2> QED BY <2>1, <1>3, Places
<1>5a. PICK t \in Seq(Events) : t = buf'
  BY <1>4
<1>5. PICK c \in Seq(Events) : c = t \o queue /\ ToSet(t) \subseteq ToSet(c)
  <2>1. t \o queue \in Seq(Events) /\ ToSet(t) \subseteq ToSet(t \o queue)
    BY <1>1, Places
  <2> QED BY <2>1
<1>6. kept = db \o b \o c /\ kept' = db \o c
  <2>1. db \o (b \o t) \o queue = db \o b \o (t \o queue)
    <3>1. db \o b \in Seq(Events) /\ db \o (b \o t) = (db \o b) \o t
      BY <1>1
    <3>2. ((db \o b) \o t) \o queue = (db \o b) \o (t \o queue)
      BY <3>1, <1>1, Assoc, ZenonT(30)
    <3> QED BY <3>1, <3>2
  <2>2. db \o t \o queue = db \o (t \o queue)
    BY <1>1
  <2>3. kept' = db \o buf' \o queue
    BY <1>2 DEF kept
  <2> QED BY <1>3, <1>5a, <1>5, <2>1, <2>2, <2>3 DEF kept
<1>7. AsTaken(kept) /\ ToSet(kept) \subseteq ToSet(order)
  BY DEF KeptInv, StoredOnceInOrder
<1>8. AsTaken(db \o c) /\ ToSet(db \o c) = ToSet(kept) \ ToSet(b)
  BY <1>1, <1>6, <1>7, CutOut
<1>9. ToSet(buf) \ ToSet(buf') = ToSet(b)
  <2>1. ToSet(c) \subseteq ToSet(db \o c)
    BY <1>1, Places
  <2> QED BY <1>4, <1>5a, <1>5, <1>8, <2>1
<1>10. ToSet(order)' = ToSet(order)
  BY <1>2 DEF ToSet
<1>11. AsTaken(kept)'
  BY <1>2, <1>6, <1>8 DEF AsTaken
<1>12. ToSet(kept') = ToSet(order') \ (trimmed' \cup lost')
  BY <1>2, <1>6, <1>8, <1>9, <1>10 DEF KeptInv, StoredOnceInOrder
<1>13. Gone'
  BY <1>1, <1>2, <1>7, <1>10 DEF KeptInv, Gone
<1> QED BY <1>11, <1>12, <1>13 DEF KeptInv, StoredOnceInOrder

\* A kill cuts off what waits.
LEMMA CrashKept ==
  ASSUME Inv, KeptInv, Crash
  PROVE  KeptInv'
<1>1. /\ kept \in Seq(Events) /\ order \in Seq(Events)
      /\ db \in Seq(Events) /\ buf \in Seq(Events) /\ queue \in Seq(Events)
      /\ ToSet(buf) \cup ToSet(queue) \subseteq ToSet(kept)
  BY KeptType
<1>2. /\ buf' = <<>> /\ queue' = <<>>
      /\ lost' = lost \cup ToSet(queue) \cup ToSet(buf)
      /\ UNCHANGED <<db, order, trimmed>>
  BY DEF Crash
<1>3. PICK b \in Seq(Events) : b = buf \o queue /\ ToSet(b) = ToSet(buf) \cup ToSet(queue)
  <2>1. buf \o queue \in Seq(Events) /\ ToSet(buf \o queue) = ToSet(buf) \cup ToSet(queue)
    BY <1>1, Places
  <2> QED BY <2>1
<1>4. <<>> \in Seq(Events) /\ kept = db \o b \o <<>> /\ kept' = db \o <<>>
  <2>1. db \o buf \o queue = db \o (buf \o queue) \o <<>>
    BY <1>1
  <2>2. db \o <<>> \o <<>> = db \o <<>>
    BY <1>1
  <2>3. kept' = db \o <<>> \o <<>>
    BY <1>2 DEF kept
  <2> QED BY <1>3, <2>1, <2>2, <2>3 DEF kept
<1>5. AsTaken(kept) /\ ToSet(kept) \subseteq ToSet(order)
  BY DEF KeptInv, StoredOnceInOrder
<1>6. AsTaken(db \o <<>>) /\ ToSet(db \o <<>>) = ToSet(kept) \ ToSet(b)
  <2>1. AsTaken(db \o b \o <<>>) /\ ToSet(db \o b \o <<>>) \subseteq ToSet(order)
    BY <1>4, <1>5
  <2>2. PICK n \in Seq(Events) : n = <<>>
    BY <1>4
  <2>3. AsTaken(db \o b \o n) /\ ToSet(db \o b \o n) \subseteq ToSet(order)
    BY <2>1, <2>2
  <2>4. AsTaken(db \o n) /\ ToSet(db \o n) = ToSet(db \o b \o n) \ ToSet(b)
    BY <2>3, <1>1, CutOut, ZenonT(30)
  <2> QED BY <2>2, <2>4, <1>4
<1>7. ToSet(order)' = ToSet(order)
  BY <1>2 DEF ToSet
<1>8. AsTaken(kept)'
  BY <1>2, <1>4, <1>6 DEF AsTaken
<1>9. ToSet(kept') = ToSet(order') \ (trimmed' \cup lost')
  BY <1>2, <1>3, <1>4, <1>6, <1>7 DEF KeptInv, StoredOnceInOrder
<1>10. Gone'
  BY <1>1, <1>2, <1>5, <1>7 DEF KeptInv, Gone
<1> QED BY <1>8, <1>9, <1>10 DEF KeptInv, StoredOnceInOrder

\* Every other step leaves what is kept where it is in the whole.
LEMMA QuietKept ==
  ASSUME KeptInv, kept' = kept, UNCHANGED <<order, trimmed, lost>>
  PROVE  KeptInv'
<1>1. ToSet(kept)' = ToSet(kept) /\ ToSet(order)' = ToSet(order)
  BY DEF ToSet
<1>2. AsTaken(kept)'
  BY DEF KeptInv, StoredOnceInOrder, AsTaken
<1> QED BY <1>1, <1>2 DEF KeptInv, StoredOnceInOrder, Gone

\* Posting, gathering, storing, refusing and killing keep the events in order.
LEMMA KeptStep == Inv /\ KeptInv /\ [Next]_vars => KeptInv'
<1> SUFFICES ASSUME Inv, KeptInv, [Next]_vars PROVE KeptInv'
  OBVIOUS
<1>1. /\ db \in Seq(Events) /\ buf \in Seq(Events) /\ queue \in Seq(Events)
  BY KeptType
<1>2. CASE Open \/ Prepare \/ PrepareFails \/ Tick \/ UNCHANGED vars
  BY <1>2, QuietKept DEF Open, Prepare, PrepareFails, Tick, vars, kept
<1>3. ASSUME NEW e \in Events, ReadFlag(e) \/ (Send(e) /\ Full) PROVE KeptInv'
  BY <1>3, QuietKept DEF ReadFlag, Send, loop, kept
<1>4. CASE Take
  <2>1. /\ queue # <<>> /\ buf' = Append(buf, Head(queue)) /\ queue' = Tail(queue)
        /\ UNCHANGED <<db, order, trimmed, lost>>
    BY <1>4 DEF Take
  <2>2. Append(buf, Head(queue)) \in Seq(Events) /\ Tail(queue) \in Seq(Events)
    BY <1>1, <2>1
  <2>3. kept' = db \o (Append(buf, Head(queue)) \o Tail(queue))
    BY <1>1, <2>1, <2>2, Assoc DEF kept
  <2>4. kept = db \o (buf \o queue)
    BY <1>1 DEF kept
  <2>5. kept' = kept
    BY <1>1, <2>1, <2>3, <2>4, TakeInPlace
  <2> QED BY <2>1, <2>5, QuietKept
<1>5. CASE Commit
  <2>1. /\ db' = db \o buf /\ buf' = <<>>
        /\ UNCHANGED <<queue, order, trimmed, lost>>
    BY <1>5 DEF Commit, Rest
  <2>2. (db \o buf) \o <<>> = db \o buf
    BY <1>1
  <2>3. kept' = kept
    BY <2>1, <2>2 DEF kept
  <2> QED BY <2>1, <2>3, QuietKept
<1> QED BY <1>2, <1>3, <1>4, <1>5, SendKept, TrimKept, CrashKept DEF Next, Writer

\* Through refusals, retries, a full channel and kills, every event the channel
\* has taken is stored or waits, once and in the channel's order, unless it was
\* trimmed or lost with the process (history.go:172-175, 225-260).
THEOREM KeptInOrder == Spec => []StoredOnceInOrder
<1>1. Init => KeptInv
  <2> SUFFICES ASSUME Init PROVE KeptInv
    OBVIOUS
  <2>1. kept = <<>> /\ order = <<>> /\ trimmed = {} /\ lost = {}
    BY DEF Init, kept
  <2>2. ToSet(kept) = {} /\ ToSet(order) = {}
    BY <2>1 DEF ToSet
  <2>3. AsTaken(kept)
    BY <2>1 DEF AsTaken
  <2> QED BY <2>1, <2>2, <2>3 DEF KeptInv, StoredOnceInOrder, Gone
<1>2. KeptInv => StoredOnceInOrder
  BY DEF KeptInv
<1> QED BY <1>1, <1>2, KeptStep, Invariance, PTL DEF Spec


=============================================================================
