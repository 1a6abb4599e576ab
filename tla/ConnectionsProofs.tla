--------------------------- MODULE ConnectionsProofs ---------------------------
(***************************************************************************)
(* Theorems about Connections for every finite set of connections, every   *)
(* ring and every number of configurations: the counters agree whenever    *)
(* nobody is between two of them, the ring holds the newest records, and   *)
(* no snapshot brings a closed connection back.                            *)
(***************************************************************************)
EXTENDS Connections, Sums, TLAPS

\* The connections that have been recorded, counted in the total, and counted
\* in the aggregate of their host (their copier runs).
Logged == {log[i].conn : i \in DOMAIN log}
Counted == {c \in Conns : pc[c] \in {"aggregate", "live", "append", "event"}} \cup Logged
Aggregated == {c \in Conns : cp[c] # "off"}
Before(l) == {c \in Conns : cp[c] = l}

ConnsOf == [h \in DOMAIN domains |-> domains[h].conns]
UpOf == [h \in DOMAIN domains |-> domains[h].up]

\* Where a handler is tells whether its connection is recorded, its copier
\* started and the aggregate of its host there.
Places ==
  /\ IsFiniteSet(DOMAIN domains)
  /\ \A c \in Conns :
       /\ c \in Logged => pc[c] \in {"event", "gone"}
       /\ pc[c] = "event" => c \in Logged
       /\ cp[c] # "off" <=> pc[c] \in {"live", "append"} \/ c \in Logged
       /\ cp[c] # "off" => HostOf[c] \in DOMAIN domains

\* The newest of the records, as many as the ring takes.
Newest(s, l) ==
  /\ Len(s) = IF Len(l) > ClosedMax THEN ClosedMax ELSE Len(l)
  /\ \A i \in 1 .. Len(s) : s[i] = l[Len(l) - Len(s) + i]

\* The ring is the end of the log, and the log has one record per connection.
Recorded ==
  /\ log \in Seq([conn : Conns, up : 0 .. MaxBytes])
  /\ \A i, j \in DOMAIN log : log[i].conn = log[j].conn => i = j
  /\ Cardinality(Logged) = Len(log)
  /\ Newest(closed, log)

\* At any moment the counters differ by those who are between two of them:
\* CountersAgree says nothing of such a moment, so that it is not inductive.
TotalConns == totalConn = Cardinality(Counted)
HostConns == SumFunction(ConnsOf) = Cardinality(Aggregated)
TotalUp == totalUp + Cardinality(Before("total")) = SumFunction(up)
HostUp == SumFunction(UpOf) + Cardinality(Before("domain")) = totalUp

\* Only recorded connections are shown as closed.
Shown == shown \subseteq Logged /\ NoResurrection

Inv == /\ TypeOK /\ Places /\ Recorded
       /\ TotalConns /\ HostConns /\ TotalUp /\ HostUp /\ Shown

-----------------------------------------------------------------------------
(* Sets of connections, and what the conjuncts depend on.                  *)

\* Their numbers.
LEMMA Numbers ==
  /\ \A T \in SUBSET Conns : /\ IsFiniteSet(T) /\ Cardinality(T) \in Nat
                             /\ Cardinality(T) <= Cardinality(Conns)
  /\ \A T \in SUBSET Conns, c \in Conns :
       /\ c \notin T => Cardinality(T \cup {c}) = Cardinality(T) + 1
       /\ c \in T => Cardinality(T \ {c}) = Cardinality(T) - 1
<1>1. IsFiniteSet(Conns)
  BY ConstantsAssumption
<1>2. \A T \in SUBSET Conns : IsFiniteSet(T) /\ Cardinality(T) <= Cardinality(Conns)
  BY <1>1, FS_Subset
<1>3. \A T \in SUBSET Conns : Cardinality(T) \in Nat
  BY <1>2, FS_CardinalityType
<1>4. ASSUME NEW T \in SUBSET Conns, NEW c \in Conns
      PROVE  /\ c \notin T => Cardinality(T \cup {c}) = Cardinality(T) + 1
             /\ c \in T => Cardinality(T \ {c}) = Cardinality(T) - 1
  <2>1. IsFiniteSet(T)
    BY <1>2
  <2> QED BY <2>1, FS_AddElement, FS_RemoveElement
<1> QED BY <1>2, <1>3, <1>4

\* The least of two numbers.
LEMMA SmallerOf ==
  ASSUME NEW x \in Nat, NEW y \in Nat
  PROVE  Min({x, y}) = IF x <= y THEN x ELSE y
<1> DEFINE S == {x, y}
<1>1. \E n \in S : \A m \in S : n =< m
  OBVIOUS
<1>2. Min(S) \in S /\ \A m \in S : Min(S) =< m
  <2> HIDE DEF S
  <2> QED BY <1>1 DEF Min
<1> QED BY <1>2

\* The elements of a sequence, one more and only the last ones.
LEMMA Elements ==
  ASSUME NEW S, NEW s \in Seq(S)
  PROVE  /\ Len(s) \in Nat /\ DOMAIN s = 1 .. Len(s) /\ \A i \in DOMAIN s : s[i] \in S
         /\ \A e \in S : /\ Append(s, e) \in Seq(S) /\ Len(Append(s, e)) = Len(s) + 1
                        /\ Append(s, e)[Len(s) + 1] = e
                        /\ \A i \in 1 .. Len(s) : Append(s, e)[i] = s[i]
         /\ \A k \in 1 .. Len(s) : /\ SubSeq(s, k, Len(s)) \in Seq(S)
                                  /\ Len(SubSeq(s, k, Len(s))) = Len(s) - k + 1
                                  /\ \A i \in 1 .. Len(s) - k + 1 :
                                       SubSeq(s, k, Len(s))[i] = s[k + i - 1]
OBVIOUS

\* What is recorded is a connection.
LEMMA Members ==
  ASSUME Recorded
  PROVE  /\ Logged \in SUBSET Conns /\ Counted \in SUBSET Conns
         /\ Aggregated \in SUBSET Conns /\ \A l : Before(l) \in SUBSET Conns
<1>1. Logged \in SUBSET Conns
  <2>1. \A i \in DOMAIN log : log[i] \in [conn : Conns, up : 0 .. MaxBytes]
    <3>1. log \in Seq([conn : Conns, up : 0 .. MaxBytes])
      BY DEF Recorded
    <3> QED BY <3>1, Elements
  <2>2. \A i \in DOMAIN log : log[i].conn \in Conns
    BY <2>1
  <2> QED BY <2>2 DEF Logged
<1>2. Counted \in SUBSET Conns
  BY <1>1 DEF Counted
<1>3. Aggregated \in SUBSET Conns /\ \A l : Before(l) \in SUBSET Conns
  BY DEF Aggregated, Before
<1> QED BY <1>1, <1>2, <1>3

\* The steps of a handler between the places where something is counted.
LEMMA Moved ==
  ASSUME TypeOK, Places, NEW c \in Conns, NEW l \in HandlerPC, Goto(c, l),
         UNCHANGED <<log, cp, domains>>,
         pc[c] \in {"live", "append"} <=> l \in {"live", "append"},
         l # "event", c \in Logged => l = "gone"
  PROVE  /\ Places' /\ HostConns' = HostConns
         /\ pc' \in [Conns -> HandlerPC] /\ pc'[c] = l
         /\ \A d \in Conns \ {c} : pc'[d] = pc[d]
         /\ Logged' = Logged
<1>1. /\ pc' \in [Conns -> HandlerPC] /\ pc'[c] = l
      /\ \A d \in Conns \ {c} : pc'[d] = pc[d]
  BY DEF Goto, TypeOK
<1>2. Logged' = Logged /\ HostConns' = HostConns
  BY DEF Logged, HostConns, ConnsOf, Aggregated
<1>3. Places'
  <2>1. IsFiniteSet(DOMAIN domains')
    BY DEF Places
  <2>2. ASSUME NEW d \in Conns
        PROVE  /\ d \in Logged' => pc'[d] \in {"event", "gone"}
               /\ pc'[d] = "event" => d \in Logged'
               /\ cp'[d] # "off" <=> pc'[d] \in {"live", "append"} \/ d \in Logged'
               /\ cp'[d] # "off" => HostOf[d] \in DOMAIN domains'
    BY <1>1, <1>2 DEF Places
  <2> QED BY <2>1, <2>2 DEF Places
<1> QED BY <1>1, <1>2, <1>3

-----------------------------------------------------------------------------
(* The invariant.                                                          *)

\* A process starts with an empty table.
LEMMA InvInit == Init => Inv
<1> SUFFICES ASSUME Init PROVE Inv
  OBVIOUS
<1>1. TypeOK
  <2>1. conns = {c \in Conns : Registered(c)}
    BY DEF Init, Registered
  <2>2. <<>> \in Seq([conn : Conns, up : 0 .. MaxBytes]) /\ Len(<<>>) = 0
    OBVIOUS
  <2>3. Cardinality(Conns) \in Nat
    BY Numbers
  <2> QED BY <2>1, <2>2, <2>3, ConstantsAssumption DEF Init, TypeOK, HandlerPC
<1>2. log = <<>> /\ closed = <<>> /\ Len(<<>>) = 0 /\ DOMAIN log = {} /\ Logged = {}
  BY DEF Init, Logged
<1>3. Places
  <2>1. DOMAIN domains = {} /\ IsFiniteSet({})
    BY FS_EmptySet DEF Init
  <2>2. \A c \in Conns : pc[c] = "accepted" /\ cp[c] = "off"
    BY DEF Init
  <2> QED BY <1>2, <2>1, <2>2 DEF Places
<1>4. Recorded
  <2>1. log \in Seq([conn : Conns, up : 0 .. MaxBytes])
    BY <1>2
  <2>2. Cardinality(Logged) = 0
    BY <1>2, FS_EmptySet
  <2> QED BY <1>2, <2>1, <2>2, ConstantsAssumption DEF Recorded, Newest
<1>5. TotalConns /\ HostConns /\ TotalUp /\ HostUp
  <2>1. Counted = {} /\ Aggregated = {} /\ Before("total") = {} /\ Before("domain") = {}
    BY <1>2 DEF Init, Counted, Aggregated, Before
  <2>2. Cardinality({}) = 0
    BY FS_EmptySet
  <2>3. SumFunction(ConnsOf) = 0 /\ SumFunction(UpOf) = 0
    <3>1. DOMAIN ConnsOf = {} /\ DOMAIN UpOf = {}
      BY DEF Init, ConnsOf, UpOf
    <3> QED BY <3>1, SumOfNothing DEF SumFunction
  <2>4. SumFunction(up) = 0
    <3>1. DOMAIN up = Conns /\ \A c \in Conns : up[c] = 0
      BY DEF Init
    <3> QED BY <3>1, SumOfZeros, ConstantsAssumption DEF SumFunction
  <2>5. totalConn = 0 /\ totalUp = 0
    BY DEF Init
  <2> QED BY <2>1, <2>2, <2>3, <2>4, <2>5 DEF TotalConns, HostConns, TotalUp, HostUp
<1>6. Shown
  BY DEF Init, Shown, NoResurrection
<1> QED BY <1>1, <1>3, <1>4, <1>5, <1>6 DEF Inv

\* A handler before its connection is counted.
LEMMA EarlyInv ==
  ASSUME Inv, NEW c \in Conns, LoadConfig(c) \/ Dial(c) \/ Insert(c)
  PROVE  Inv'
<1>1. PICK l \in {"dial", "insert", "gone", "total"} :
        /\ Goto(c, l) /\ pc[c] \in {"accepted", "dial", "insert"}
        /\ l = "total" <=> Insert(c)
        /\ UNCHANGED <<log, cp, domains, totalConn, totalUp, up, closed, shown, hub, active>>
        /\ UNCHANGED <<gen, killed, req, targets>>
        /\ cfg' \in [Conns -> 0 .. MaxGen]
        /\ conns' = IF l = "total" THEN conns \cup {c} ELSE conns
  <2>1. CASE LoadConfig(c)
    <3>1. cfg' \in [Conns -> 0 .. MaxGen]
      BY <2>1 DEF LoadConfig, Inv, TypeOK
    <3> QED BY <2>1, <3>1 DEF LoadConfig, Insert, ring, counters, panel, request, feed
  <2>2. CASE Dial(c)
    BY <2>2 DEF Dial, Insert, Inv, TypeOK, ring, counters, panel, request, feed
  <2>3. CASE Insert(c)
    BY <2>3 DEF Insert, Inv, TypeOK, ring, counters, panel, request, feed
  <2> QED BY <2>1, <2>2, <2>3
<1>2. c \notin Logged
  BY <1>1 DEF Inv, Places
<1>3. /\ Places' /\ HostConns' = HostConns
      /\ pc' \in [Conns -> HandlerPC] /\ pc'[c] = l
      /\ \A d \in Conns \ {c} : pc'[d] = pc[d]
      /\ Logged' = Logged
  BY <1>1, <1>2, Moved DEF Inv, HandlerPC
<1>4. TypeOK'
  <2>1. conns' = {d \in Conns : Registered(d)'}
    BY <1>1, <1>3 DEF Inv, TypeOK, Registered
  <2> QED BY <1>1, <1>3, <2>1 DEF Inv, TypeOK
<1>5. Counted' = Counted
  BY <1>1, <1>2, <1>3 DEF Counted
<1> QED BY <1>1, <1>3, <1>4, <1>5 DEF Inv, Recorded, TotalConns, TotalUp, HostUp, Shown,
          NoResurrection, UpOf, Before

\* register counts the connection in the total.
LEMMA CountInv ==
  ASSUME Inv, NEW c \in Conns, CountConn(c)
  PROVE  Inv'
<1>1. /\ Goto(c, "aggregate") /\ pc[c] = "total" /\ totalConn' = totalConn + 1
      /\ UNCHANGED <<log, cp, domains, conns, totalUp, up, closed, shown, hub, active>>
      /\ UNCHANGED <<gen, cfg, killed, req, targets>>
  BY DEF CountConn, ring, counters, panel, request, feed
<1>2. c \notin Logged
  BY <1>1 DEF Inv, Places
<1>3. /\ Places' /\ HostConns' = HostConns
      /\ pc' \in [Conns -> HandlerPC] /\ pc'[c] = "aggregate"
      /\ \A d \in Conns \ {c} : pc'[d] = pc[d]
      /\ Logged' = Logged
  BY <1>1, <1>2, Moved DEF Inv, HandlerPC
<1>4. Counted' = Counted \cup {c} /\ c \notin Counted
  BY <1>1, <1>2, <1>3 DEF Counted
<1>5. Counted \in SUBSET Conns /\ Counted' \in SUBSET Conns
  BY <1>4, Members DEF Inv
<1>6. TotalConns' /\ totalConn' \in 0 .. Cardinality(Conns)
  <2>1. Cardinality(Counted') = totalConn + 1 /\ totalConn \in Nat
    BY <1>4, <1>5, Numbers DEF Inv, TotalConns
  <2> QED BY <1>1, <1>5, <2>1, Numbers DEF TotalConns
<1>7. TypeOK'
  <2>1. conns' = {d \in Conns : Registered(d)'}
    BY <1>1, <1>3 DEF Inv, TypeOK, Registered
  <2> QED BY <1>1, <1>3, <1>6, <2>1 DEF Inv, TypeOK
<1> QED BY <1>1, <1>3, <1>6, <1>7 DEF Inv, Recorded, TotalUp, HostUp, Shown,
          NoResurrection, UpOf, Before

\* The aggregate of the host: made if it is not there.
LEMMA AggregateInv ==
  ASSUME Inv, NEW c \in Conns, Aggregate(c)
  PROVE  Inv'
<1> DEFINE h == HostOf[c]
           D == DOMAIN domains
<1>1. /\ pc[c] = "aggregate" /\ pc' = [pc EXCEPT ![c] = "live"]
      /\ cp' = [cp EXCEPT ![c] = "run"]
      /\ domains' = [x \in D \cup {h} |->
                       IF x = h THEN [Entry(h) EXCEPT !.conns = @ + 1] ELSE domains[x]]
      /\ UNCHANGED <<log, conns, totalConn, totalUp, up, closed, shown, hub, active>>
      /\ UNCHANGED <<gen, cfg, killed, req, targets>>
  BY DEF Aggregate, Goto, ring, counters, panel, request, feed
<1>2. /\ pc \in [Conns -> HandlerPC] /\ cp \in [Conns -> {"off", "run", "read", "total", "domain"}]
      /\ D \subseteq Hosts /\ \A x \in D : domains[x] \in [conns : Nat, up : Nat]
      /\ IsFiniteSet(D) /\ h \in Hosts
  BY ConstantsAssumption DEF Inv, TypeOK, Places
<1>3. c \notin Logged /\ cp[c] = "off" /\ Logged' = Logged
  BY <1>1, <1>2 DEF Inv, Places, Logged
<1>4. /\ pc' \in [Conns -> HandlerPC] /\ pc'[c] = "live"
      /\ cp' \in [Conns -> {"off", "run", "read", "total", "domain"}] /\ cp'[c] = "run"
      /\ \A d \in Conns \ {c} : pc'[d] = pc[d] /\ cp'[d] = cp[d]
  BY <1>1, <1>2 DEF HandlerPC
<1>5. Entry(h) \in [conns : Nat, up : Nat]
  BY <1>2 DEF Entry, NoEntry
<1>6. /\ DOMAIN domains' = D \cup {h}
      /\ domains'[h] = [Entry(h) EXCEPT !.conns = @ + 1]
      /\ \A x \in D \ {h} : domains'[x] = domains[x]
  BY <1>1
<1>7. /\ domains'[h] \in [conns : Nat, up : Nat]
      /\ domains'[h].conns = (IF h \in D THEN domains[h].conns ELSE 0) + 1
      /\ domains'[h].up = (IF h \in D THEN domains[h].up ELSE 0) + 0
  BY <1>2, <1>5, <1>6 DEF Entry, NoEntry
<1>8. IsFiniteSet(D \cup {h})
  BY <1>2, FS_AddElement
<1>9. TypeOK'
  <2>1. conns' = {d \in Conns : Registered(d)'}
    BY <1>1, <1>4 DEF Inv, TypeOK, Registered
  <2>2. /\ DOMAIN domains' \subseteq Hosts
        /\ \A x \in DOMAIN domains' : domains'[x] \in [conns : Nat, up : Nat]
    BY <1>2, <1>6, <1>7
  <2> QED BY <1>1, <1>4, <2>1, <2>2 DEF Inv, TypeOK
<1>a. Places'
  <2>1. ASSUME NEW d \in Conns
        PROVE  /\ d \in Logged' => pc'[d] \in {"event", "gone"}
               /\ pc'[d] = "event" => d \in Logged'
               /\ cp'[d] # "off" <=> pc'[d] \in {"live", "append"} \/ d \in Logged'
               /\ cp'[d] # "off" => HostOf[d] \in DOMAIN domains'
    BY <1>3, <1>4, <1>6 DEF Inv, Places
  <2> QED BY <1>6, <1>8, <2>1 DEF Places
<1>b. TotalConns' /\ Counted' = Counted
  BY <1>1, <1>3, <1>4 DEF Inv, TotalConns, Counted
<1>c. Aggregated' = Aggregated \cup {c} /\ c \notin Aggregated
  BY <1>3, <1>4 DEF Aggregated
<1>d. Before("total")' = Before("total") /\ Before("domain")' = Before("domain")
  BY <1>3, <1>4 DEF Before
<1>e. /\ DOMAIN ConnsOf = D /\ DOMAIN ConnsOf' = D \cup {h}
      /\ DOMAIN UpOf = D /\ DOMAIN UpOf' = D \cup {h}
      /\ \A x \in D : /\ ConnsOf[x] = domains[x].conns /\ ConnsOf[x] \in Int
                      /\ UpOf[x] = domains[x].up /\ UpOf[x] \in Int
      /\ \A x \in D \cup {h} : ConnsOf'[x] = domains'[x].conns /\ UpOf'[x] = domains'[x].up
  BY <1>2, <1>6 DEF ConnsOf, UpOf
<1>f. HostConns'
  <2>1. \A x \in D \ {h} : ConnsOf'[x] = ConnsOf[x]
    BY <1>6, <1>e
  <2>2. ConnsOf'[h] = (IF h \in D THEN ConnsOf[h] ELSE 0) + 1
    BY <1>7, <1>e
  <2>3. SumFunctionOnSet(ConnsOf', D \cup {h}) = SumFunctionOnSet(ConnsOf, D) + 1
    BY <1>2, <1>e, <2>1, <2>2, SumGrow
  <2>4. Cardinality(Aggregated \cup {c}) = Cardinality(Aggregated) + 1
    BY <1>c, Numbers, Members DEF Inv
  <2> QED BY <1>c, <1>e, <2>3, <2>4 DEF Inv, HostConns, SumFunction
<1>g. HostUp'
  <2>1. \A x \in D \ {h} : UpOf'[x] = UpOf[x]
    BY <1>6, <1>e
  <2>2. UpOf'[h] = (IF h \in D THEN UpOf[h] ELSE 0) + 0
    BY <1>7, <1>e
  <2>3. SumFunctionOnSet(UpOf', D \cup {h}) = SumFunctionOnSet(UpOf, D) + 0
    BY <1>2, <1>e, <2>1, <2>2, SumGrow
  <2>4. SumFunctionOnSet(UpOf, D) \in Int
    BY <1>2, <1>e, SumIsInt
  <2> QED BY <1>1, <1>d, <1>e, <2>3, <2>4 DEF Inv, HostUp, SumFunction
<1>h. Recorded' /\ TotalUp' /\ Shown'
  BY <1>1, <1>3, <1>d DEF Inv, Recorded, TotalUp, Shown, NoResurrection
<1> QED BY <1>9, <1>a, <1>b, <1>f, <1>g, <1>h DEF Inv

-----------------------------------------------------------------------------
(* The copier.                                                             *)

\* A copier between its counters: what no counter shows.
LEMMA CopierMoved ==
  ASSUME Inv, NEW c \in Conns, NEW l \in {"run", "read", "total", "domain"},
         cp' = [cp EXCEPT ![c] = l], cp[c] # "off",
         UNCHANGED <<pc, log>>, DOMAIN domains' = DOMAIN domains
  PROVE  /\ cp' \in [Conns -> {"off", "run", "read", "total", "domain"}]
         /\ Places' /\ Aggregated' = Aggregated /\ Logged' = Logged /\ Counted' = Counted
         /\ \A k \in {"total", "domain"} :
              /\ k = l => Before(k)' = Before(k) \cup {c}
              /\ k # l => Before(k)' = Before(k) \ {c}
              /\ c \in Before(k) <=> cp[c] = k
              /\ Before(k) \in SUBSET Conns
<1>1. cp \in [Conns -> {"off", "run", "read", "total", "domain"}]
  BY DEF Inv, TypeOK
<1>2. /\ cp' \in [Conns -> {"off", "run", "read", "total", "domain"}] /\ cp'[c] = l
      /\ \A d \in Conns \ {c} : cp'[d] = cp[d]
  BY <1>1
<1>3. Logged' = Logged /\ Counted' = Counted
  BY DEF Logged, Counted
<1>4. Places'
  <2>1. ASSUME NEW d \in Conns
        PROVE  /\ d \in Logged' => pc'[d] \in {"event", "gone"}
               /\ pc'[d] = "event" => d \in Logged'
               /\ cp'[d] # "off" <=> pc'[d] \in {"live", "append"} \/ d \in Logged'
               /\ cp'[d] # "off" => HostOf[d] \in DOMAIN domains'
    BY <1>2, <1>3 DEF Inv, Places
  <2> QED BY <2>1 DEF Inv, Places
<1>5. Aggregated' = Aggregated
  BY <1>2 DEF Aggregated
<1>6. ASSUME NEW k \in {"total", "domain"}
      PROVE  /\ k = l => Before(k)' = Before(k) \cup {c}
             /\ k # l => Before(k)' = Before(k) \ {c}
             /\ c \in Before(k) <=> cp[c] = k
             /\ Before(k) \in SUBSET Conns
  BY <1>2 DEF Before
<1> QED BY <1>2, <1>3, <1>4, <1>5, <1>6

\* What has been read and not counted yet shows in no counter.
LEMMA ReadInv ==
  ASSUME Inv, NEW c \in Conns, Read(c)
  PROVE  Inv'
<1>1. /\ cp[c] = "run" /\ cp' = [cp EXCEPT ![c] = "read"]
      /\ UNCHANGED <<pc, log, domains, conns, totalConn, totalUp, up, closed, shown, hub, active>>
      /\ UNCHANGED <<gen, cfg, killed, req, targets>>
  BY DEF Read, handlers, ring, panel, request, feed
<1>2. /\ cp' \in [Conns -> {"off", "run", "read", "total", "domain"}]
      /\ Places' /\ Aggregated' = Aggregated /\ Logged' = Logged /\ Counted' = Counted
      /\ Before("total")' = Before("total") /\ Before("domain")' = Before("domain")
  BY <1>1, CopierMoved
<1>3. TypeOK'
  BY <1>1, <1>2 DEF Inv, TypeOK, Registered
<1>4. TotalUp' /\ HostUp' /\ HostConns'
  BY <1>1, <1>2 DEF Inv, TotalUp, HostUp, HostConns, ConnsOf, UpOf
<1> QED BY <1>1, <1>2, <1>3, <1>4 DEF Inv, Recorded, TotalConns, Shown, NoResurrection

\* The counters of the connection itself.
LEMMA MetaInv ==
  ASSUME Inv, NEW c \in Conns, CountMeta(c)
  PROVE  Inv'
<1>1. /\ cp[c] = "read" /\ cp' = [cp EXCEPT ![c] = "total"]
      /\ up[c] < MaxBytes /\ up' = [up EXCEPT ![c] = @ + 1]
      /\ UNCHANGED <<pc, log, domains, conns, totalConn, totalUp, closed, shown, hub, active>>
      /\ UNCHANGED <<gen, cfg, killed, req, targets>>
  BY DEF CountMeta, handlers, ring, panel, request, feed
<1>2. /\ cp' \in [Conns -> {"off", "run", "read", "total", "domain"}]
      /\ Places' /\ Aggregated' = Aggregated /\ Logged' = Logged /\ Counted' = Counted
      /\ Before("total")' = Before("total") \cup {c} /\ c \notin Before("total")
      /\ Before("domain")' = Before("domain") \ {c} /\ c \notin Before("domain")
      /\ Before("total") \in SUBSET Conns
  BY <1>1, CopierMoved
<1>3. Cardinality(Before("total")') = Cardinality(Before("total")) + 1
  BY <1>2, Numbers
<1>4. up \in [Conns -> 0 .. MaxBytes] /\ MaxBytes \in Nat
  BY ConstantsAssumption DEF Inv, TypeOK
<1>5. /\ up' \in [Conns -> 0 .. MaxBytes] /\ up'[c] = up[c] + 1
      /\ \A d \in Conns \ {c} : up'[d] = up[d]
  BY <1>1, <1>4
<1>6. SumFunction(up') = SumFunction(up) + 1
  <2>1. IsFiniteSet(Conns) /\ DOMAIN up = Conns /\ DOMAIN up' = Conns
    BY <1>4, <1>5, ConstantsAssumption
  <2>2. (\A d \in Conns : up[d] \in Int) /\ up'[c] \in Int /\ up'[c] - up[c] = 1
    BY <1>4, <1>5
  <2>3. SumFunctionOnSet(up', Conns) = SumFunctionOnSet(up, Conns) + (up'[c] - up[c])
    BY <1>5, <2>1, <2>2, SumChange
  <2> QED BY <2>1, <2>2, <2>3 DEF SumFunction
<1>7. TypeOK'
  BY <1>1, <1>2, <1>5 DEF Inv, TypeOK, Registered
<1>8. TotalUp'
  <2>1. Cardinality(Before("total")) \in Nat /\ totalUp \in Nat
    BY <1>2, Numbers DEF Inv, TypeOK
  <2> QED BY <1>1, <1>3, <1>6, <2>1 DEF Inv, TotalUp
<1>9. HostUp' /\ HostConns'
  <2>1. Before("domain")' = Before("domain")
    BY <1>2
  <2> QED BY <1>1, <1>2, <2>1 DEF Inv, HostUp, HostConns, ConnsOf, UpOf
<1> QED BY <1>1, <1>2, <1>7, <1>8, <1>9 DEF Inv, Recorded, TotalConns, Shown, NoResurrection

\* The totals.
LEMMA TotalInv ==
  ASSUME Inv, NEW c \in Conns, CountTotal(c)
  PROVE  Inv'
<1>1. /\ cp[c] = "total" /\ cp' = [cp EXCEPT ![c] = "domain"] /\ totalUp' = totalUp + 1
      /\ UNCHANGED <<pc, log, domains, conns, totalConn, up, closed, shown, hub, active>>
      /\ UNCHANGED <<gen, cfg, killed, req, targets>>
  BY DEF CountTotal, handlers, ring, panel, request, feed
<1>2. /\ cp' \in [Conns -> {"off", "run", "read", "total", "domain"}]
      /\ Places' /\ Aggregated' = Aggregated /\ Logged' = Logged /\ Counted' = Counted
      /\ Before("total")' = Before("total") \ {c} /\ c \in Before("total")
      /\ Before("domain")' = Before("domain") \cup {c} /\ c \notin Before("domain")
      /\ Before("total") \in SUBSET Conns /\ Before("domain") \in SUBSET Conns
  BY <1>1, CopierMoved
<1>3. /\ Cardinality(Before("total")') = Cardinality(Before("total")) - 1
      /\ Cardinality(Before("domain")') = Cardinality(Before("domain")) + 1
      /\ Cardinality(Before("total")) \in Nat /\ Cardinality(Before("domain")) \in Nat
  BY <1>2, Numbers
<1>4. TypeOK'
  BY <1>1, <1>2 DEF Inv, TypeOK, Registered
<1>5. TotalUp'
  BY <1>1, <1>3 DEF Inv, TotalUp, TypeOK
<1>6. HostUp' /\ HostConns'
  <2>1. UpOf' = UpOf /\ ConnsOf' = ConnsOf
    BY <1>1 DEF UpOf, ConnsOf
  <2>2. SumFunction(UpOf) \in Int
    <3>1. \A h \in DOMAIN domains : UpOf[h] \in Int
      BY DEF UpOf, Inv, TypeOK
    <3>2. DOMAIN UpOf = DOMAIN domains /\ IsFiniteSet(DOMAIN domains)
      BY DEF UpOf, Inv, Places
    <3> QED BY <3>1, <3>2, SumIsInt DEF SumFunction
  <2> QED BY <1>1, <1>2, <1>3, <2>1, <2>2 DEF Inv, HostUp, HostConns
<1> QED BY <1>1, <1>2, <1>4, <1>5, <1>6 DEF Inv, Recorded, TotalConns, Shown, NoResurrection

\* The counters of the domain.
LEMMA DomainInv ==
  ASSUME Inv, NEW c \in Conns, CountDomain(c)
  PROVE  Inv'
<1> DEFINE h == HostOf[c]
           D == DOMAIN domains
<1>1. /\ cp[c] = "domain" /\ cp' = [cp EXCEPT ![c] = "run"]
      /\ domains' = [x \in D |-> IF x = h THEN [domains[x] EXCEPT !.up = @ + 1] ELSE domains[x]]
      /\ UNCHANGED <<pc, log, totalUp, conns, totalConn, up, closed, shown, hub, active>>
      /\ UNCHANGED <<gen, cfg, killed, req, targets>>
  BY DEF CountDomain, handlers, ring, panel, request, feed
<1>2. /\ cp' \in [Conns -> {"off", "run", "read", "total", "domain"}]
      /\ Places' /\ Aggregated' = Aggregated /\ Logged' = Logged /\ Counted' = Counted
      /\ Before("total")' = Before("total") \ {c} /\ c \notin Before("total")
      /\ Before("domain")' = Before("domain") \ {c} /\ c \in Before("domain")
      /\ Before("domain") \in SUBSET Conns
  BY <1>1, CopierMoved
<1>3. /\ Cardinality(Before("domain")') = Cardinality(Before("domain")) - 1
      /\ Cardinality(Before("domain")) \in Nat
  BY <1>2, Numbers
<1>4. /\ h \in D /\ IsFiniteSet(D)
      /\ D \subseteq Hosts /\ \A x \in D : domains[x] \in [conns : Nat, up : Nat]
  BY <1>1 DEF Inv, Places, TypeOK
<1>5. /\ DOMAIN domains' = D
      /\ domains'[h] \in [conns : Nat, up : Nat]
      /\ domains'[h].up = domains[h].up + 1 /\ domains'[h].conns = domains[h].conns
      /\ \A x \in D \ {h} : domains'[x] = domains[x]
  BY <1>1, <1>4
<1>6. TypeOK'
  <2>1. \A x \in DOMAIN domains' : domains'[x] \in [conns : Nat, up : Nat]
    BY <1>4, <1>5
  <2> QED BY <1>1, <1>2, <1>4, <1>5, <2>1 DEF Inv, TypeOK, Registered
<1>7. ConnsOf' = ConnsOf
  BY <1>5 DEF ConnsOf
<1>8. SumFunction(UpOf') = SumFunction(UpOf) + 1 /\ SumFunction(UpOf) \in Int
  <2>1. /\ DOMAIN UpOf = D /\ DOMAIN UpOf' = D
        /\ \A x \in D : UpOf[x] = domains[x].up /\ UpOf'[x] = domains'[x].up /\ UpOf[x] \in Int
    BY <1>4, <1>5 DEF UpOf
  <2>2. UpOf'[h] \in Int /\ UpOf'[h] - UpOf[h] = 1 /\ \A x \in D \ {h} : UpOf'[x] = UpOf[x]
    BY <1>4, <1>5, <2>1
  <2>3. SumFunctionOnSet(UpOf', D) = SumFunctionOnSet(UpOf, D) + (UpOf'[h] - UpOf[h])
    BY <1>4, <2>1, <2>2, SumChange
  <2>4. SumFunctionOnSet(UpOf, D) \in Int
    BY <1>4, <2>1, SumIsInt
  <2> QED BY <2>1, <2>2, <2>3, <2>4 DEF SumFunction
<1>9. HostUp' /\ HostConns'
  BY <1>1, <1>2, <1>3, <1>7, <1>8 DEF Inv, HostUp, HostConns
<1>a. TotalUp'
  <2>1. Before("total")' = Before("total")
    BY <1>2
  <2> QED BY <1>1, <2>1 DEF Inv, TotalUp
<1> QED BY <1>1, <1>2, <1>6, <1>9, <1>a DEF Inv, Recorded, TotalConns, Shown, NoResurrection

-----------------------------------------------------------------------------
(* unregister.                                                             *)

\* unregister takes the connection out of the table.
LEMMA DeleteInv ==
  ASSUME Inv, NEW c \in Conns, Delete(c)
  PROVE  Inv'
<1>1. /\ Goto(c, "append") /\ pc[c] = "live"
      /\ conns' = conns \ {c} /\ killed' = killed \ {c}
      /\ UNCHANGED <<log, cp, domains, totalConn, totalUp, up, closed, shown, hub, active>>
      /\ UNCHANGED <<gen, cfg, req, targets>>
  BY DEF Delete, ring, counters, request, feed
<1>2. c \notin Logged
  BY <1>1 DEF Inv, Places
<1>3. /\ Places' /\ HostConns' = HostConns
      /\ pc' \in [Conns -> HandlerPC] /\ pc'[c] = "append"
      /\ \A d \in Conns \ {c} : pc'[d] = pc[d]
      /\ Logged' = Logged
  BY <1>1, <1>2, Moved DEF Inv, HandlerPC
<1>4. TypeOK'
  <2>1. conns' = {d \in Conns : Registered(d)'}
    BY <1>1, <1>3 DEF Inv, TypeOK, Registered
  <2> QED BY <1>1, <1>3, <2>1 DEF Inv, TypeOK
<1>5. Counted' = Counted
  BY <1>1, <1>2, <1>3 DEF Counted
<1> QED BY <1>1, <1>3, <1>4, <1>5 DEF Inv, Recorded, TotalConns, TotalUp, HostUp, Shown,
          NoResurrection, UpOf, Before

\* The ring keeps being the end of the log.
LEMMA RingMoves ==
  ASSUME NEW R, NEW l \in Seq(R), NEW s \in Seq(R), NEW r \in R, Newest(s, l)
  PROVE  /\ Trim(Append(s, r)) \in Seq(R)
         /\ Newest(Trim(Append(s, r)), Append(l, r))
<1> DEFINE m == Append(l, r)
           a == Append(s, r)
<1>1. /\ m \in Seq(R) /\ Len(m) = Len(l) + 1 /\ Len(l) \in Nat
      /\ a \in Seq(R) /\ Len(a) = Len(s) + 1 /\ Len(s) \in Nat
      /\ ClosedMax \in Nat \ {0}
  BY Elements, ConstantsAssumption
<1>2. ASSUME NEW i \in 1 .. Len(a)
      PROVE  a[i] = m[Len(l) - Len(s) + i]
  <2>1. /\ m[Len(l) + 1] = r /\ \A k \in 1 .. Len(l) : m[k] = l[k]
        /\ a[Len(s) + 1] = r /\ \A k \in 1 .. Len(s) : a[k] = s[k]
    BY Elements
  <2>2. Len(s) <= Len(l) /\ \A k \in 1 .. Len(s) : s[k] = l[Len(l) - Len(s) + k]
    <3>1. /\ Len(s) = IF Len(l) > ClosedMax THEN ClosedMax ELSE Len(l)
          /\ \A k \in 1 .. Len(s) : s[k] = l[Len(l) - Len(s) + k]
      BY DEF Newest
    <3> HIDE DEF m, a
    <3>2. Len(l) \in Nat /\ ClosedMax \in Nat
      BY <1>1
    <3>3. Len(s) <= Len(l)
      BY <3>1, <3>2
    <3> QED BY <3>1, <3>3
  <2> DEFINE k == Len(l) - Len(s) + i
  <2> HIDE DEF m, a
  <2>3. CASE i = Len(s) + 1
    <3>1. k = Len(l) + 1
      BY <1>1, <2>3
    <3> QED BY <2>1, <2>3, <3>1
  <2>4. CASE i \in 1 .. Len(s)
    <3>1. k \in 1 .. Len(l)
      BY <1>1, <2>2, <2>4
    <3>2. s[i] = l[k]
      BY <2>2, <2>4
    <3> HIDE DEF k
    <3>3. a[i] = m[k]
      BY <2>1, <2>4, <3>1, <3>2
    <3> QED BY <3>3 DEF k
  <2>5. i = Len(s) + 1 \/ i \in 1 .. Len(s)
    BY <1>1
  <2> QED BY <2>3, <2>4, <2>5
<1>3. Len(s) = IF Len(l) > ClosedMax THEN ClosedMax ELSE Len(l)
  BY DEF Newest
<1> HIDE DEF m, a
<1>4. CASE Len(a) > ClosedMax
  <2> DEFINE n == Len(a) - ClosedMax + 1
             t == SubSeq(a, n, Len(a))
  <2>1. n \in 1 .. Len(a) /\ Len(a) - n + 1 = ClosedMax /\ Len(m) > ClosedMax
    BY <1>1, <1>3, <1>4
  <2>2. Trim(a) = t
    BY <1>4 DEF Trim
  <2>3. n \in 1 .. Len(a) => /\ t \in Seq(R) /\ Len(t) = Len(a) - n + 1
                             /\ \A i \in 1 .. Len(a) - n + 1 : t[i] = a[n + i - 1]
    <3> HIDE DEF n
    <3> QED BY <1>1, Elements
  <2>4. t \in Seq(R) /\ Len(t) = ClosedMax /\ \A i \in 1 .. ClosedMax : t[i] = a[n + i - 1]
    BY <2>1, <2>3
  <2> HIDE DEF t
  <2>5. ASSUME NEW i \in 1 .. ClosedMax PROVE t[i] = m[Len(m) - ClosedMax + i]
    <3> DEFINE j == n + i - 1
               k == Len(m) - ClosedMax + i
    <3>1. j \in 1 .. Len(a) /\ Len(l) - Len(s) + j = k
      BY <1>1, <1>4
    <3>2. t[i] = a[j]
      BY <2>4
    <3> HIDE DEF j, k, n
    <3>3. t[i] = m[k]
      BY <1>2, <3>1, <3>2
    <3> QED BY <3>3 DEF k
  <2>6. Newest(t, m)
    BY <2>1, <2>4, <2>5 DEF Newest
  <2> QED BY <2>2, <2>4, <2>6 DEF m, a
<1>5. CASE ~ (Len(a) > ClosedMax)
  <2>1. Len(l) - Len(s) = 0 /\ Len(a) = Len(m) /\ ~ (Len(m) > ClosedMax)
    BY <1>1, <1>3, <1>5
  <2>2. Trim(a) = a
    BY <1>5 DEF Trim
  <2>3. ASSUME NEW i \in 1 .. Len(a) PROVE a[i] = m[Len(m) - Len(a) + i]
    <3>1. Len(l) - Len(s) + i = i /\ Len(m) - Len(a) + i = i
      BY <1>1, <2>1
    <3> QED BY <1>2, <3>1
  <2>4. Newest(a, m)
    BY <2>1, <2>3 DEF Newest
  <2> QED BY <1>1, <2>2, <2>4 DEF m, a
<1> QED BY <1>4, <1>5

\* unregister appends the record to the ring.
LEMMA AppendInv ==
  ASSUME Inv, NEW c \in Conns, AppendRecord(c)
  PROVE  Inv'
<1> DEFINE r == [conn |-> c, up |-> up[c]]
           R == [conn : Conns, up : 0 .. MaxBytes]
<1>1. /\ pc[c] = "append" /\ pc' = [pc EXCEPT ![c] = "event"]
      /\ log' = Append(log, r) /\ closed' = Trim(Append(closed, r))
      /\ UNCHANGED <<conns, cp, domains, totalConn, totalUp, up, shown, hub, active>>
      /\ UNCHANGED <<gen, cfg, killed, req, targets>>
  BY DEF AppendRecord, Goto, ring, counters, panel, request, feed
<1>2. r \in R /\ log \in Seq(R) /\ closed \in Seq(R)
  BY DEF Inv, TypeOK, Recorded
<1>3. c \notin Logged /\ cp[c] # "off" /\ pc \in [Conns -> HandlerPC]
  BY <1>1 DEF Inv, Places, TypeOK
<1>4. /\ pc' \in [Conns -> HandlerPC] /\ pc'[c] = "event"
      /\ \A d \in Conns \ {c} : pc'[d] = pc[d]
  BY <1>1, <1>3 DEF HandlerPC
<1>5. /\ log' \in Seq(R) /\ Len(log) \in Nat /\ DOMAIN log = 1 .. Len(log)
      /\ Len(log') = Len(log) + 1 /\ DOMAIN log' = 1 .. Len(log) + 1
      /\ log'[Len(log) + 1] = r /\ \A i \in DOMAIN log : log'[i] = log[i]
  <2>1. Append(log, r) \in Seq(R)
    BY <1>2, Elements
  <2> HIDE DEF r, R
  <2> QED BY <1>1, <1>2, <2>1, Elements
<1>6. Logged' = Logged \cup {c}
  <2>1. DOMAIN log' = DOMAIN log \cup {Len(log) + 1}
    BY <1>5
  <2>2. r.conn = c
    OBVIOUS
  <2> QED BY <1>5, <2>1, <2>2 DEF Logged
<1>7. Places'
  <2>1. ASSUME NEW d \in Conns
        PROVE  /\ d \in Logged' => pc'[d] \in {"event", "gone"}
               /\ pc'[d] = "event" => d \in Logged'
               /\ cp'[d] # "off" <=> pc'[d] \in {"live", "append"} \/ d \in Logged'
               /\ cp'[d] # "off" => HostOf[d] \in DOMAIN domains'
    BY <1>1, <1>3, <1>4, <1>6 DEF Inv, Places
  <2> QED BY <1>1, <2>1 DEF Inv, Places
<1>8. /\ closed' \in Seq(R)
      /\ Newest(closed', log')
  <2>1. Newest(closed, log)
    BY DEF Inv, Recorded
  <2> HIDE DEF r, R
  <2>2. /\ Trim(Append(closed, r)) \in Seq(R)
        /\ Newest(Trim(Append(closed, r)), Append(log, r))
    BY <1>2, <2>1, RingMoves
  <2> QED BY <1>1, <2>2
<1>9. Recorded'
  <2>1. ASSUME NEW i \in DOMAIN log', NEW j \in DOMAIN log', log'[i].conn = log'[j].conn
        PROVE  i = j
    <3>1. \A k \in DOMAIN log : log'[k].conn # c
      BY <1>3, <1>5 DEF Logged
    <3>2. \A k \in DOMAIN log' : k \in DOMAIN log \/ (k = Len(log) + 1 /\ log'[k].conn = c)
      BY <1>5
    <3>3. CASE i \in DOMAIN log /\ j \in DOMAIN log
      BY <1>5, <2>1, <3>3 DEF Inv, Recorded
    <3> QED BY <2>1, <3>1, <3>2, <3>3
  <2>2. Cardinality(Logged') = Len(log')
    <3>1. Cardinality(Logged \cup {c}) = Cardinality(Logged) + 1
      BY <1>3, Numbers, Members DEF Inv
    <3> QED BY <1>5, <1>6, <3>1 DEF Inv, Recorded
  <2> QED BY <1>5, <1>8, <2>1, <2>2 DEF Recorded
<1>a. TypeOK'
  <2>1. conns' = {d \in Conns : Registered(d)'}
    BY <1>1, <1>4 DEF Inv, TypeOK, Registered
  <2>2. Len(closed') <= ClosedMax
    BY <1>5, <1>8, ConstantsAssumption DEF Newest
  <2> QED BY <1>1, <1>4, <1>8, <2>1, <2>2 DEF Inv, TypeOK
<1>b. Counted' = Counted
  BY <1>1, <1>4, <1>6 DEF Counted
<1>c. Shown'
  BY <1>1, <1>6 DEF Inv, Shown, NoResurrection
<1> QED BY <1>1, <1>7, <1>9, <1>a, <1>b, <1>c DEF Inv, TotalConns, HostConns, TotalUp, HostUp,
          ConnsOf, UpOf, Aggregated, Before

\* The event of a connection that has ended.
LEMMA EnqueueInv ==
  ASSUME Inv, NEW c \in Conns, Enqueue(c)
  PROVE  Inv'
<1>1. /\ Goto(c, "gone") /\ pc[c] = "event"
      /\ UNCHANGED <<log, cp, domains, conns, totalConn, totalUp, up, closed, shown, hub, active>>
      /\ UNCHANGED <<gen, cfg, killed, req, targets>>
  BY DEF Enqueue, ring, counters, panel, request, feed
<1>2. c \in Logged
  BY <1>1 DEF Inv, Places
<1>3. /\ Places' /\ HostConns' = HostConns
      /\ pc' \in [Conns -> HandlerPC] /\ pc'[c] = "gone"
      /\ \A d \in Conns \ {c} : pc'[d] = pc[d]
      /\ Logged' = Logged
  BY <1>1, <1>2, Moved DEF Inv, HandlerPC
<1>4. TypeOK'
  <2>1. conns' = {d \in Conns : Registered(d)'}
    BY <1>1, <1>3 DEF Inv, TypeOK, Registered
  <2> QED BY <1>1, <1>3, <2>1 DEF Inv, TypeOK
<1>5. Counted' = Counted
  BY <1>1, <1>2, <1>3 DEF Counted
<1> QED BY <1>1, <1>3, <1>4, <1>5 DEF Inv, Recorded, TotalConns, TotalUp, HostUp, Shown,
          NoResurrection, UpOf, Before

-----------------------------------------------------------------------------
(* The panel, and every step.                                              *)

\* What neither the panel's request nor the hub touches.
LEMMA Untouched ==
  ASSUME Inv, UNCHANGED <<handlers, counters, domains>>
  PROVE  /\ Places' /\ Recorded' /\ TotalConns' /\ HostConns' /\ TotalUp' /\ HostUp'
         /\ Logged' = Logged /\ conns' = {c \in Conns : Registered(c)'}
<1>1. UNCHANGED <<pc, cfg, conns, totalConn, closed, log, totalUp, up, cp, domains>>
  BY DEF handlers, counters, ring
<1>2. Logged' = Logged /\ conns' = {c \in Conns : Registered(c)'}
  BY <1>1 DEF Inv, TypeOK, Registered, Logged
<1> QED BY <1>1, <1>2 DEF Inv, Places, Recorded, TotalConns, HostConns, TotalUp, HostUp,
          Counted, Aggregated, Before, ConnsOf, UpOf

\* The panel's snapshots and cuts.
LEMMA PanelInv ==
  ASSUME Inv, Request \/ \E c \in Conns : CloseConn(c)
  PROVE  Inv'
<1>1. /\ UNCHANGED <<handlers, counters, domains>> /\ UNCHANGED <<hub, active, shown>>
      /\ gen' \in 1 .. MaxGen /\ killed' \subseteq conns /\ targets' \subseteq Conns
      /\ req' \in {"idle", "copy", "close"}
  <2>1. CASE Activate
    BY <2>1, ConstantsAssumption DEF Activate, Inv, TypeOK, feed
  <2>2. CASE CopyTable
    BY <2>2 DEF CopyTable, Targets, Inv, TypeOK, feed
  <2>3. CASE CloseTargets
    BY <2>3 DEF CloseTargets, Inv, TypeOK, feed
  <2>4. CASE \E c \in Conns : CloseConn(c)
    BY <2>4 DEF CloseConn, Inv, TypeOK, feed, request
  <2> QED BY <2>1, <2>2, <2>3, <2>4 DEF Request
<1>2. UNCHANGED <<pc, cfg, conns, totalConn, closed, totalUp, up, cp, domains>>
  BY <1>1 DEF handlers, counters, ring
<1>3. TypeOK'
  BY <1>1, <1>2, Untouched DEF Inv, TypeOK
<1>4. Shown'
  BY <1>1, Untouched DEF Inv, Shown, NoResurrection
<1> QED BY <1>1, <1>3, <1>4, Untouched DEF Inv

\* A connection of the table is not recorded yet, and the ring is part of the log.
LEMMA HubInv ==
  ASSUME Inv, Hub
  PROVE  Inv'
<1>1. UNCHANGED <<handlers, counters, domains, panel>>
  BY DEF Hub, TakeActive, TakeClosed
<1>2. UNCHANGED <<pc, cfg, conns, totalConn, closed, totalUp, up, cp, domains, gen, req, targets, killed>>
  BY <1>1 DEF handlers, counters, ring, panel, request
<1>3. Logged' = Logged /\ Logged \in SUBSET Conns
  BY <1>1, Untouched, Members DEF Inv
<1>4. conns \cap Logged = {} /\ conns \subseteq Conns
  BY DEF Inv, TypeOK, Places, Registered
<1>5. Recent \subseteq Logged
  <2>1. \A i \in DOMAIN closed : closed[i].conn \in Logged
    <3>1. /\ DOMAIN closed = 1 .. Len(closed) /\ DOMAIN log = 1 .. Len(log)
          /\ Len(closed) \in Nat /\ Len(log) \in Nat /\ Len(closed) <= Len(log)
      BY ConstantsAssumption DEF Inv, TypeOK, Recorded, Newest
    <3>2. \A i \in DOMAIN closed : /\ closed[i] = log[Len(log) - Len(closed) + i]
                                   /\ Len(log) - Len(closed) + i \in DOMAIN log
      BY <3>1 DEF Inv, Recorded, Newest
    <3> QED BY <3>2 DEF Logged
  <2> DEFINE n == Min({FeedN, Len(closed)})
  <2>2. n \in 0 .. Len(closed) /\ DOMAIN closed = 1 .. Len(closed) /\ Len(closed) \in Nat
    <3>1. FeedN \in Nat /\ Len(closed) \in Nat /\ DOMAIN closed = 1 .. Len(closed)
      BY ConstantsAssumption DEF Inv, TypeOK
    <3> QED BY <3>1, SmallerOf
  <2> HIDE DEF n
  <2>3. Len(closed) - n + 1 .. Len(closed) \subseteq DOMAIN closed
    BY <2>2
  <2> QED BY <2>1, <2>3 DEF Recent, n
<1>6. Shown' /\ hub' \in {"active", "closed"} /\ active' \subseteq Conns /\ shown' \subseteq Conns
  <2>1. CASE TakeActive
    BY <1>3, <1>4, <2>1 DEF TakeActive, Inv, TypeOK, Shown, NoResurrection
  <2>2. CASE TakeClosed
    BY <1>3, <1>5, <2>2 DEF TakeClosed, Inv, TypeOK, Shown, NoResurrection
  <2> QED BY <2>1, <2>2 DEF Hub
<1>7. TypeOK'
  BY <1>1, <1>2, <1>6, Untouched DEF Inv, TypeOK
<1> QED BY <1>1, <1>6, <1>7, Untouched DEF Inv

\* Every step keeps the invariant.
LEMMA NextInv == Inv /\ [Next]_vars => Inv'
<1> SUFFICES ASSUME Inv, [Next]_vars PROVE Inv'
  OBVIOUS
<1>1. CASE Next
  BY <1>1, EarlyInv, CountInv, AggregateInv, ReadInv, MetaInv, TotalInv, DomainInv, DeleteInv,
     AppendInv, EnqueueInv, PanelInv, HubInv DEF Next, Handler, Copier
<1>2. CASE UNCHANGED vars
  <2>1. UNCHANGED <<handlers, counters, domains>>
    BY <1>2 DEF vars
  <2>2. UNCHANGED <<pc, cfg, conns, totalConn, closed, totalUp, up, cp, domains, gen, req,
                    targets, killed, hub, active, shown>>
    BY <1>2 DEF vars, handlers, counters, ring, panel, request, feed
  <2>3. TypeOK' /\ Shown'
    BY <2>1, <2>2, Untouched DEF Inv, TypeOK, Shown, NoResurrection
  <2> QED BY <2>1, <2>3, Untouched DEF Inv
<1> QED BY <1>1, <1>2

\* The invariant holds in every reachable state.
LEMMA Invariance == Spec => []Inv
BY InvInit, NextInv, PTL DEF Spec

\* The table holds exactly the connections between their register and their
\* unregister, and the ring keeps its limit (stats.go:101-173).
THEOREM Typing == Spec => []TypeOK
<1>1. Inv => TypeOK
  BY DEF Inv
<1> QED BY <1>1, Invariance, PTL

\* Snapshots read the table and the ring one after the other, and still never
\* show as active what an earlier one has shown as closed (stats.go:317-344).
THEOREM NoneComesBack == Spec => []NoResurrection
<1>1. Inv => NoResurrection
  BY DEF Inv, Shown
<1> QED BY <1>1, Invariance, PTL

-----------------------------------------------------------------------------
(* What the invariant means for the counters and the ring.                 *)

\* Nobody between two counters: the sets the counters differ by are empty.
LEMMA QuietMeans ==
  ASSUME Inv, Quiet
  PROVE  CountersAgree
<1>1. Before("total") = {} /\ Before("domain") = {} /\ Cardinality({}) = 0
  BY FS_EmptySet DEF Quiet, Before
<1>2. totalUp \in Nat /\ SumFunction(UpOf) \in Int
  <2>1. /\ DOMAIN UpOf = DOMAIN domains /\ IsFiniteSet(DOMAIN domains)
        /\ \A h \in DOMAIN domains : UpOf[h] \in Int
    BY DEF Inv, TypeOK, Places, UpOf
  <2> QED BY <2>1, SumIsInt DEF Inv, TypeOK, SumFunction
<1>3. totalUp = SumFunction(up) /\ totalUp = SumFunction(UpOf)
  BY <1>1, <1>2 DEF Inv, TotalUp, HostUp
<1> DEFINE A == {c \in Conns : pc[c] = "append"}
<1>4. /\ Counted = (conns \cup Logged) \cup A
      /\ conns \cap Logged = {} /\ (conns \cup Logged) \cap A = {}
  <2>1. conns = {c \in Conns : pc[c] \in {"total", "aggregate", "live"}}
    BY DEF Inv, TypeOK, Registered
  <2>2. \A c \in Conns : /\ pc[c] # "total"
                         /\ c \in Logged => pc[c] \in {"event", "gone"}
                         /\ pc[c] = "event" => c \in Logged
    BY DEF Inv, Places, Quiet
  <2>3. Logged \subseteq Conns
    BY Members DEF Inv
  <2> QED BY <2>1, <2>2, <2>3 DEF Counted
<1>5. /\ conns \in SUBSET Conns /\ Logged \in SUBSET Conns /\ A \in SUBSET Conns
      /\ conns \cup Logged \in SUBSET Conns
  BY Members DEF Inv, TypeOK
<1>6. \A S, T \in SUBSET Conns : S \cap T = {} =>
        Cardinality(S \cup T) = Cardinality(S) + Cardinality(T)
  <2> SUFFICES ASSUME NEW S \in SUBSET Conns, NEW T \in SUBSET Conns, S \cap T = {}
               PROVE  Cardinality(S \cup T) = Cardinality(S) + Cardinality(T)
    OBVIOUS
  <2>1. Cardinality(S \cup T) = Cardinality(S) + Cardinality(T) - Cardinality({})
    BY Numbers, FS_Union
  <2> QED BY <1>1, <2>1, Numbers
<1>7. Cardinality(Counted) = Cardinality(conns) + Cardinality(Logged) + Cardinality(A)
  <2> HIDE DEF A
  <2>1. Cardinality(Counted) = Cardinality(conns \cup Logged) + Cardinality(A)
    BY <1>4, <1>5, <1>6
  <2>2. Cardinality(conns \cup Logged) = Cardinality(conns) + Cardinality(Logged)
    BY <1>4, <1>5, <1>6
  <2> QED BY <2>1, <2>2
<1>8. totalConn = Cardinality(conns) + Len(log) + Cardinality(A)
  BY <1>7 DEF Inv, TotalConns, Recorded
<1>9. Aggregated = Counted
  BY Members DEF Inv, Places, Quiet, Aggregated, Counted
<1>a. totalConn = SumFunction(ConnsOf)
  BY <1>9 DEF Inv, TotalConns, HostConns
<1> QED BY <1>3, <1>8, <1>a DEF CountersAgree, ConnsOf, UpOf

\* The invariant makes the ring the end of all records.
LEMMA RingMeans ==
  ASSUME Inv
  PROVE  RingIsNewest
<1> DEFINE R == [conn : Conns, up : 0 .. MaxBytes]
           n == Len(closed)
           m == Len(log)
<1>1. closed \in Seq(R) /\ log \in Seq(R) /\ Newest(closed, log) /\ ClosedMax \in Nat
  BY ConstantsAssumption DEF Inv, TypeOK, Recorded
<1>2. /\ n \in Nat /\ m \in Nat /\ n <= m /\ n = IF m > ClosedMax THEN ClosedMax ELSE m
      /\ DOMAIN closed = 1 .. n /\ DOMAIN log = 1 .. m
  BY <1>1 DEF Newest
<1>3. \A i \in 1 .. n : closed[i] = log[m - n + i]
  BY <1>1 DEF Newest
<1>4. IsInjective([i \in DOMAIN log |-> log[i].conn])
  BY DEF Inv, Recorded, IsInjective
<1>5. IsSuffix(closed, log)
  <2> DEFINE s == Reverse(closed)
             l == Reverse(log)
  <2>1. /\ s = [i \in 1 .. n |-> closed[n - i + 1]]
        /\ l = [i \in 1 .. m |-> log[m - i + 1]]
    BY DEF Reverse
  <2>2. s \in Seq(R) /\ l \in Seq(R) /\ Len(s) = n /\ Len(l) = m
    <3>1. \A i \in 1 .. n : n - i + 1 \in 1 .. n
      BY <1>2
    <3>2. \A i \in 1 .. m : m - i + 1 \in 1 .. m
      BY <1>2
    <3>3. (\A i \in 1 .. n : closed[i] \in R) /\ (\A i \in 1 .. m : log[i] \in R)
      BY <1>1, <1>2, Elements
    <3> HIDE DEF R, n, m
    <3>4. s \in [1 .. n -> R] /\ l \in [1 .. m -> R]
      BY <2>1, <3>1, <3>2, <3>3
    <3> HIDE DEF s, l
    <3> QED BY <1>2, <3>4
  <2>3. ASSUME NEW i \in 1 .. n PROVE s[i] = l[i]
    <3>1. n - i + 1 \in 1 .. n /\ m - n + (n - i + 1) = m - i + 1 /\ i \in 1 .. m
      BY <1>2
    <3>2. closed[n - i + 1] = log[m - n + (n - i + 1)]
      BY <1>3, <3>1
    <3> HIDE DEF n, m
    <3> QED BY <2>1, <3>1, <3>2
  <2> HIDE DEF s, l, R, n, m
  <2>4. SubSeq(s, 1, n) = SubSeq(l, 1, n)
    BY <1>2, <2>2, <2>3
  <2>5. IsPrefix(s, l)
    BY <1>2, <2>2, <2>4 DEF IsPrefix
  <2> QED BY <2>5 DEF IsSuffix, s, l
<1>6. Len(closed) = Min({Len(log), ClosedMax})
  BY <1>1, <1>2, SmallerOf
<1> QED BY <1>4, <1>5, <1>6 DEF RingIsNewest

\* Each level of counters is written on its own, with no lock around them all,
\* and whenever nobody is in between they agree (stats.go:37-62, 101-146).
THEOREM Agreement == Spec => []CountersAgree
<1>1. Inv => CountersAgree
  BY QuietMeans DEF CountersAgree
<1> QED BY <1>1, Invariance, PTL

\* A connection is recorded once, and the ring is the end of all records, as
\* many as fit (stats.go:148-173).
THEOREM Newness == Spec => []RingIsNewest
<1> QED BY RingMeans, Invariance, PTL

=============================================================================
