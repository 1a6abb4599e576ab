----------------------------- MODULE SettingsProofs -----------------------------
(***************************************************************************)
(* Theorems about Settings, for every set of addresses, values, rows,      *)
(* pastes, imports and configurations, and every default and target.       *)
(***************************************************************************)
EXTENDS Settings, Sums, SequenceTheorems

-----------------------------------------------------------------------------
(* Rows and lines.                                                         *)

LEMMA PartsOfRules ==
  /\ Blank \in Values /\ Comma \in Values
  /\ "DOMAIN-SUFFIX" \in Words /\ "DIRECT" \in Words
BY ConstantsAssumption DEF RULE_TYPES, Actions

\* A table read from lines, and lines written from a table.
LEMMA LoadRulesType ==
  ASSUME NEW lines \in Seq(LineSet)
  PROVE  LoadRules(lines) \in Seq(RowSet) /\ Len(LoadRules(lines)) = Len(lines)
<1>1. ASSUME NEW l \in LineSet PROVE LoadRow(l) \in RowSet
  <2>1. l.type \in Words /\ l.value \in Values /\ l.action \in Words
    BY DEF LineSet
  <2>2. Rule(l) \in RowSet
    BY <2>1 DEF Rule, RowSet
  <2>3. [type |-> "DOMAIN-SUFFIX", value |-> Comma, action |-> "DIRECT"] \in RowSet
    BY PartsOfRules DEF RowSet
  <2> QED BY <2>2, <2>3 DEF LoadRow
<1>2. \A i \in 1 .. Len(lines) : LoadRow(lines[i]) \in RowSet
  BY <1>1, ElementOfSeq
<1>3. DOMAIN lines = 1 .. Len(lines) /\ Len(lines) \in Nat
  BY LenProperties
<1> QED BY <1>2, <1>3 DEF LoadRules

RawRows(table) == [i \in DOMAIN table |-> RawRow(table[i])]
LEMMA RawRowsType ==
  ASSUME NEW table \in Seq(RowSet)
  PROVE  /\ RawRows(table) \in Seq(LineSet)
         /\ Len(RawRows(table)) = Len(table)
         /\ DOMAIN RawRows(table) = DOMAIN table
         /\ \A i \in DOMAIN table :
              LET l == RawRows(table)[i] IN
                /\ l.type = table[i].type /\ l.value = table[i].value
                /\ l.action = table[i].action
                /\ l.three <=> l.value # Comma
<1>1. \A r \in RowSet : RawRow(r) \in LineSet
  BY DEF RawRow, LineSet, RowSet
<1>2. \A i \in 1 .. Len(table) : table[i] \in RowSet /\ RawRow(table[i]) \in LineSet
  BY <1>1, ElementOfSeq
<1>3. DOMAIN table = 1 .. Len(table) /\ Len(table) \in Nat
  BY LenProperties
<1>4. RawRows(table) \in Seq(LineSet) /\ Len(RawRows(table)) = Len(table)
  BY <1>2, <1>3 DEF RawRows
<1>5. \A i \in DOMAIN table : RawRows(table)[i] = RawRow(table[i])
  BY DEF RawRows
<1> QED BY <1>3, <1>4, <1>5 DEF RawRows, RawRow

\* What the table shows of a configuration in force, and what a save of it
\* sends, parse to the same rules.
LEMMA ShowsTheRules ==
  ASSUME NEW lines \in Seq(LineSet), \A i \in DOMAIN lines : ParsesRule(lines[i])
  PROVE  LoadRules(lines) = ParseRules(lines)
<1>1. \A i \in DOMAIN lines : LoadRow(lines[i]) = Rule(lines[i])
  BY DEF LoadRow, ParsesRule
<1> QED BY <1>1 DEF LoadRules, ParseRules

LEMMA SendsTheRules ==
  ASSUME NEW lines \in Seq(LineSet), \A i \in DOMAIN lines : ParsesRule(lines[i]),
         \A i \in DOMAIN lines : lines[i].three => lines[i].value # Comma
  PROVE  LET sent == RawRows(LoadRules(lines)) IN
           /\ \A i \in DOMAIN sent : ParsesRule(sent[i])
           /\ ParseRules(sent) = ParseRules(lines)
<1> DEFINE sent == RawRows(LoadRules(lines))
<1>1. DOMAIN sent = DOMAIN lines
  BY DEF RawRows, LoadRules
<1>2. \A i \in DOMAIN lines : sent[i] = RawRow(Rule(lines[i]))
  BY DEF RawRows, LoadRules, LoadRow, ParsesRule
<1>3. ASSUME NEW i \in DOMAIN lines
      PROVE  ParsesRule(sent[i]) /\ Rule(sent[i]) = Rule(lines[i])
  <2>1. PICK l : l = sent[i]
    OBVIOUS
  <2>2. PICK m : m = lines[i]
    OBVIOUS
  <2>3. ParsesRule(m) /\ m.value # Comma
    BY <2>2 DEF ParsesRule
  <2>4. l = RawRow(Rule(m))
    BY <1>2, <2>1, <2>2
  <2>5. l.type = m.type /\ l.value = m.value /\ l.action = m.action
    BY <2>4 DEF RawRow, Rule
  <2>6. l.three
    BY <2>3, <2>4 DEF RawRow, Rule
  <2>7. ParsesRule(l) /\ Rule(l) = Rule(m)
    BY <2>3, <2>5, <2>6 DEF ParsesRule, Rule
  <2> QED BY <2>1, <2>2, <2>7
<1>4. ParseRules(sent) = ParseRules(lines)
  BY <1>1, <1>3 DEF ParseRules
<1> QED BY <1>1, <1>3, <1>4

\* A row leaves the table, or changes places with its neighbour.
LEMMA Removed ==
  ASSUME NEW S, NEW s \in Seq(S), NEW i \in DOMAIN s
  PROVE  /\ RemoveAt(s, i) \in Seq(S)
         /\ Len(RemoveAt(s, i)) = Len(s) - 1
         /\ \A k \in 1 .. Len(s) - 1 : RemoveAt(s, i)[k] = IF k < i THEN s[k] ELSE s[k + 1]
<1>1. Len(s) \in Nat /\ DOMAIN s = 1 .. Len(s) /\ \A k \in 1 .. Len(s) : s[k] \in S
  BY LenProperties, ElementOfSeq
<1>2. PICK a : a = SubSeq(s, 1, i - 1)
  OBVIOUS
<1>3. PICK b : b = SubSeq(s, i + 1, Len(s))
  OBVIOUS
<1>4. a \in Seq(S) /\ Len(a) = i - 1 /\ \A k \in 1 .. i - 1 : a[k] = s[k]
  BY <1>1, <1>2, SubSeqProperties
<1>5. b \in Seq(S) /\ Len(b) = Len(s) - i /\ \A k \in 1 .. Len(s) - i : b[k] = s[k + i]
  BY <1>1, <1>3, SubSeqProperties
<1>6. /\ a \o b \in Seq(S)
      /\ Len(a \o b) = Len(a) + Len(b)
      /\ \A k \in 1 .. Len(a) + Len(b) :
           (a \o b)[k] = IF k <= Len(a) THEN a[k] ELSE b[k - Len(a)]
  BY <1>4, <1>5, ConcatProperties
<1>7. RemoveAt(s, i) = a \o b
  BY <1>2, <1>3 DEF RemoveAt
<1>8. i \in 1 .. Len(s) /\ Len(a) + Len(b) = Len(s) - 1
  BY <1>1, <1>4, <1>5
<1>9. ASSUME NEW k \in 1 .. Len(s) - 1
      PROVE  (a \o b)[k] = IF k < i THEN s[k] ELSE s[k + 1]
  <2>1. CASE k < i
    BY <1>1, <1>4, <1>6, <1>8, <2>1
  <2>2. CASE ~ (k < i)
    <3>1. PICK m : m = k - Len(a)
      OBVIOUS
    <3>2. m \in 1 .. Len(s) - i /\ m + i = k + 1
      BY <1>1, <1>4, <1>8, <2>2, <3>1
    <3>3. b[m] = s[k + 1]
      BY <1>5, <3>2
    <3>4. (a \o b)[k] = b[m]
      BY <1>1, <1>4, <1>6, <1>8, <2>2, <3>1
    <3> QED BY <2>2, <3>3, <3>4
  <2> QED BY <2>1, <2>2
<1> QED BY <1>6, <1>7, <1>8, <1>9

LEMMA Inserted ==
  ASSUME NEW S, NEW s \in Seq(S), NEW i \in 1 .. Len(s) + 1, NEW e \in S
  PROVE  /\ InsertAt(s, i, e) \in Seq(S)
         /\ Len(InsertAt(s, i, e)) = Len(s) + 1
         /\ \A k \in 1 .. Len(s) + 1 :
              InsertAt(s, i, e)[k] = IF k < i THEN s[k] ELSE IF k = i THEN e ELSE s[k - 1]
<1>1. Len(s) \in Nat /\ DOMAIN s = 1 .. Len(s) /\ \A k \in 1 .. Len(s) : s[k] \in S
  BY LenProperties, ElementOfSeq
<1>2. PICK a : a = SubSeq(s, 1, i - 1)
  OBVIOUS
<1>3. PICK b : b = SubSeq(s, i, Len(s))
  OBVIOUS
<1>4. a \in Seq(S) /\ Len(a) = i - 1 /\ \A k \in 1 .. i - 1 : a[k] = s[k]
  BY <1>1, <1>2, SubSeqProperties
<1>5. b \in Seq(S) /\ Len(b) = Len(s) - i + 1
      /\ \A k \in 1 .. Len(s) - i + 1 : b[k] = s[k + i - 1]
  BY <1>1, <1>3, SubSeqProperties
<1>6. PICK c : c = a \o <<e>>
  OBVIOUS
<1>7. <<e>> \in Seq(S) /\ Len(<<e>>) = 1 /\ <<e>>[1] = e
  OBVIOUS
<1>8. c \in Seq(S) /\ Len(c) = i /\ \A k \in 1 .. i : c[k] = IF k < i THEN s[k] ELSE e
  BY <1>4, <1>6, <1>7, ConcatProperties
<1>9. /\ c \o b \in Seq(S)
      /\ Len(c \o b) = Len(c) + Len(b)
      /\ \A k \in 1 .. Len(c) + Len(b) :
           (c \o b)[k] = IF k <= Len(c) THEN c[k] ELSE b[k - Len(c)]
  BY <1>5, <1>8, ConcatProperties
<1>10. InsertAt(s, i, e) = c \o b
  BY <1>2, <1>3, <1>6 DEF InsertAt
<1>11. i \in 1 .. Len(s) + 1 /\ Len(c) + Len(b) = Len(s) + 1
  BY <1>1, <1>5, <1>8
<1>12. ASSUME NEW k \in 1 .. Len(s) + 1
       PROVE  (c \o b)[k] = IF k < i THEN s[k] ELSE IF k = i THEN e ELSE s[k - 1]
  <2>1. CASE k <= i
    BY <1>1, <1>8, <1>9, <1>11, <2>1
  <2>2. CASE ~ (k <= i)
    <3>1. k - Len(c) \in 1 .. Len(s) - i + 1 /\ k - Len(c) + i - 1 = k - 1
      BY <1>1, <1>8, <1>11, <2>2
    <3> QED BY <1>1, <1>5, <1>8, <1>9, <1>11, <2>2, <3>1
  <2> QED BY <2>1, <2>2
<1> QED BY <1>9, <1>10, <1>11, <1>12

LEMMA MovedType ==
  ASSUME NEW i \in DOMAIN rows, NEW j \in DOMAIN rows, rows \in Seq(RowSet),
         j = i + 1 \/ i = j + 1
  PROVE  /\ Moved(i, j) \in Seq(RowSet)
         /\ Len(Moved(i, j)) = Len(rows)
         /\ \A k \in DOMAIN rows :
              Moved(i, j)[k] = IF k = i THEN rows[j] ELSE IF k = j THEN rows[i] ELSE rows[k]
<1>1. Len(rows) \in Nat /\ DOMAIN rows = 1 .. Len(rows) /\ rows[i] \in RowSet
  BY LenProperties, ElementOfSeq
<1>2. PICK s : s = RemoveAt(rows, i)
  OBVIOUS
<1>3. /\ s \in Seq(RowSet)
      /\ Len(s) = Len(rows) - 1
      /\ \A k \in 1 .. Len(rows) - 1 : s[k] = IF k < i THEN rows[k] ELSE rows[k + 1]
  BY <1>2, Removed
<1>4. j \in 1 .. Len(s) + 1
  BY <1>1, <1>3
<1>5. PICK e : e = rows[i]
  OBVIOUS
<1>6. /\ InsertAt(s, j, e) \in Seq(RowSet)
      /\ Len(InsertAt(s, j, e)) = Len(s) + 1
      /\ \A k \in 1 .. Len(s) + 1 :
           InsertAt(s, j, e)[k] = IF k < j THEN s[k] ELSE IF k = j THEN e ELSE s[k - 1]
  <2>1. \A q \in Seq(RowSet) : \A n \in 1 .. Len(q) + 1 : \A x \in RowSet :
        /\ InsertAt(q, n, x) \in Seq(RowSet)
        /\ Len(InsertAt(q, n, x)) = Len(q) + 1
        /\ \A k \in 1 .. Len(q) + 1 :
             InsertAt(q, n, x)[k] = IF k < n THEN q[k] ELSE IF k = n THEN x ELSE q[k - 1]
    BY Inserted
  <2>2. e \in RowSet
    BY <1>1, <1>5
  <2>3. \A x \in RowSet :
        /\ InsertAt(s, j, x) \in Seq(RowSet)
        /\ Len(InsertAt(s, j, x)) = Len(s) + 1
        /\ \A k \in 1 .. Len(s) + 1 :
             InsertAt(s, j, x)[k] = IF k < j THEN s[k] ELSE IF k = j THEN x ELSE s[k - 1]
    BY <1>3, <1>4, <2>1
  <2> QED BY <2>2, <2>3
<1>7. Moved(i, j) = InsertAt(s, j, e)
  BY <1>2, <1>5 DEF Moved
<1>8. \A k \in DOMAIN rows :
        Moved(i, j)[k] = IF k = i THEN rows[j] ELSE IF k = j THEN rows[i] ELSE rows[k]
  BY <1>1, <1>3, <1>5, <1>6, <1>7
<1> QED BY <1>1, <1>3, <1>6, <1>7, <1>8


-----------------------------------------------------------------------------
(* Pasting.                                                                *)

TakeOne(g, lines, n) ==
  IF n = 0 THEN <<>>
  ELSE IF PasteTakes(lines[n]) THEN Append(g[n - 1], Rule(lines[n]))
  ELSE g[n - 1]
IsTaking(g, lines, n) == g = [m \in 0 .. n |-> TakeOne(g, lines, m)]

LEMMA TakenUnfolded ==
  ASSUME NEW lines
  PROVE  Taken(lines) = (CHOOSE g : IsTaking(g, lines, Len(lines)))[Len(lines)]
BY DEF Taken, IsTaking, TakeOne

\* The loop gets to every line.
LEMMA TakingExists ==
  ASSUME NEW lines, NEW last \in Nat
  PROVE  \E g : IsTaking(g, lines, last)
<1> DEFINE Bad == {n \in Nat : ~ \E g : IsTaking(g, lines, n)}
<1>1. SUFFICES ASSUME Bad # {} PROVE FALSE
  OBVIOUS
<1>2. PICK n \in Bad : \A m \in Bad : ~ (m < n)
  BY <1>1, LeastNumber
<1>3. n # 0
  <2> DEFINE g == [m \in 0 .. 0 |-> <<>>]
  <2>1. IsTaking(g, lines, 0)
    BY DEF IsTaking, TakeOne
  <2> QED BY <2>1
<1>4. n - 1 \in Nat /\ n - 1 < n /\ n - 1 \notin Bad
  BY <1>2, <1>3
<1>5. PICK g : IsTaking(g, lines, n - 1)
  BY <1>4
<1>6. PICK h : h = [m \in 0 .. n |-> TakeOne(g, lines, m)]
  OBVIOUS
<1>7. \A m \in 0 .. n - 1 : h[m] = g[m]
  BY <1>4, <1>5, <1>6 DEF IsTaking
<1>8. \A m \in 0 .. n : TakeOne(h, lines, m) = TakeOne(g, lines, m)
  BY <1>4, <1>7 DEF TakeOne
<1>9. IsTaking(h, lines, n)
  BY <1>6, <1>8 DEF IsTaking
<1> QED BY <1>2, <1>9

\* What has been taken after n lines: rows, none of them lost.
HasTaken(s, lines, n) ==
  /\ s \in Seq(RowSet)
  /\ \A i \in 1 .. n : PasteTakes(lines[i]) =>
       \E k \in 1 .. Len(s) : s[k] = Rule(lines[i])

LEMMA TakenType ==
  ASSUME NEW lines \in Seq(LineSet)
  PROVE  HasTaken(Taken(lines), lines, Len(lines))
<1>1. Len(lines) \in Nat /\ \A i \in 1 .. Len(lines) : Rule(lines[i]) \in RowSet
  <2>1. \A l \in LineSet : Rule(l) \in RowSet
    BY DEF LineSet, RowSet, Rule
  <2> QED BY <2>1, LenProperties, ElementOfSeq
<1>2. PICK g : g = CHOOSE h : IsTaking(h, lines, Len(lines))
  OBVIOUS
<1>3. IsTaking(g, lines, Len(lines))
  BY <1>1, <1>2, TakingExists
<1>4. \A m \in 0 .. Len(lines) : g[m] = TakeOne(g, lines, m)
  BY <1>3 DEF IsTaking
<1> DEFINE Bad == {n \in 0 .. Len(lines) : ~ HasTaken(g[n], lines, n)}
<1>5. ASSUME Bad # {} PROVE FALSE
  <2>1. Bad \subseteq Nat
    BY <1>1
  <2>2. PICK n \in Bad : \A m \in Bad : ~ (m < n)
    BY <1>5, <2>1, LeastNumber
  <2>3. n # 0
    <3>1. g[0] = <<>>
      BY <1>1, <1>4 DEF TakeOne
    <3>2. HasTaken(g[0], lines, 0)
      BY <3>1, EmptySeq DEF HasTaken
    <3> QED BY <3>2
  <2>4. n \in 1 .. Len(lines) /\ n - 1 \in 0 .. Len(lines) /\ n - 1 < n
    BY <1>1, <2>2, <2>3
  <2>5. HasTaken(g[n - 1], lines, n - 1)
    BY <2>2, <2>4
  <2>6. PICK s : s = g[n - 1]
    OBVIOUS
  <2>7. PICK r : r = Rule(lines[n])
    OBVIOUS
  <2>8. r \in RowSet
    BY <1>1, <2>4, <2>7
  <2>9. HasTaken(s, lines, n - 1)
    BY <2>5, <2>6
  <2>10. CASE PasteTakes(lines[n])
    <3>1. g[n] = Append(s, r)
      BY <1>4, <2>3, <2>4, <2>6, <2>7, <2>10 DEF TakeOne
    <3>2. PICK t : t = Append(s, r)
      OBVIOUS
    <3>3. /\ t \in Seq(RowSet) /\ Len(s) \in Nat /\ Len(t) = Len(s) + 1 /\ t[Len(s) + 1] = r
          /\ \A k \in 1 .. Len(s) : t[k] = s[k]
      BY <2>8, <2>9, <3>2 DEF HasTaken
    <3>4. ASSUME NEW i \in 1 .. n, PasteTakes(lines[i])
          PROVE  \E k \in 1 .. Len(t) : t[k] = Rule(lines[i])
      <4>1. CASE i = n
        BY <2>7, <3>3, <4>1
      <4>2. CASE i # n
        <5>1. i \in 1 .. n - 1
          BY <2>4, <4>2
        <5>2. PICK k \in 1 .. Len(s) : s[k] = Rule(lines[i])
          BY <2>9, <3>4, <5>1 DEF HasTaken
        <5>3. k \in 1 .. Len(t) /\ t[k] = Rule(lines[i])
          BY <3>3, <5>2
        <5> QED BY <5>3
      <4> QED BY <4>1, <4>2
    <3>5. HasTaken(t, lines, n)
      BY <3>3, <3>4 DEF HasTaken
    <3> QED BY <2>2, <3>1, <3>2, <3>5
  <2>11. CASE ~ PasteTakes(lines[n])
    <3>1. g[n] = s
      BY <1>4, <2>3, <2>4, <2>6, <2>11 DEF TakeOne
    <3>2. \A i \in 1 .. n : PasteTakes(lines[i]) => i \in 1 .. n - 1
      BY <2>4, <2>11
    <3>3. HasTaken(s, lines, n)
      BY <2>9, <3>2 DEF HasTaken
    <3> QED BY <2>2, <3>1, <3>3
  <2> QED BY <2>10, <2>11
<1>6. HasTaken(g[Len(lines)], lines, Len(lines))
  BY <1>1, <1>5
<1> QED BY <1>2, <1>6, TakenUnfolded

-----------------------------------------------------------------------------
(* Verdicts.                                                               *)

\* The first rule that hits decides; without one, the default does.
FirstHit(table, t, k) ==
  /\ k \in 1 .. Len(table)
  /\ Hits(table[k], t)
  /\ \A m \in 1 .. Len(table) : m < k => ~ Hits(table[m], t)

LEMMA Deciding ==
  ASSUME NEW table \in Seq(RowSet), NEW t, NEW k, FirstHit(table, t, k)
  PROVE  Decides(table, t) = table[k].action
<1>1. Len(table) \in Nat
  BY LenProperties
<1> DEFINE I == {i \in 1 .. Len(table) : Hits(table[i], t)}
<1>2. k \in I /\ k \in Nat /\ k # 0 /\ \A m \in I : m \in Nat /\ ~ (m < k)
  BY <1>1 DEF FirstHit
<1>3. k = Min(I)
  <2>1. \A m \in I : k =< m
    BY <1>2
  <2>2. \A x \in I : (\A y \in I : x =< y) => x = k
    BY <1>2
  <2> QED BY <1>2, <2>1, <2>2 DEF Min
<1>4. SelectInSeq(table, LAMBDA r : Hits(r, t)) = k
  BY <1>2, <1>3 DEF SelectInSeq
<1> QED BY <1>2, <1>4 DEF Decides, Verdict

LEMMA Undecided ==
  ASSUME NEW table \in Seq(RowSet), NEW t,
         \A k \in 1 .. Len(table) : ~ Hits(table[k], t)
  PROVE  Decides(table, t) = Default
<1>1. SelectInSeq(table, LAMBDA r : Hits(r, t)) = 0
  BY DEF SelectInSeq
<1> QED BY <1>1 DEF Decides, Verdict

LEMMA SomeFirst ==
  ASSUME NEW table \in Seq(RowSet), NEW t,
         \E k \in 1 .. Len(table) : Hits(table[k], t)
  PROVE  \E k \in 1 .. Len(table) : FirstHit(table, t, k)
<1> DEFINE I == {i \in 1 .. Len(table) : Hits(table[i], t)}
<1>1. Len(table) \in Nat /\ I \subseteq Nat /\ I # {}
  BY LenProperties
<1>2. PICK k \in I : \A m \in I : ~ (m < k)
  BY <1>1, LeastNumber
<1> QED BY <1>2 DEF FirstHit

\* Rows that do not hit the same targets may change places.
LEMMA MovedDecides ==
  ASSUME NEW i \in DOMAIN rows, NEW j \in DOMAIN rows, rows \in Seq(RowSet),
         j = i + 1 \/ i = j + 1,
         NEW t, ~ (Hits(rows[i], t) /\ Hits(rows[j], t))
  PROVE  Decides(Moved(i, j), t) = Decides(rows, t)
<1>1. PICK s : s = Moved(i, j)
  OBVIOUS
<1>2. /\ s \in Seq(RowSet) /\ Len(s) = Len(rows)
      /\ \A k \in DOMAIN rows : s[k] = IF k = i THEN rows[j] ELSE IF k = j THEN rows[i] ELSE rows[k]
  BY <1>1, MovedType
<1>3. Len(rows) \in Nat /\ DOMAIN rows = 1 .. Len(rows)
  BY LenProperties
<1>4. CASE \A k \in 1 .. Len(rows) : ~ Hits(rows[k], t)
  <2>1. \A k \in 1 .. Len(s) : ~ Hits(s[k], t)
    BY <1>2, <1>3, <1>4
  <2> QED BY <1>1, <1>2, <1>4, <2>1, Undecided
<1>5. CASE \E k \in 1 .. Len(rows) : Hits(rows[k], t)
  <2>1. PICK k \in 1 .. Len(rows) : FirstHit(rows, t, k)
    BY <1>5, SomeFirst
  <2>2. PICK n : n = IF k = i THEN j ELSE IF k = j THEN i ELSE k
    OBVIOUS
  <2>3. n \in 1 .. Len(s) /\ s[n] = rows[k] /\ Hits(rows[k], t)
    BY <1>2, <1>3, <2>1, <2>2 DEF FirstHit
  <2>4. ASSUME NEW m \in 1 .. Len(s), m < n PROVE ~ Hits(s[m], t)
    <3>1. CASE m # i /\ m # j
      <4>1. s[m] = rows[m] /\ m < k
        BY <1>2, <1>3, <2>2, <2>4, <3>1
      <4> QED BY <1>2, <2>1, <4>1 DEF FirstHit
    <3>2. CASE m = i
      <4>1. s[m] = rows[j]
        BY <1>2, <1>3, <3>2
      <4>2. j < k \/ k = i
        BY <1>3, <2>2, <2>4, <3>2
      <4> QED BY <1>3, <2>1, <4>1, <4>2 DEF FirstHit
    <3>3. CASE m = j /\ m # i
      <4>1. s[m] = rows[i]
        BY <1>2, <1>3, <3>3
      <4>2. i < k \/ k = j
        BY <1>3, <2>2, <2>4, <3>3
      <4> QED BY <1>3, <2>1, <4>1, <4>2 DEF FirstHit
    <3> QED BY <3>1, <3>2, <3>3
  <2>5. FirstHit(s, t, n)
    BY <2>3, <2>4 DEF FirstHit
  <2>6. Decides(s, t) = rows[k].action /\ Decides(rows, t) = rows[k].action
    BY <1>2, <2>1, <2>3, <2>5, Deciding
  <2> QED BY <1>1, <2>6
<1> QED BY <1>4, <1>5

-----------------------------------------------------------------------------
(* The inductive invariant.                                                *)

Steps == {"idle", "sent", "applied", "ok", "refused", "get", "got"}
Senders == {"save", "import"}
Pending(c) == IF at[c] = "sent" THEN 1 ELSE 0

\* Who can be where: the first read never sends anything, and a page that has
\* gone where no panel is stays as it is.  Every request has been counted.
Phases ==
  /\ DOMAIN body = Chains /\ DOMAIN got = Chains
  /\ at["mount"] \in {"idle", "get", "got"}
  /\ ~there => form = NoForm /\ \A c \in Chains : at[c] = "idle"
  /\ at["save"] \in {"sent", "applied", "ok"} => form # NoForm
  /\ ver + Pending("save") + Pending("import") <= ops
  /\ Runs(server)

\* What is on its way: a save carries rows the page has not marked, an answer
\* to a read a configuration that was in force, the present one if it names the
\* version in force.
Unmarked(l) ==
  /\ l.value # Blank /\ l.type \in RULE_TYPES /\ l.action \in Actions
  /\ l.three \/ l.value = Comma
Sent ==
  /\ \A c \in Senders : at[c] = "sent" =>
       body[c].rules \in Seq(LineSet) /\ body[c].monitor \in Addrs /\ Fits(body[c].rules)
  /\ at["save"] = "sent" =>
       /\ body["save"].from \in 0 .. ver \cup {NoVer}
       /\ \A i \in DOMAIN body["save"].rules : Unmarked(body["save"].rules[i])
Answers ==
  /\ at["import"] = "ok" => got["import"] \in Addrs
  /\ \A c \in Chains : at[c] = "got" =>
       /\ got[c].server \in Confs /\ Runs(got[c].server)
       /\ got[c].ver \in 0 .. ver
       /\ got[c].ver = ver => got[c].server = server

\* A form that was read at the version in force shows it, until it is edited;
\* and so does a save of it that is under way.
Read ==
  form # NoForm /\ ~touched /\ seen = ver =>
    form = server.monitor /\ rows = LoadRules(server.rules)
Untouched ==
  at["save"] = "sent" /\ body["save"].from = ver =>
    /\ body["save"].monitor = server.monitor
    /\ body["save"].rules = RawRows(LoadRules(server.rules))

\* A form of an older version will be read again, or the page is about to go.
Fresh(c) == at[c] \in {"applied", "ok", "get"} \/ (at[c] = "got" /\ got[c].ver = ver)
Coming ==
  there /\ seen < ver /\ ~outside /\ ~trouble =>
    jumps # {} \/ \E c \in Chains : Fresh(c)

\* What a chain nothing has interfered with knows of the panel's address, until
\* it has its answer.
Landing ==
  /\ \A c \in Senders : c \in sure => at[c] \in {"sent", "applied", "ok", "refused"}
  /\ "save" \in sure =>
       /\ at["save"] = "sent" => body["save"].monitor = form
       /\ at["save"] \in {"applied", "ok"} => form = server.monitor
  /\ "import" \in sure /\ at["import"] = "ok" => got["import"] = server.monitor
  /\ \A c \in Senders : c \in sure /\ at[c] \in {"applied", "ok"} => panel = server.monitor

Inv == /\ TypeOK /\ Phases /\ Sent /\ Answers
       /\ Read /\ Untouched /\ Coming /\ Landing

\* It holds of the page that has just been opened.
LEMMA InvInit == Init => Inv
<1> SUFFICES ASSUME Init PROVE Inv
  OBVIOUS
<1> USE DEF Init, Chains
<1>1. server \in Confs /\ Runs(server) /\ server.monitor \in Addrs /\ host \in Locations
  BY ConstantsAssumption DEF Confs
<1>2. at["save"] = "idle" /\ at["import"] = "idle" /\ at["mount"] = "get"
  OBVIOUS
<1>3. TypeOK
  <2>1. rows \in Seq(RowSet) /\ Len(rows) = 0
    BY EmptySeq
  <2>2. busy = {c \in {"save", "import"} : at[c] # "idle"}
    BY <1>2
  <2> QED BY <1>1, <2>1, <2>2, ConstantsAssumption DEF TypeOK, Runs, Accepts
<1>4. Phases
  BY <1>1, <1>2 DEF Phases, Pending
<1> QED BY <1>2, <1>3, <1>4 DEF Inv, Sent, Answers, Read, Untouched, Coming, Landing, Senders

-----------------------------------------------------------------------------
(* The user.                                                               *)

\* An edit that leaves a form a form and a table a table.
LEMMA EditStep ==
  ASSUME Inv, Edit, rows' \in Seq(RowSet), Len(rows') <= MaxRows,
         form' \in Addrs \cup {NoForm}, form # NoForm => form' # NoForm
  PROVE  Inv'
<1> USE DEF Inv
<1>1. /\ UNCHANGED <<server, panel, ver, busy, host, there, jumps, at, body, got, seen, outside, trouble>>
      /\ there /\ touched' = TRUE /\ sure' = sure \ {"save"}
  BY DEF Edit, fetches
<1>2. ops' \in 0 .. MaxOps /\ ops <= ops' /\ ops \in Nat /\ ver \in Nat
  BY ConstantsAssumption DEF Edit, Operate, TypeOK
<1>3. TypeOK'
  BY <1>1, <1>2 DEF TypeOK, Accepts
<1>4. Phases'
  <2>1. Pending("save") \in Nat /\ Pending("import") \in Nat
    BY DEF Pending
  <2>2. Pending("save")' = Pending("save") /\ Pending("import")' = Pending("import")
    BY <1>1 DEF Pending
  <2>3. (ver + Pending("save") + Pending("import") <= ops)'
    BY <1>1, <1>2, <2>1, <2>2 DEF Phases
  <2> QED BY <1>1, <2>3 DEF Phases
<1>5. Sent' /\ Answers'
  BY <1>1 DEF Sent, Answers
<1>6. Read' /\ Untouched'
  BY <1>1 DEF Read, Untouched
<1>7. Coming'
  BY <1>1 DEF Coming, Fresh
<1>8. Landing'
  BY <1>1 DEF Landing
<1> QED BY <1>3, <1>4, <1>5, <1>6, <1>7, <1>8

\* Every edit is one.
LEMMA EditsStep ==
  ASSUME Inv,
         \/ AddRule
         \/ \E i \in 1 .. MaxRows : DelRule(i) \/ \E r \in Rows : SetRow(i, r)
         \/ \E i, j \in 1 .. MaxRows : MoveRule(i, j)
         \/ \E a \in Addrs : SetMonitor(a)
         \/ \E p \in Pastes : AppendPaste(p)
  PROVE  Inv'
<1>1. /\ rows \in Seq(RowSet) /\ Len(rows) <= MaxRows /\ Len(rows) \in Nat
      /\ DOMAIN rows = 1 .. Len(rows)
      /\ form \in Addrs \cup {NoForm} /\ MaxRows \in Nat
  BY ConstantsAssumption, LenProperties DEF Inv, TypeOK
<1>2. CASE AddRule
  <2>1. [type |-> "DOMAIN-SUFFIX", value |-> Blank, action |-> "DIRECT"] \in RowSet
    BY PartsOfRules DEF RowSet
  <2>2. rows' \in Seq(RowSet) /\ Len(rows') = Len(rows) + 1
    BY <1>1, <1>2, <2>1 DEF AddRule
  <2> QED BY <1>1, <1>2, <2>2, EditStep DEF AddRule
<1>3. ASSUME NEW i \in 1 .. MaxRows, DelRule(i) PROVE Inv'
  <2>1. rows' \in Seq(RowSet) /\ Len(rows') = Len(rows) - 1
    BY <1>1, <1>3, Removed DEF DelRule
  <2> QED BY <1>1, <1>3, <2>1, EditStep DEF DelRule
<1>4. ASSUME NEW i \in 1 .. MaxRows, NEW r \in Rows, SetRow(i, r) PROVE Inv'
  <2>1. r \in RowSet
    BY ConstantsAssumption
  <2>2. rows' \in Seq(RowSet) /\ Len(rows') = Len(rows)
    BY <1>1, <1>4, <2>1, ExceptSeq DEF SetRow
  <2> QED BY <1>1, <1>4, <2>2, EditStep DEF SetRow
<1>5. ASSUME NEW i \in 1 .. MaxRows, NEW j \in 1 .. MaxRows, MoveRule(i, j) PROVE Inv'
  <2>1. rows' \in Seq(RowSet) /\ Len(rows') = Len(rows)
    BY <1>1, <1>5, MovedType DEF MoveRule
  <2> QED BY <1>1, <1>5, <2>1, EditStep DEF MoveRule
<1>6. ASSUME NEW a \in Addrs, SetMonitor(a) PROVE Inv'
  <2>1. form' \in Addrs /\ form' # NoForm /\ rows' = rows /\ Edit
    BY <1>6, ConstantsAssumption DEF SetMonitor
  <2> QED BY <1>1, <2>1, EditStep
<1>7. ASSUME NEW p \in Pastes, AppendPaste(p) PROVE Inv'
  <2>1. p \in Seq(LineSet)
    BY ConstantsAssumption
  <2>2. Taken(p) \in Seq(RowSet)
    BY <2>1, TakenType DEF HasTaken
  <2>3. rows' \in Seq(RowSet) /\ Len(rows') = Len(rows) + Len(Taken(p))
    BY <1>1, <1>7, <2>2, ConcatProperties DEF AppendPaste
  <2> QED BY <1>1, <1>7, <2>3, EditStep DEF AppendPaste
<1> QED BY <1>2, <1>3, <1>4, <1>5, <1>6, <1>7

\* A save takes the rows as they stand.
LEMMA SaveStep ==
  ASSUME Inv, Save
  PROVE  Inv'
<1> USE DEF Chains, Senders, Inv
<1>1. /\ UNCHANGED <<server, panel, ver, form, rows, host, there, jumps, got, touched, seen,
                     outside, trouble>>
      /\ form # NoForm /\ "save" \notin busy /\ busy' = busy \cup {"save"}
      /\ sure' = sure \cup {"save"}
  BY DEF Save
<1>2. /\ at'["save"] = "sent" /\ \A c \in Chains : c # "save" => at'[c] = at[c]
      /\ at' \in [Chains -> Steps] /\ at["save"] = "idle"
  BY <1>1 DEF Save, TypeOK, Steps
<1>3. PICK b : /\ b = body'["save"]
               /\ b.rules = RawRows(rows) /\ b.monitor = form
               /\ b.from = IF touched THEN NoVer ELSE seen
  BY DEF Save, Phases, RowsToRaw, RawRows
<1>4. DOMAIN body' = Chains /\ \A c \in Chains : c # "save" => body'[c] = body[c]
  BY DEF Save, Phases
<1>5. ops' = ops + 1 /\ ops' \in 0 .. MaxOps /\ ops \in Nat /\ ver \in Nat /\ seen \in 0 .. ver
  BY ConstantsAssumption DEF Save, Operate, TypeOK
<1>6. TypeOK'
  <2>1. busy' = {c \in {"save", "import"} : at'[c] # "idle"}
    BY <1>1, <1>2 DEF TypeOK
  <2> QED BY <1>1, <1>2, <1>5, <2>1 DEF TypeOK, Accepts, Steps
<1>7. Phases'
  <2>1. (ver + Pending("save") + Pending("import") <= ops)'
    BY <1>1, <1>2, <1>5 DEF Phases, Pending
  <2> QED BY <1>1, <1>2, <1>4, <2>1 DEF Phases
<1>8. /\ b.rules \in Seq(LineSet) /\ Len(b.rules) = Len(rows) /\ DOMAIN b.rules = DOMAIN rows
      /\ \A i \in DOMAIN rows :
           /\ b.rules[i].type = rows[i].type /\ b.rules[i].value = rows[i].value
           /\ b.rules[i].action = rows[i].action
           /\ b.rules[i].three <=> b.rules[i].value # Comma
  BY <1>3, RawRowsType DEF TypeOK
<1>9. Sent'
  <2>1. b.monitor \in Addrs /\ Fits(b.rules)
    BY <1>1, <1>3, <1>8 DEF TypeOK, Fits
  <2>2. b.from \in 0 .. ver \cup {NoVer}
    BY <1>3, <1>5
  <2>3. \A i \in DOMAIN b.rules : Unmarked(b.rules[i])
    BY <1>8 DEF Save, RowBad, Unmarked
  <2> QED BY <1>1, <1>2, <1>3, <1>4, <1>8, <2>1, <2>2, <2>3 DEF Sent
<1>10. Answers' /\ Read'
  BY <1>1, <1>2 DEF Answers, Read
<1>11. Untouched'
  <2>1. SUFFICES ASSUME b.from = ver
                 PROVE  b.monitor = server.monitor /\ b.rules = RawRows(LoadRules(server.rules))
    BY <1>1, <1>3 DEF Untouched
  <2>2. ~ touched /\ seen = ver
    BY <1>3, <1>5, <2>1, ConstantsAssumption
  <2> QED BY <1>1, <1>3, <2>2 DEF Read
<1>12. Coming'
  BY <1>1, <1>2 DEF Coming, Fresh
<1>13. Landing'
  BY <1>1, <1>2, <1>3 DEF Landing
<1> QED BY <1>6, <1>7, <1>9, <1>10, <1>11, <1>12, <1>13

LEMMA ImportStep ==
  ASSUME Inv, NEW imp \in Imports, DoImport(imp)
  PROVE  Inv'
<1> USE DEF Chains, Senders, Inv
<1>1. /\ UNCHANGED <<server, panel, ver, form, rows, host, there, jumps, got, touched, seen,
                     outside, trouble>>
      /\ there /\ "import" \notin busy /\ busy' = busy \cup {"import"}
      /\ sure' = sure \cup {"import"}
  BY DEF DoImport
<1>2. /\ at'["import"] = "sent" /\ \A c \in Chains : c # "import" => at'[c] = at[c]
      /\ at' \in [Chains -> Steps] /\ at["import"] = "idle"
  BY <1>1 DEF DoImport, TypeOK, Steps
<1>3. /\ DOMAIN body' = Chains /\ body'["import"] = imp
      /\ \A c \in Chains : c # "import" => body'[c] = body[c]
  BY DEF DoImport, Phases
<1>4. ops' = ops + 1 /\ ops' \in 0 .. MaxOps /\ ops \in Nat /\ ver \in Nat
  BY ConstantsAssumption DEF DoImport, Operate, TypeOK
<1>5. TypeOK'
  <2>1. busy' = {c \in {"save", "import"} : at'[c] # "idle"}
    BY <1>1, <1>2 DEF TypeOK
  <2> QED BY <1>1, <1>2, <1>4, <2>1 DEF TypeOK, Accepts, Steps
<1>6. Phases'
  <2>1. (ver + Pending("save") + Pending("import") <= ops)'
    BY <1>1, <1>2, <1>4 DEF Phases, Pending
  <2> QED BY <1>1, <1>2, <1>3, <2>1 DEF Phases
<1>7. Sent'
  <2>1. imp.rules \in Seq(LineSet) /\ imp.monitor \in Addrs /\ Fits(imp.rules)
    BY ConstantsAssumption DEF Confs
  <2> QED BY <1>1, <1>2, <1>3, <2>1 DEF Sent
<1>8. Answers' /\ Read' /\ Untouched'
  BY <1>1, <1>2, <1>3 DEF Answers, Read, Untouched
<1>9. Coming'
  BY <1>1, <1>2 DEF Coming, Fresh
<1>10. Landing'
  BY <1>1, <1>2, <1>3 DEF Landing
<1> QED BY <1>5, <1>6, <1>7, <1>8, <1>9, <1>10

-----------------------------------------------------------------------------
(* The server.                                                             *)

\* A chain moves on, and the button shows what it showed.
LEMMA Moves ==
  ASSUME TypeOK, NEW c \in Chains, NEW to \in Steps, at' = [at EXCEPT ![c] = to]
  PROVE  /\ at'[c] = to /\ \A d \in Chains : d # c => at'[d] = at[d]
         /\ at' \in [Chains -> Steps]
BY DEF TypeOK, Steps

LEMMA ButtonKept ==
  ASSUME TypeOK, NEW c \in Chains, at[c] # "idle", at'[c] # "idle",
         \A d \in Chains : d # c => at'[d] = at[d], busy' = busy
  PROVE  busy' = {d \in {"save", "import"} : at'[d] # "idle"}
BY DEF TypeOK, Chains

LEMMA ButtonBack ==
  ASSUME TypeOK, NEW c \in Chains, at'[c] = "idle",
         \A d \in Chains : d # c => at'[d] = at[d], Done(c)
  PROVE  busy' = {d \in {"save", "import"} : at'[d] # "idle"}
BY DEF TypeOK, Chains, Done

LEMMA ApplyStep ==
  ASSUME Inv, NEW c \in Senders, Apply(c)
  PROVE  Inv'
<1> USE DEF Chains, Senders, Inv
<1>1. /\ UNCHANGED <<form, rows, busy, host, there, jumps, got, ops, touched, seen,
                     outside, trouble>>
      /\ at[c] = "sent" /\ ver' = ver + 1 /\ sure' = sure \cap {c}
      /\ server' = [rules |-> body[c].rules, monitor |-> body[c].monitor]
      /\ panel' = body[c].monitor
      /\ Accepts(body[c])
  BY DEF Apply, page
<1>2. /\ at'[c] = "applied" /\ \A d \in Chains : d # c => at'[d] = at[d]
      /\ at' \in [Chains -> Steps]
  BY Moves DEF Apply, Steps
<1>3. DOMAIN body' = Chains /\ \A d \in Chains : d # c => body'[d] = body[d]
  BY DEF Apply, Phases
<1>4. server' \in Confs /\ Runs(server') /\ Accepts(server') /\ panel' \in Addrs
  <2>1. body[c].rules \in Seq(LineSet) /\ body[c].monitor \in Addrs /\ Fits(body[c].rules)
    BY <1>1 DEF Sent
  <2>2. server'.rules = body[c].rules /\ server'.monitor = body[c].monitor
    BY <1>1
  <2> QED BY <1>1, <2>1, <2>2 DEF Confs, Runs, Accepts
<1>5. ver \in Nat /\ ops \in 0 .. MaxOps /\ seen \in 0 .. ver /\ MaxOps \in Nat
  BY ConstantsAssumption DEF TypeOK
<1>6. (ver + Pending("save") + Pending("import") <= ops)'
  BY <1>1, <1>2, <1>5 DEF Phases, Pending
<1>7. TypeOK'
  <2>1. busy' = {d \in {"save", "import"} : at'[d] # "idle"}
    BY <1>1, <1>2, ButtonKept
  <2>2. ver' \in 0 .. MaxOps /\ seen' \in 0 .. ver'
    BY <1>1, <1>5, <1>6 DEF Pending
  <2> QED BY <1>1, <1>2, <1>4, <2>1, <2>2 DEF TypeOK, Steps
<1>8. Phases'
  BY <1>1, <1>2, <1>3, <1>4, <1>6 DEF Phases
<1>9. Sent' /\ Untouched'
  <2>1. at'["save"] = "sent" => /\ body'["save"] = body["save"] /\ at["save"] = "sent"
                                /\ body["save"].from # ver'
    BY <1>1, <1>2, <1>3, <1>5, ConstantsAssumption DEF Sent
  <2>2. Sent'
    BY <1>1, <1>2, <1>3, <1>5, <2>1 DEF Sent
  <2> QED BY <2>1, <2>2 DEF Untouched
<1>10. Answers' /\ Read'
  BY <1>1, <1>2, <1>5 DEF Answers, Read
<1>11. Coming'
  BY <1>2 DEF Coming, Fresh
<1>12. Landing'
  BY <1>1, <1>2 DEF Landing
<1> QED BY <1>7, <1>8, <1>9, <1>10, <1>11, <1>12

LEMMA RefusedStep ==
  ASSUME Inv, NEW c \in Chains, Refused(c), panel' \in Addrs,
         \/ sure' = sure /\ panel' = panel
         \/ sure' = {}
  PROVE  Inv'
<1> USE DEF Chains, Senders, Inv
<1>1. /\ UNCHANGED <<server, ver, form, rows, busy, host, there, jumps, got, ops, touched,
                     seen, outside, trouble>>
      /\ at[c] = "sent" /\ sure' \subseteq sure
  BY DEF Refused, page
<1>2. /\ at'[c] = "refused" /\ \A d \in Chains : d # c => at'[d] = at[d]
      /\ at' \in [Chains -> Steps] /\ c # "mount"
  BY <1>1, Moves DEF Refused, Steps, Phases
<1>3. DOMAIN body' = Chains /\ \A d \in Chains : d # c => body'[d] = body[d]
  BY DEF Refused, Phases
<1>4. TypeOK'
  <2>1. busy' = {d \in {"save", "import"} : at'[d] # "idle"}
    BY <1>1, <1>2, ButtonKept
  <2> QED BY <1>1, <1>2, <2>1 DEF TypeOK, Steps, Accepts
<1>5. Phases'
  <2>1. (ver + Pending("save") + Pending("import") <= ops)'
    BY <1>1, <1>2 DEF Phases, Pending, TypeOK
  <2> QED BY <1>1, <1>2, <1>3, <2>1 DEF Phases
<1>6. Sent' /\ Untouched'
  BY <1>1, <1>2, <1>3 DEF Sent, Untouched
<1>7. Answers' /\ Read'
  BY <1>1, <1>2 DEF Answers, Read
<1>8. Coming'
  BY <1>1, <1>2 DEF Coming, Fresh
<1>9. Landing'
  <2>1. CASE sure' = {}
    BY <2>1 DEF Landing
  <2>2. CASE sure' = sure /\ panel' = panel
    BY <1>1, <1>2, <1>3, <2>2 DEF Landing
  <2> QED BY <2>1, <2>2
<1> QED BY <1>4, <1>5, <1>6, <1>7, <1>8, <1>9

LEMMA RefuseStep ==
  ASSUME Inv, NEW c \in Chains, RefuseRules(c) \/ RefuseOthers(c)
  PROVE  Inv'
<1>1. panel \in Addrs /\ server.monitor \in Addrs
  BY DEF Inv, TypeOK, Confs
<1>2. CASE RefuseRules(c)
  BY <1>1, <1>2, RefusedStep DEF RefuseRules
<1>3. CASE RefuseOthers(c)
  <2>1. at[c] = "sent" /\ c \in Senders
    BY <1>3 DEF RefuseOthers, Refused, Inv, Phases, Senders, Chains
  <2>2. body[c].monitor \in Addrs
    BY <2>1 DEF Inv, Sent
  <2>3. panel' \in Addrs
    BY <1>1, <1>3, <2>2 DEF RefuseOthers
  <2> QED BY <1>3, <2>3, RefusedStep DEF RefuseOthers
<1> QED BY <1>2, <1>3

LEMMA ReplyStep ==
  ASSUME Inv, NEW c \in Chains, Reply(c)
  PROVE  Inv'
<1> USE DEF Chains, Senders, Inv
<1>1. /\ UNCHANGED <<server, panel, ver, form, rows, busy, host, there, jumps, body, ops, touched,
                     seen, outside, trouble, sure>>
      /\ at[c] = "applied"
  BY DEF Reply, page, history
<1>2. /\ at'[c] = "ok" /\ \A d \in Chains : d # c => at'[d] = at[d]
      /\ at' \in [Chains -> Steps] /\ c # "mount"
  BY <1>1, Moves DEF Reply, Steps, Phases
<1>3. /\ DOMAIN got' = Chains /\ \A d \in Chains : d # c => got'[d] = got[d]
      /\ got'[c] = IF c = "import" THEN server.monitor ELSE Nothing
  BY DEF Reply, Phases
<1>4. TypeOK'
  <2>1. busy' = {d \in {"save", "import"} : at'[d] # "idle"}
    BY <1>1, <1>2, ButtonKept
  <2> QED BY <1>1, <1>2, <2>1 DEF TypeOK, Steps, Accepts
<1>5. Phases'
  <2>1. (ver + Pending("save") + Pending("import") <= ops)'
    BY <1>1, <1>2 DEF Phases, Pending, TypeOK
  <2> QED BY <1>1, <1>2, <1>3, <2>1 DEF Phases
<1>6. Sent' /\ Untouched' /\ Read'
  BY <1>1, <1>2 DEF Sent, Untouched, Read
<1>7. Answers'
  <2>1. server.monitor \in Addrs
    BY DEF TypeOK, Confs
  <2> QED BY <1>1, <1>2, <1>3, <2>1 DEF Answers
<1>8. Coming'
  BY <1>1, <1>2, <1>3 DEF Coming, Fresh
<1>9. Landing'
  BY <1>1, <1>2, <1>3 DEF Landing
<1> QED BY <1>4, <1>5, <1>6, <1>7, <1>8, <1>9

LEMMA GetStep ==
  ASSUME Inv, NEW c \in Chains, Get(c)
  PROVE  Inv'
<1> USE DEF Chains, Senders, Inv
<1>1. /\ UNCHANGED <<server, panel, ver, form, rows, busy, host, there, jumps, body, ops, touched,
                     seen, trouble, sure>>
      /\ at[c] = "get"
  BY DEF Get, page
<1>2. /\ at'[c] = "got" /\ \A d \in Chains : d # c => at'[d] = at[d]
      /\ at' \in [Chains -> Steps]
  BY <1>1, Moves DEF Get, Steps
<1>3. /\ DOMAIN got' = Chains /\ \A d \in Chains : d # c => got'[d] = got[d]
      /\ got'[c].server = server /\ got'[c].ver = ver
  BY DEF Get, Phases
<1>4. TypeOK'
  <2>1. busy' = {d \in {"save", "import"} : at'[d] # "idle"}
    BY <1>1, <1>2, ButtonKept
  <2> QED BY <1>1, <1>2, <2>1 DEF TypeOK, Steps, Accepts
<1>5. Phases'
  <2>1. (ver + Pending("save") + Pending("import") <= ops)'
    BY <1>1, <1>2 DEF Phases, Pending, TypeOK
  <2> QED BY <1>1, <1>2, <1>3, <2>1 DEF Phases
<1>6. Sent' /\ Untouched' /\ Read'
  BY <1>1, <1>2 DEF Sent, Untouched, Read
<1>7. Answers'
  BY <1>1, <1>2, <1>3 DEF Answers, TypeOK, Phases
<1>8. Coming'
  BY <1>1, <1>2, <1>3 DEF Coming, Fresh
<1>9. Landing'
  BY <1>1, <1>2, <1>3 DEF Landing
<1> QED BY <1>4, <1>5, <1>6, <1>7, <1>8, <1>9

LEMMA OtherStep ==
  ASSUME Inv, NEW c \in Others, Other(c)
  PROVE  Inv'
<1> USE DEF Chains, Senders, Inv
<1>1. /\ UNCHANGED <<form, rows, busy, host, there, jumps, at, body, got, touched, seen,
                     trouble>>
      /\ server' = c /\ ver' = ver + 1 /\ outside' = TRUE /\ sure' = {}
      /\ panel' \in {panel, c.monitor}
  BY DEF Other, page, fetches
<1>2. ops' = ops + 1 /\ ops' \in 0 .. MaxOps /\ ops \in Nat /\ ver \in Nat /\ seen \in 0 .. ver
  BY ConstantsAssumption DEF Other, Operate, TypeOK
<1>3. server' \in Confs /\ Runs(server') /\ Accepts(server') /\ panel' \in Addrs
  <2>1. c \in Confs /\ Runs(c)
    BY ConstantsAssumption
  <2>2. c.monitor \in Addrs /\ panel \in Addrs
    BY <2>1 DEF Confs, TypeOK
  <2> QED BY <1>1, <2>1, <2>2 DEF Runs, Accepts
<1>4. (ver + Pending("save") + Pending("import") <= ops)'
  BY <1>1, <1>2 DEF Phases, Pending
<1>5. TypeOK'
  <2>1. ver' \in 0 .. MaxOps /\ seen' \in 0 .. ver'
    BY <1>1, <1>2, <1>4, ConstantsAssumption DEF Pending
  <2> QED BY <1>1, <1>2, <1>3, <2>1 DEF TypeOK
<1>6. Phases'
  BY <1>1, <1>3, <1>4 DEF Phases
<1>7. Sent' /\ Untouched'
  <2>1. at'["save"] = "sent" => body["save"].from \in 0 .. ver \cup {NoVer} /\ body["save"].from # ver'
    BY <1>1, <1>2, ConstantsAssumption DEF Sent
  <2> QED BY <1>1, <1>2, <2>1 DEF Sent, Untouched
<1>8. Answers' /\ Read'
  BY <1>1, <1>2 DEF Answers, Read
<1>9. Coming' /\ Landing'
  BY <1>1 DEF Coming, Landing
<1> QED BY <1>5, <1>6, <1>7, <1>8, <1>9

-----------------------------------------------------------------------------
(* The page.                                                               *)

LEMMA SucceededStep ==
  ASSUME Inv, NEW c \in Chains, Succeeded(c)
  PROVE  Inv'
<1> USE DEF Chains, Senders, Inv
<1>1. /\ UNCHANGED <<server, panel, ver, form, rows, host, there, body, ops, touched, seen,
                     outside, trouble>>
      /\ at[c] = "ok" /\ sure' = sure \ {c}
  BY DEF Succeeded
<1>2. c # "mount"
  BY <1>1 DEF Phases
<1>3. DOMAIN got' = Chains /\ \A d \in Chains : d # c => got'[d] = got[d]
  BY DEF Succeeded, Phases
<1>4. \/ at'[c] = "idle" /\ jumps' = jumps \cup {Home(c)} /\ Done(c)
      \/ at'[c] = "get" /\ jumps' = jumps /\ busy' = busy
  BY DEF Succeeded, ReadBack, TypeOK
<1>5. at' \in [Chains -> Steps] /\ \A d \in Chains : d # c => at'[d] = at[d]
  BY DEF Succeeded, ReadBack, TypeOK, Steps
<1>6. Home(c) \in Addrs
  BY <1>1, <1>2 DEF Home, Phases, Answers, TypeOK
<1>7. TypeOK'
  <2>1. busy' = {d \in {"save", "import"} : at'[d] # "idle"}
    BY <1>1, <1>4, <1>5, ButtonBack, ButtonKept
  <2>2. busy' = busy \/ busy' = busy \ {c}
    BY <1>4 DEF Done
  <2> QED BY <1>1, <1>4, <1>5, <1>6, <2>1, <2>2 DEF TypeOK, Steps, Accepts
<1>8. Phases'
  <2>1. (ver + Pending("save") + Pending("import") <= ops)'
    BY <1>1, <1>4, <1>5 DEF Phases, Pending, TypeOK
  <2> QED BY <1>1, <1>2, <1>3, <1>4, <1>5, <2>1 DEF Phases
<1>9. Sent' /\ Untouched' /\ Read'
  BY <1>1, <1>4, <1>5 DEF Sent, Untouched, Read
<1>10. Answers'
  BY <1>1, <1>3, <1>4, <1>5 DEF Answers
<1>11. Coming'
  BY <1>1, <1>3, <1>4, <1>5 DEF Coming, Fresh
<1>12. Landing'
  BY <1>1, <1>3, <1>4, <1>5 DEF Landing
<1> QED BY <1>7, <1>8, <1>9, <1>10, <1>11, <1>12

LEMMA WasRefusedStep ==
  ASSUME Inv, NEW c \in Chains, WasRefused(c)
  PROVE  Inv'
<1> USE DEF Chains, Senders, Inv
<1>1. /\ UNCHANGED <<server, panel, ver, form, rows, host, there, jumps, body, got, ops, touched,
                     seen, outside, trouble>>
      /\ at[c] = "refused" /\ sure' = sure \ {c} /\ Done(c)
  BY DEF WasRefused
<1>2. /\ at'[c] = "idle" /\ \A d \in Chains : d # c => at'[d] = at[d]
      /\ at' \in [Chains -> Steps]
  BY <1>1, Moves DEF WasRefused, Steps
<1>3. TypeOK'
  <2>1. busy' = {d \in {"save", "import"} : at'[d] # "idle"}
    BY <1>1, <1>2, ButtonBack
  <2>2. busy' = busy \ {c}
    BY <1>1 DEF Done
  <2> QED BY <1>1, <1>2, <2>1, <2>2 DEF TypeOK, Steps, Accepts
<1>4. Phases'
  <2>1. (ver + Pending("save") + Pending("import") <= ops)'
    BY <1>1, <1>2 DEF Phases, Pending, TypeOK
  <2> QED BY <1>1, <1>2, <2>1 DEF Phases
<1>5. Sent' /\ Untouched' /\ Read'
  BY <1>1, <1>2 DEF Sent, Untouched, Read
<1>6. Answers' /\ Landing'
  BY <1>1, <1>2 DEF Answers, Landing
<1>7. Coming'
  BY <1>1, <1>2 DEF Coming, Fresh
<1> QED BY <1>3, <1>4, <1>5, <1>6, <1>7

LEMMA LoadedStep ==
  ASSUME Inv, NEW c \in Chains, Loaded(c)
  PROVE  Inv'
<1> USE DEF Chains, Senders, Inv
<1>1. /\ UNCHANGED <<server, panel, ver, host, there, jumps, body, ops, outside>>
      /\ at[c] = "got" /\ sure' = sure \ {"save"} /\ Done(c) /\ touched' = FALSE
  BY DEF Loaded
<1>2. /\ at'[c] = "idle" /\ \A d \in Chains : d # c => at'[d] = at[d]
      /\ at' \in [Chains -> Steps]
  BY <1>1, Moves DEF Loaded, Steps
<1>3. PICK g : g = got[c]
  OBVIOUS
<1>4. /\ form' = g.server.monitor /\ rows' = LoadRules(g.server.rules) /\ seen' = g.ver
      /\ trouble' = (trouble \/ g.ver < seen)
  BY <1>3 DEF Loaded
<1>5. /\ g.server \in Confs /\ Runs(g.server) /\ g.ver \in 0 .. ver
      /\ g.ver = ver => g.server = server
  BY <1>1, <1>3 DEF Answers
<1>6. DOMAIN got' = Chains /\ \A d \in Chains : d # c => got'[d] = got[d]
  BY DEF Loaded, Phases
<1>7. form' \in Addrs /\ form' # NoForm /\ g.server.rules \in Seq(LineSet)
  BY <1>4, <1>5, ConstantsAssumption DEF Confs
<1>8. rows' \in Seq(RowSet) /\ Len(rows') <= MaxRows
  BY <1>4, <1>5, <1>7, LoadRulesType DEF Runs, Fits
<1>9. ver \in Nat /\ seen \in 0 .. ver
  BY DEF TypeOK
<1>10. TypeOK'
  <2>1. busy' = {d \in {"save", "import"} : at'[d] # "idle"}
    BY <1>1, <1>2, ButtonBack
  <2>2. c \notin sure
    BY <1>1 DEF Landing, TypeOK
  <2>3. sure' \subseteq busy'
    BY <1>1, <2>2 DEF Done, TypeOK
  <2> QED BY <1>1, <1>2, <1>4, <1>5, <1>7, <1>8, <2>1, <2>3 DEF TypeOK, Steps, Accepts
<1>11. Phases'
  <2>1. (ver + Pending("save") + Pending("import") <= ops)'
    BY <1>1, <1>2 DEF Phases, Pending, TypeOK
  <2>2. there'
    BY <1>1 DEF Phases
  <2> QED BY <1>1, <1>2, <1>6, <1>7, <2>1, <2>2 DEF Phases
<1>12. Sent' /\ Untouched'
  BY <1>1, <1>2 DEF Sent, Untouched
<1>13. Read'
  BY <1>1, <1>4, <1>5 DEF Read
<1>14. Answers'
  BY <1>1, <1>2, <1>6 DEF Answers
<1>15. Coming'
  <2>1. SUFFICES ASSUME there, g.ver < ver, ~ outside, ~ trouble, ~ (g.ver < seen)
                 PROVE  jumps # {} \/ \E d \in Chains : Fresh(d)'
    BY <1>1, <1>4 DEF Coming
  <2>2. seen < ver
    BY <1>5, <1>9, <2>1
  <2>3. jumps # {} \/ \E d \in Chains : Fresh(d)
    BY <2>1, <2>2 DEF Coming
  <2>4. ~ Fresh(c)
    BY <1>1, <1>3, <1>5, <1>9, <2>1 DEF Fresh
  <2>5. \A d \in Chains : d # c /\ Fresh(d) => Fresh(d)'
    BY <1>1, <1>2, <1>6 DEF Fresh
  <2> QED BY <2>3, <2>4, <2>5
<1>16. Landing'
  <2>1. c \notin sure
    BY <1>1 DEF Landing, TypeOK
  <2> QED BY <1>1, <1>2, <1>6, <2>1 DEF Landing
<1> QED BY <1>10, <1>11, <1>12, <1>13, <1>14, <1>15, <1>16

LEMMA FetchFailsStep ==
  ASSUME Inv, NEW c \in Chains, FetchFails(c)
  PROVE  Inv'
<1> USE DEF Chains, Senders, Inv
<1>1. /\ UNCHANGED <<server, panel, ver, form, rows, host, there, jumps, ops, touched, seen, outside>>
      /\ sure' = sure \ {c} /\ Done(c) /\ trouble' = TRUE /\ at[c] # "idle"
  BY DEF FetchFails
<1>2. /\ at'[c] = "idle" /\ \A d \in Chains : d # c => at'[d] = at[d]
      /\ at' \in [Chains -> Steps]
  BY <1>1, Moves DEF FetchFails, Steps
<1>3. /\ DOMAIN body' = Chains /\ DOMAIN got' = Chains
      /\ \A d \in Chains : d # c => body'[d] = body[d] /\ got'[d] = got[d]
  BY DEF FetchFails, Phases
<1>4. TypeOK'
  <2>1. busy' = {d \in {"save", "import"} : at'[d] # "idle"}
    BY <1>1, <1>2, ButtonBack
  <2>2. busy' = busy \ {c}
    BY <1>1 DEF Done
  <2> QED BY <1>1, <1>2, <2>1, <2>2 DEF TypeOK, Steps, Accepts
<1>5. Phases'
  <2>1. (ver + Pending("save") + Pending("import") <= ops)'
    BY <1>1, <1>2 DEF Phases, Pending, TypeOK
  <2> QED BY <1>1, <1>2, <1>3, <2>1 DEF Phases
<1>6. Sent' /\ Untouched' /\ Read'
  BY <1>1, <1>2, <1>3 DEF Sent, Untouched, Read
<1>7. Answers' /\ Landing'
  BY <1>1, <1>2, <1>3 DEF Answers, Landing
<1>8. Coming'
  BY <1>1 DEF Coming
<1> QED BY <1>4, <1>5, <1>6, <1>7, <1>8

LEMMA JumpStep ==
  ASSUME Inv, Jump
  PROVE  Inv'
<1> USE DEF Chains, Senders, Inv
<1>1. PICK a \in jumps : host' = a /\ there' = (a \in Reach[panel]) /\ a \in Addrs
  BY DEF Jump, TypeOK
<1>2. /\ UNCHANGED <<server, panel, ver, ops>> /\ jumps' = {} /\ form' = NoForm /\ rows' = <<>>
      /\ busy' = {} /\ sure' = {} /\ touched' = FALSE /\ seen' = 0 /\ outside' = FALSE
  BY DEF Jump
<1>3. /\ at' \in [Chains -> Steps] /\ at'["save"] = "idle" /\ at'["import"] = "idle"
      /\ at'["mount"] = IF there' THEN "get" ELSE "idle"
  BY DEF Jump, Steps
<1>4. DOMAIN body' = Chains /\ DOMAIN got' = Chains
  BY DEF Jump
<1>5. TypeOK'
  <2>1. rows' \in Seq(RowSet) /\ Len(rows') <= MaxRows
    BY <1>2, EmptySeq, ConstantsAssumption
  <2>2. busy' = {d \in {"save", "import"} : at'[d] # "idle"}
    BY <1>2, <1>3
  <2> QED BY <1>1, <1>2, <1>3, <2>1, <2>2 DEF TypeOK, Steps, Accepts
<1>6. Phases'
  <2>1. (ver + Pending("save") + Pending("import") <= ops)'
    BY <1>2, <1>3 DEF Phases, Pending, TypeOK
  <2> QED BY <1>1, <1>2, <1>3, <1>4, <2>1 DEF Phases
<1>7. Sent' /\ Answers' /\ Read' /\ Untouched' /\ Landing'
  BY <1>2, <1>3 DEF Sent, Answers, Read, Untouched, Landing
<1>8. Coming'
  BY <1>2, <1>3 DEF Coming, Fresh
<1> QED BY <1>5, <1>6, <1>7, <1>8

LEMMA InvStep == Inv /\ [Next]_vars => Inv'
<1> SUFFICES ASSUME Inv, [Next]_vars PROVE Inv'
  OBVIOUS
<1>1. CASE User
  BY <1>1, EditsStep, SaveStep, ImportStep DEF User
<1>2. ASSUME NEW c \in Chains, Fetch(c) PROVE Inv'
  <2>1. CASE Apply(c)
    BY <2>1, ApplyStep DEF Apply, Senders
  <2> QED BY <1>2, <2>1, RefuseStep, ReplyStep, GetStep, SucceededStep, WasRefusedStep,
             LoadedStep, FetchFailsStep DEF Fetch
<1>3. CASE Jump
  BY <1>3, JumpStep
<1>4. ASSUME NEW c \in Others, Other(c) PROVE Inv'
  BY <1>4, OtherStep
<1>5. CASE UNCHANGED vars
  BY <1>5 DEF Inv, TypeOK, Phases, Pending, Sent, Answers, Read, Untouched, Coming, Fresh,
              Landing, vars, page, fetches, history, Accepts
<1> QED BY <1>1, <1>2, <1>3, <1>4, <1>5 DEF Next

LEMMA Invariance == Spec => []Inv
BY InvInit, InvStep, PTL DEF Spec

-----------------------------------------------------------------------------
(* Theorems.                                                               *)

\* Every variable keeps to its type, and a button is disabled exactly while its
\* request is under way (Settings.vue, saving and importing).
THEOREM Typing == Spec => []TypeOK
<1>1. Inv => TypeOK
  BY DEF Inv
<1> QED BY <1>1, Invariance, PTL

\* UntouchedFormIsServer.  At rest, unedited and undisturbed, the page shows the
\* configuration in force (Settings.vue:311), however saves, imports and reads
\* have interleaved.
THEOREM FormIsServer == Spec => []UntouchedFormIsServer
<1>1. Inv => UntouchedFormIsServer
  <2> SUFFICES ASSUME Inv, Quiet, form # NoForm, ~ touched, ~ outside, ~ trouble
               PROVE  form = server.monitor /\ \A t \in Targets : Decides(rows, t) = ServerDecides(t)
    BY DEF UntouchedFormIsServer
  <2>1. there
    BY DEF Inv, Phases
  <2>2. \A c \in Chains : ~ Fresh(c)
    BY DEF Quiet, Fresh
  <2>3. ~ (seen < ver)
    BY <2>1, <2>2 DEF Inv, Coming, Quiet
  <2>4. seen = ver
    BY <2>3 DEF Inv, TypeOK
  <2>5. form = server.monitor /\ rows = LoadRules(server.rules)
    BY <2>4 DEF Inv, Read
  <2>6. rows = ParseRules(server.rules)
    BY <2>5, ShowsTheRules DEF Inv, Phases, Runs, TypeOK, Confs
  <2> QED BY <2>5, <2>6 DEF ServerDecides
<1> QED BY <1>1, Invariance, PTL

\* UntouchedSaveKeepsRouting.  Saving what was read, unedited, of a configuration
\* still in force is not refused for its rules and, once it is in force itself,
\* has changed the verdict on no target (Settings.vue, rowsToRaw; main.go,
\* parseRule).
LEMMA SaveKeepsRouting ==
  Inv /\ [Next]_vars =>
    [UntouchedSave =>
       /\ ~RefuseRules("save")
       /\ at'["save"] = "applied" =>
            \A t \in Targets : ServerDecides(t)' = ServerDecides(t)]_vars
<1> SUFFICES ASSUME Inv, Next, UntouchedSave
             PROVE  /\ ~RefuseRules("save")
                    /\ at'["save"] = "applied" =>
                         \A t \in Targets : ServerDecides(t)' = ServerDecides(t)
  BY DEF UntouchedSave, vars, fetches
<1> USE DEF Chains, Inv
<1>1. /\ at["save"] = "sent" /\ body["save"].monitor = server.monitor
      /\ body["save"].rules = RawRows(LoadRules(server.rules))
  BY DEF UntouchedSave, Untouched
<1>2. PICK sent : sent = RawRows(LoadRules(server.rules))
  OBVIOUS
<1>3. /\ \A i \in DOMAIN sent : ParsesRule(sent[i])
      /\ ParseRules(sent) = ParseRules(server.rules)
  BY <1>2, SendsTheRules DEF Phases, Runs, Fits, TypeOK, Confs
<1>4. ~ RefuseRules("save")
  BY <1>1, <1>2, <1>3 DEF RefuseRules, Accepts
<1>5. Apply("save") \/ at'["save"] # "applied"
  <2>1. CASE User
    BY <1>1, <2>1 DEF User, AddRule, DelRule, SetRow, MoveRule, SetMonitor, AppendPaste, Edit,
       Save, DoImport, TypeOK, fetches
  <2>2. ASSUME NEW c \in Chains, Fetch(c), c # "save" PROVE at'["save"] = at["save"]
    BY <2>2 DEF Fetch, Apply, RefuseRules, RefuseOthers, Refused, Reply, Get, Succeeded,
       WasRefused, Loaded, FetchFails, ReadBack, TypeOK
  <2>3. CASE Fetch("save")
    BY <1>1, <2>3 DEF Fetch, RefuseRules, RefuseOthers, Refused, Reply, Get, Succeeded,
       WasRefused, Loaded, FetchFails, TypeOK
  <2>4. CASE Jump
    BY <2>4 DEF Jump
  <2>5. ASSUME NEW c \in Others, Other(c) PROVE at'["save"] = at["save"]
    BY <2>5 DEF Other, fetches
  <2> QED BY <1>1, <2>1, <2>2, <2>3, <2>4, <2>5 DEF Next
<1>6. Apply("save") => server'.rules = sent
  BY <1>1, <1>2 DEF Apply
<1> QED BY <1>3, <1>4, <1>5, <1>6 DEF ServerDecides

THEOREM SavesRouting == Spec => UntouchedSaveKeepsRouting
BY Invariance, SaveKeepsRouting, PTL DEF Spec, UntouchedSaveKeepsRouting

\* PageJudgesAsParser.  A save is refused for a rule only if it is one the page
\* cannot judge, and a paste takes every line that parses (Settings.vue:302, 326; main.go,
\* parseRule).
LEMMA JudgesAsParser ==
  Inv /\ [Next]_vars =>
    [/\ RefuseRules("save") => RefusedForValue(body["save"])
     /\ \A lines \in Pastes :
          AppendPaste(lines) =>
            \A l \in ToSet(lines) : ParsesRule(l) => Rule(l) \in ToSet(rows')]_vars
<1>1. ASSUME Inv, RefuseRules("save")
      PROVE  RefusedForValue(body["save"])
  <2>1. at["save"] = "sent" /\ ~ Accepts(body["save"])
    BY <1>1 DEF RefuseRules, Refused
  <2>2. PICK i \in DOMAIN body["save"].rules : ~ ParsesRule(body["save"].rules[i])
    BY <2>1 DEF Accepts
  <2>3. Unmarked(body["save"].rules[i])
    BY <1>1, <2>1 DEF Inv, Sent
  <2> QED BY <2>2, <2>3 DEF RefusedForValue, ParsesRule, Unmarked
<1>2. ASSUME Inv, NEW lines \in Pastes, AppendPaste(lines),
             NEW l \in ToSet(lines), ParsesRule(l)
      PROVE  Rule(l) \in ToSet(rows')
  <2>1. lines \in Seq(LineSet)
    BY ConstantsAssumption
  <2>2. PICK i \in 1 .. Len(lines) : l = lines[i]
    BY <2>1, LenProperties DEF ToSet
  <2>3. PasteTakes(lines[i])
    BY <1>2, <2>2 DEF ParsesRule, PasteTakes
  <2>4. PICK s : s = Taken(lines)
    OBVIOUS
  <2>5. s \in Seq(RowSet) /\ \E k \in 1 .. Len(s) : s[k] = Rule(l)
    BY <2>1, <2>2, <2>3, <2>4, TakenType DEF HasTaken
  <2>6. PICK k \in 1 .. Len(s) : s[k] = Rule(l)
    BY <2>5
  <2>7. PICK new : new = rows \o s
    OBVIOUS
  <2>8. rows \in Seq(RowSet) /\ rows' = new
    BY <1>2, <2>4, <2>7 DEF AppendPaste, Inv, TypeOK
  <2>9. /\ Len(rows) \in Nat /\ Len(s) \in Nat /\ DOMAIN new = 1 .. Len(rows) + Len(s)
        /\ \A m \in 1 .. Len(rows) + Len(s) :
             new[m] = IF m <= Len(rows) THEN rows[m] ELSE s[m - Len(rows)]
    BY <2>5, <2>7, <2>8, ConcatProperties, LenProperties
  <2>10. Len(rows) + k \in DOMAIN new /\ new[Len(rows) + k] = Rule(l)
    BY <2>6, <2>9
  <2> QED BY <2>8, <2>10 DEF ToSet
<1> QED BY <1>1, <1>2

THEOREM JudgedAlike == Spec => PageJudgesAsParser
BY Invariance, JudgesAsParser, PTL DEF Spec, PageJudgesAsParser

\* MoveKeepsOthers.  Moving a row past its neighbour changes the verdict only on
\* targets both of them hit (README.md:89; Settings.vue, moveRule).
LEMMA KeepsOthers ==
  Inv /\ [Next]_vars =>
    [\A i, j \in 1 .. MaxRows :
       MoveRule(i, j) =>
         \A t \in Targets :
           ~(Hits(rows[i], t) /\ Hits(rows[j], t)) => Decides(rows', t) = Decides(rows, t)]_vars
<1> SUFFICES ASSUME Inv, NEW i \in 1 .. MaxRows, NEW j \in 1 .. MaxRows, MoveRule(i, j),
                    NEW t \in Targets, ~ (Hits(rows[i], t) /\ Hits(rows[j], t))
             PROVE  Decides(rows', t) = Decides(rows, t)
  OBVIOUS
<1>1. /\ rows \in Seq(RowSet) /\ i \in DOMAIN rows /\ j \in DOMAIN rows
      /\ j = i + 1 \/ i = j + 1
      /\ rows' = Moved(i, j)
  BY DEF MoveRule, Inv, TypeOK
<1>2. Decides(Moved(i, j), t) = Decides(rows, t)
  BY <1>1, MovedDecides
<1> QED BY <1>1, <1>2

THEOREM MovingKeeps == Spec => MoveKeepsOthers
BY Invariance, KeepsOthers, PTL DEF Spec, MoveKeepsOthers

\* JumpLandsOnPanel.  After a save or an import nothing has interfered with, the
\* page stays where the panel is found, or is sent there, if the panel listens at
\* an address of a host (Settings.vue:215).
LEMMA LandsOnPanel ==
  Inv /\ [Next]_vars =>
    [\A c \in sure :
       Succeeded(c) /\ OfHost(panel) =>
         (IF at'[c] = "get" THEN {host} ELSE jumps' \ jumps) \subseteq Reach[panel]]_vars
<1> SUFFICES ASSUME Inv, NEW c \in sure, Succeeded(c), OfHost(panel)
             PROVE  (IF at'[c] = "get" THEN {host} ELSE jumps' \ jumps) \subseteq Reach[panel]
  OBVIOUS
<1>1. c \in Senders /\ c \in Chains /\ at[c] = "ok"
  BY DEF Succeeded, Inv, TypeOK, Senders, Chains
<1>2. Home(c) = server.monitor /\ panel = server.monitor
  BY <1>1 DEF Home, Senders, Inv, Landing
<1>3. Home(c) \in Reach[panel]
  BY <1>2 DEF OfHost
<1>4. CASE Home(c) # host
  <2>1. at'[c] = "idle" /\ jumps' = jumps \cup {Home(c)}
    BY <1>1, <1>4 DEF Succeeded, Inv, TypeOK
  <2> QED BY <1>3, <2>1
<1>5. CASE Home(c) = host
  <2>1. jumps' = jumps
    BY <1>5 DEF Succeeded
  <2> QED BY <1>3, <1>5, <2>1
<1> QED BY <1>4, <1>5

THEOREM JumpLands == Spec => JumpLandsOnPanel
BY Invariance, LandsOnPanel, PTL DEF Spec, JumpLandsOnPanel

=============================================================================
