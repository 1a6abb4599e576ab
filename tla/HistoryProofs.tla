----------------------------- MODULE HistoryProofs -----------------------------
(***************************************************************************)
(* Theorems about History for every set of domains, every length of day    *)
(* and every retention: whatever is refused, killed and restarted, every   *)
(* byte is filed at most once and in time, and either table keeps within   *)
(* its window.                                                             *)
(***************************************************************************)
EXTENDS History, Sums, TLAPS

\* The history variables.
Histories ==
  /\ ever \in [Domains -> Nat]
  /\ before \in [0 .. now -> Nat]
  /\ lost \in Nat /\ lostDom \in [Domains -> Nat]
  /\ gone \in Nat /\ goneDom \in [Domains -> Nat]
  /\ \A t \in {"points", "rows"} : missed[t] <= fails

\* Where the record loop is: awake only when the minute of its label is over,
\* never later than MaxLate, with nothing filed under that label yet and
\* nothing in hand but what it is about to file.
Labels ==
  /\ loop # "top" => label \in 1 .. now + 1 /\ now <= label + MaxLate
  /\ loop \in {"point", "domains"} => label <= now
  /\ loop \in {"sleep", "point"} => \A m \in DOMAIN points : m < label
  /\ \A m \in DOMAIN points : m <= now
  /\ loop # "point" => delta = 0

\* What is filed up to a minute, and for a domain.
Upto(m) == SumFunctionOnSet(points, {k \in DOMAIN points : k <= m})
RowsOf(d) == SumFunctionOnSet(rows, {k \in DOMAIN rows : k[2] = d})

\* PointsAccountForAll without the buckets.
PointSum == SumFunction(points) + gone + delta + (total - last) + lost = SumFunction(ever)

\* What moved before a minute was over is not more than what has moved; while
\* the loop holds the amount of its label, it holds all that moved before it.
Befores ==
  /\ \A m \in 0 .. now : before[m] <= SumFunction(ever)
  /\ loop = "point" => before[label] + (total - last) <= SumFunction(ever)

\* RetentionWindow with the moment of the next deletion instead of the clock:
\* the clock moves on while nothing is deleted, and a minute slept through puts
\* the deletion off by as much as it is allowed for.
Window ==
  /\ \A m \in DOMAIN points :
       m + KeepPoints + CleanEvery * (1 + missed.points) + slept.points >= due
  /\ \A x \in DOMAIN rows :
       (x[1] + KeepDays + 1) * DayLen + CleanEvery * (1 + missed.rows) + slept.rows >= due

Inv == /\ TypeOK /\ Histories /\ Labels /\ PointSum /\ DomainsAccountForAll
       /\ Befores /\ NothingIsFiledLate /\ Window

-----------------------------------------------------------------------------
(* Days, and the sums of the tables.                                       *)

\* A day begins no later than its minutes and ends after them.
LEMMA DayOf ==
  ASSUME NEW m \in Nat
  PROVE  Day(m) \in Nat /\ Day(m) * DayLen <= m /\ m < (Day(m) + 1) * DayLen
  BY ConstantsAssumption DEF Day

\* Products with the constants, which the provers take as they are.
LEMMA Multiples ==
  /\ \A a, b \in Nat : a >= b => a * DayLen \in Nat /\ b * DayLen \in Nat
                               /\ a * DayLen >= b * DayLen
  /\ \A a, b \in Nat : (a + b) * DayLen = a * DayLen + b * DayLen
  /\ CleanEvery * (1 + 0) = CleanEvery
  /\ \A k \in Nat : /\ CleanEvery * (1 + k) \in Nat /\ CleanEvery * (1 + k) >= CleanEvery
                    /\ CleanEvery * (1 + (k + 1)) = CleanEvery * (1 + k) + CleanEvery
<1>1. DayLen \in Nat /\ CleanEvery \in Nat
  BY ConstantsAssumption
<1>2. ASSUME NEW a \in Nat, NEW b \in Nat, a >= b
      PROVE  a * DayLen \in Nat /\ b * DayLen \in Nat /\ a * DayLen >= b * DayLen
  <2>1. a - b \in Nat
    BY <1>2
  <2>2. (a - b) * DayLen >= 0 /\ (a - b) * DayLen = a * DayLen - b * DayLen
    BY <1>1, <2>1
  <2>3. a * DayLen \in Nat /\ b * DayLen \in Nat
    BY <1>1
  <2> QED BY <2>2, <2>3
<1>3. \A a, b \in Nat : (a + b) * DayLen = a * DayLen + b * DayLen
  BY <1>1
<1>4. CleanEvery * (1 + 0) = CleanEvery
  BY <1>1
<1>5. ASSUME NEW k \in Nat
      PROVE  /\ CleanEvery * (1 + k) \in Nat /\ CleanEvery * (1 + k) >= CleanEvery
             /\ CleanEvery * (1 + (k + 1)) = CleanEvery * (1 + k) + CleanEvery
  <2>1. CleanEvery * k \in Nat /\ CleanEvery * (1 + k) = CleanEvery + CleanEvery * k
    BY <1>1
  <2>2. CleanEvery * (1 + (k + 1)) = CleanEvery * (1 + k) + CleanEvery
    BY <1>1
  <2> QED BY <1>1, <2>1, <2>2
<1> QED BY <1>2, <1>3, <1>4, <1>5

\* Days follow each other as their minutes do.
LEMMA DaysInOrder ==
  ASSUME NEW m \in Nat, NEW n \in Nat, m <= n
  PROVE  Day(m) <= Day(n)
<1>2. /\ Day(m) \in Nat /\ Day(m) * DayLen <= m
      /\ Day(n) \in Nat /\ n < (Day(n) + 1) * DayLen
  BY DayOf
<1>3. ASSUME Day(m) >= Day(n) + 1 PROVE FALSE
  <2>1. Day(m) * DayLen >= (Day(n) + 1) * DayLen
    BY <1>2, <1>3, Multiples
  <2> DEFINE x == Day(m) * DayLen
             y == (Day(n) + 1) * DayLen
  <2>2. x \in Nat /\ y \in Nat
    BY <1>2, ConstantsAssumption
  <2> HIDE DEF x, y
  <2>3. x <= m /\ n < y /\ x >= y
    BY <1>2, <2>1 DEF x, y
  <2> QED BY <2>2, <2>3
<1> QED BY <1>2, <1>3

\* The tables are finite.
LEMMA Tables ==
  ASSUME TypeOK
  PROVE  /\ IsFiniteSet(DOMAIN points) /\ \A m \in DOMAIN points : points[m] \in Nat /\ m \in Nat
         /\ IsFiniteSet(DOMAIN rows) /\ \A x \in DOMAIN rows : rows[x] \in Nat
<1>1. IsFiniteSet(1 .. MaxNow) /\ IsFiniteSet(0 .. Day(MaxNow))
  BY FS_Interval, DayOf, ConstantsAssumption
<1>2. IsFiniteSet((0 .. Day(MaxNow)) \X Domains)
  BY <1>1, FS_Product, ConstantsAssumption
<1>3. IsFiniteSet(DOMAIN points) /\ IsFiniteSet(DOMAIN rows)
  BY <1>1, <1>2, FS_Subset DEF TypeOK
<1>4. /\ \A m \in DOMAIN points : points[m] \in Nat /\ m \in Nat
      /\ \A x \in DOMAIN rows : rows[x] \in Nat
  BY ConstantsAssumption DEF TypeOK
<1> QED BY <1>3, <1>4

\* Sums of filed amounts are numbers.
LEMMA SumTypes ==
  ASSUME TypeOK, Histories
  PROVE  /\ SumFunction(points) \in Nat /\ SumFunction(ever) \in Nat
         /\ \A m \in Nat : Upto(m) \in Nat /\ Upto(m) <= SumFunction(points)
         /\ \A d \in Domains : RowsOf(d) \in Nat
<1>1. IsFiniteSet(DOMAIN points) /\ \A m \in DOMAIN points : points[m] \in Nat
  BY Tables
<1>2. ASSUME NEW m \in Nat
      PROVE  Upto(m) \in Nat /\ Upto(m) <= SumFunction(points)
  <2>1. {k \in DOMAIN points : k <= m} \in SUBSET DOMAIN points
    OBVIOUS
  <2> QED BY <1>1, <2>1, SumOfPart DEF Upto, SumFunction
<1>3. SumFunction(points) \in Nat
  BY <1>1, SumIsNat DEF SumFunction
<1>4. SumFunction(ever) \in Nat
  <2>1. DOMAIN ever = Domains /\ \A d \in Domains : ever[d] \in Nat
    BY DEF Histories
  <2> QED BY <2>1, SumIsNat, ConstantsAssumption DEF SumFunction
<1>5. ASSUME NEW d \in Domains PROVE RowsOf(d) \in Nat
  <2>1. {k \in DOMAIN rows : k[2] = d} \in SUBSET DOMAIN rows
    OBVIOUS
  <2>2. IsFiniteSet(DOMAIN rows) /\ \A x \in DOMAIN rows : rows[x] \in Nat
    BY Tables
  <2> QED BY <2>1, <2>2, SumOfPart DEF RowsOf
<1> QED BY <1>2, <1>3, <1>4, <1>5

\* The two properties in these words.
LEMMA InWords ==
  /\ DomainsAccountForAll <=>
       \A d \in Domains : RowsOf(d) + goneDom[d] + (agg[d] - lastDom[d]) + half[d] + lostDom[d]
                            = ever[d]
  /\ NothingIsFiledLate <=>
       \A m \in DOMAIN points : m <= now /\ Upto(m) + gone + lost >= before[m]
BY DEF DomainsAccountForAll, NothingIsFiledLate, RowsOf, Upto

\* A table that stays as it is.
LEMMA SameFile ==
  ASSUME UNCHANGED file
  PROVE  /\ points' = points /\ rows' = rows
         /\ SumFunction(points)' = SumFunction(points)
         /\ \A m : Upto(m)' = Upto(m)
         /\ \A d : RowsOf(d)' = RowsOf(d)
BY DEF file, Upto, RowsOf

\* The numbers of a state.
LEMMA Numbers ==
  ASSUME Inv
  PROVE  /\ MaxNow \in Nat /\ MaxLate \in Nat /\ CleanEvery \in Nat /\ KeepPoints \in Nat
         /\ MaxLate <= KeepPoints /\ MaxFails \in Nat
         /\ total \in Nat /\ last \in Nat /\ last <= total /\ delta \in Nat
         /\ now \in Nat /\ now <= MaxNow /\ label \in Nat /\ label <= MaxNow + 1
         /\ due \in Nat /\ now <= due /\ due <= now + CleanEvery
         /\ fails \in Nat /\ fails <= MaxFails /\ lost \in Nat /\ gone \in Nat
         /\ before \in [0 .. now -> Nat]
         /\ SumFunction(ever) \in Nat /\ SumFunction(points) \in Nat
<1>1. /\ MaxNow \in Nat /\ MaxLate \in Nat /\ CleanEvery \in Nat /\ KeepPoints \in Nat
      /\ MaxLate <= KeepPoints /\ MaxFails \in Nat
  BY ConstantsAssumption
<1>2. /\ now \in 0 .. MaxNow /\ total \in Nat /\ label \in 0 .. MaxNow + 1 /\ last \in 0 .. total
      /\ delta \in Nat /\ due \in now .. now + CleanEvery /\ fails \in 0 .. MaxFails
  BY DEF Inv, TypeOK
<1>3. lost \in Nat /\ gone \in Nat /\ before \in [0 .. now -> Nat]
  BY DEF Inv, Histories
<1>4. SumFunction(ever) \in Nat /\ SumFunction(points) \in Nat
  BY SumTypes DEF Inv
<1> QED BY <1>1, <1>2, <1>3, <1>4

\* The first process starts with empty tables.
LEMMA InvInit == Init => Inv
<1> SUFFICES ASSUME Init PROVE Inv
  OBVIOUS
<1>1. TypeOK
  <2>1. /\ agg \in [Domains -> Nat] /\ half \in [Domains -> Nat] /\ lastDom \in [Domains -> Nat]
        /\ \A d \in Domains : lastDom[d] <= agg[d]
    BY DEF Init, NoDomains
  <2>2. DOMAIN copy = {} /\ DOMAIN points = {} /\ DOMAIN rows = {}
    BY DEF Init, NoRows
  <2>3. /\ missed \in [{"points", "rows"} -> 0 .. MaxFails]
        /\ slept \in [{"points", "rows"} -> 0 .. MaxSleep]
    BY ConstantsAssumption DEF Init
  <2>4. /\ now \in 0 .. MaxNow /\ total \in Nat /\ label \in 0 .. MaxNow + 1 /\ last \in 0 .. total
        /\ delta \in Nat /\ due \in now .. now + CleanEvery /\ fails \in 0 .. MaxFails
        /\ crashes \in 0 .. MaxCrashes /\ loop = "top"
    BY ConstantsAssumption DEF Init
  <2> QED BY <2>1, <2>2, <2>3, <2>4 DEF TypeOK
<1>2. Histories
  BY DEF Init, Histories, NoDomains
<1>3. Labels /\ Window
  BY DEF Init, Labels, Window, NoRows
<1>4. SumFunction(ever) = 0 /\ SumFunction(points) = 0
  <2>1. DOMAIN ever = Domains /\ \A d \in Domains : ever[d] = 0
    BY DEF Init, NoDomains
  <2>2. DOMAIN points = {}
    BY DEF Init, NoRows
  <2> QED BY <2>1, <2>2, SumOfZeros, SumOfNothing, ConstantsAssumption DEF SumFunction
<1>5. PointSum /\ Befores
  BY <1>4 DEF Init, PointSum, Befores
<1>6. DomainsAccountForAll
  <2>1. \A d \in Domains : RowsOf(d) = 0
    <3>1. \A d \in Domains : {k \in DOMAIN rows : k[2] = d} = {}
      BY DEF Init, NoRows
    <3> QED BY <3>1, SumOfNothing DEF RowsOf
  <2>2. \A d \in Domains : goneDom[d] = 0 /\ agg[d] = 0 /\ lastDom[d] = 0 /\ half[d] = 0
                           /\ lostDom[d] = 0 /\ ever[d] = 0
    BY DEF Init, NoDomains
  <2> QED BY <2>1, <2>2, InWords
<1>7. NothingIsFiledLate
  BY InWords DEF Init, NoRows
<1> QED BY <1>1, <1>2, <1>3, <1>5, <1>6, <1>7 DEF Inv

-----------------------------------------------------------------------------
(* The clock and the copiers.                                              *)

\* A minute passes, with the machine running or not: the next deletion is put
\* off by as much as is allowed for, and not before the clock.
LEMMA AMinuteInv ==
  ASSUME Inv, AMinute, due' \in now' .. now' + CleanEvery,
         slept' \in [{"points", "rows"} -> 0 .. MaxSleep], Window'
  PROVE  Inv'
<1>1. /\ now < MaxNow
      /\ loop = "top" \/ now < label + MaxLate
      /\ now' = now + 1
      /\ UNCHANGED <<total, agg, half, loop, label, last, delta, copy, lastDom, file, ever,
                     lost, lostDom, gone, goneDom, missed, fails, crashes>>
  BY DEF AMinute, memory, loopvars, losses
<1>2. /\ now \in 0 .. MaxNow /\ due \in now .. now + CleanEvery /\ label \in Nat
      /\ MaxNow \in Nat /\ CleanEvery \in Nat /\ MaxLate \in Nat /\ SumFunction(ever) \in Nat
  BY SumTypes, ConstantsAssumption DEF Inv, TypeOK
<1>3. /\ before' \in [0 .. now' -> Nat] /\ before'[now + 1] = SumFunction(ever)
      /\ \A m \in 0 .. now : before'[m] = before[m]
  <2>1. DOMAIN before = 0 .. now /\ \A m \in 0 .. now : before[m] \in Nat
    BY DEF Inv, Histories
  <2>2. before' = [m \in (0 .. now) \cup {now + 1} |->
                     IF m = now + 1 THEN SumFunction(ever) ELSE before[m]]
    BY <2>1 DEF AMinute
  <2>3. 0 .. now + 1 = (0 .. now) \cup {now + 1} /\ now + 1 \notin 0 .. now
    BY <1>2
  <2> QED BY <1>1, <1>2, <2>1, <2>2, <2>3
<1>4. points' = points /\ rows' = rows /\ SumFunction(points)' = SumFunction(points)
  BY <1>1, SameFile
<1>5. TypeOK'
  <2>1. now' \in 0 .. MaxNow
    BY <1>1, <1>2
  <2> QED BY <1>1, <1>4, <2>1 DEF Inv, TypeOK
<1>6. Histories'
  BY <1>1, <1>3 DEF Inv, Histories
<1>7. Labels'
  BY <1>1, <1>2, <1>4, Tables DEF Inv, Labels
<1>8. Befores'
  <2>1. 0 .. now' = (0 .. now) \cup {now + 1}
    BY <1>1, <1>2
  <2>2. loop = "point" => label \in 0 .. now
    BY <1>2 DEF Inv, Labels
  <2> QED BY <1>1, <1>2, <1>3, <2>1, <2>2 DEF Inv, Befores
<1>9. NothingIsFiledLate'
  <2>1. ASSUME NEW m \in DOMAIN points
        PROVE  m <= now' /\ Upto(m)' + gone' + lost' >= before'[m]
    <3>1. m \in 0 .. now /\ Upto(m) + gone + lost >= before[m]
      BY <1>2, Tables, InWords DEF Inv, Labels
    <3> QED BY <1>1, <1>2, <1>3, <3>1, SameFile
  <2> QED BY <1>4, <2>1 DEF NothingIsFiledLate, Upto
<1>a. DomainsAccountForAll' /\ PointSum'
  <2>1. PointSum'
    BY <1>1, <1>4 DEF Inv, PointSum
  <2>2. DomainsAccountForAll'
    BY <1>1, <1>4 DEF Inv, DomainsAccountForAll
  <2> QED BY <2>1, <2>2
<1> QED BY <1>5, <1>6, <1>7, <1>8, <1>9, <1>a DEF Inv

\* The machine runs: the minute is before the next deletion.
LEMMA MinuteInv == Inv /\ Minute => Inv'
<1> SUFFICES ASSUME Inv, Minute PROVE Inv'
  OBVIOUS
<1>1. /\ AMinute /\ now < due /\ now' = now + 1
      /\ due' = due /\ slept' = slept /\ missed' = missed /\ file' = file
  BY DEF Minute, AMinute
<1>2. due' \in now' .. now' + CleanEvery
  BY <1>1, Numbers
<1>3. slept' \in [{"points", "rows"} -> 0 .. MaxSleep]
  BY <1>1 DEF Inv, TypeOK
<1>4. Window'
  BY <1>1 DEF Inv, Window, file
<1> QED BY <1>1, <1>2, <1>3, <1>4, AMinuteInv

\* The machine sleeps: the next deletion is a minute later, as the allowance is.
LEMMA AsleepInv == Inv /\ Asleep => Inv'
<1> SUFFICES ASSUME Inv, Asleep PROVE Inv'
  OBVIOUS
<1>1. /\ AMinute /\ now' = now + 1 /\ due' = due + 1
      /\ missed' = missed /\ points' = points /\ rows' = rows
      /\ \A t \in DOMAIN slept : slept[t] < MaxSleep
      /\ slept' = [t \in DOMAIN slept |-> slept[t] + 1]
  BY DEF Asleep, AMinute, file
<1>2. slept \in [{"points", "rows"} -> 0 .. MaxSleep] /\ MaxSleep \in Nat
  BY ConstantsAssumption DEF Inv, TypeOK
<1>3. /\ slept' \in [{"points", "rows"} -> 0 .. MaxSleep]
      /\ slept'.points = slept.points + 1 /\ slept'.rows = slept.rows + 1
      /\ slept.points \in Nat /\ slept.rows \in Nat
  BY <1>1, <1>2
<1>4. due' \in now' .. now' + CleanEvery
  <2>1. now \in Nat /\ due \in Nat /\ now <= due /\ due <= now + CleanEvery /\ CleanEvery \in Nat
    BY Numbers
  <2> QED BY <1>1, <2>1
<1>5. missed.points \in Nat /\ missed.rows \in Nat /\ due \in Nat
  BY Numbers DEF Inv, TypeOK
<1>6. ASSUME NEW m \in DOMAIN points
      PROVE  m + KeepPoints + CleanEvery * (1 + missed.points) + slept'.points >= due'
  <2> DEFINE p == CleanEvery * (1 + missed.points)
  <2>1. p \in Nat /\ m \in Nat /\ KeepPoints \in Nat
    BY <1>5, Multiples, Tables, Numbers DEF Inv
  <2>2. m + KeepPoints + p + slept.points >= due
    BY DEF Inv, Window
  <2> HIDE DEF p
  <2>3. m + KeepPoints + p + slept'.points >= due'
    BY <1>1, <1>3, <1>5, <2>1, <2>2
  <2> QED BY <2>3 DEF p
<1>7. ASSUME NEW x \in DOMAIN rows
      PROVE  (x[1] + KeepDays + 1) * DayLen + CleanEvery * (1 + missed.rows) + slept'.rows
               >= due'
  <2> DEFINE r == CleanEvery * (1 + missed.rows)
             w == (x[1] + KeepDays + 1) * DayLen
  <2>1. r \in Nat /\ w \in Nat
    <3>1. x[1] \in Nat
      BY DayOf, ConstantsAssumption DEF Inv, TypeOK
    <3>2. x[1] + KeepDays + 1 \in Nat /\ DayLen \in Nat
      BY <3>1, ConstantsAssumption
    <3>3. w \in Nat
      BY <3>2
    <3>4. r \in Nat
      BY <1>5, Multiples
    <3> QED BY <3>3, <3>4
  <2>2. w + r + slept.rows >= due
    BY DEF Inv, Window
  <2> HIDE DEF r, w
  <2>3. w + r + slept'.rows >= due'
    BY <1>1, <1>3, <1>5, <2>1, <2>2
  <2> QED BY <2>3 DEF r, w
<1>8. Window'
  BY <1>1, <1>6, <1>7 DEF Window
<1> QED BY <1>1, <1>3, <1>4, <1>8, AMinuteInv

\* What counts for a point that stays: nothing deleted or lost comes back.
LEMMA PointsStay ==
  ASSUME Inv, UNCHANGED <<file, now, before>>,
         gone' \in Nat, lost' \in Nat, gone' >= gone, lost' >= lost
  PROVE  NothingIsFiledLate'
<1>1. ASSUME NEW m \in DOMAIN points
      PROVE  m <= now' /\ Upto(m)' + gone' + lost' >= before'[m]
  <2>1. /\ m \in 0 .. now /\ Upto(m) + gone + lost >= before[m] /\ m \in Nat
        /\ now \in Nat
    BY Tables, InWords, ConstantsAssumption DEF Inv, Labels, TypeOK
  <2>2. /\ Upto(m) \in Nat /\ before[m] \in Nat /\ gone \in Nat /\ lost \in Nat
        /\ before' = before /\ now' = now /\ Upto(m)' = Upto(m)
    BY <2>1, SumTypes, SameFile DEF Inv, Histories
  <2> QED BY <2>1, <2>2
<1> QED BY <1>1, SameFile DEF NothingIsFiledLate, Upto

\* One more in what the domains have moved.
LEMMA EverGrows ==
  ASSUME Histories, NEW d \in Domains, ever' = [ever EXCEPT ![d] = @ + 1]
  PROVE  /\ ever' \in [Domains -> Nat] /\ ever'[d] = ever[d] + 1
         /\ \A e \in Domains \ {d} : ever'[e] = ever[e]
         /\ SumFunction(ever') = SumFunction(ever) + 1
<1>1. ever \in [Domains -> Nat]
  BY DEF Histories
<1>2. /\ ever' \in [Domains -> Nat] /\ ever'[d] = ever[d] + 1
      /\ \A e \in Domains \ {d} : ever'[e] = ever[e]
  BY <1>1
<1>3. /\ DOMAIN ever = Domains /\ DOMAIN ever' = Domains /\ IsFiniteSet(Domains)
      /\ \A e \in Domains : ever[e] \in Int
      /\ ever'[d] \in Int /\ ever'[d] - ever[d] = 1
  BY <1>1, <1>2, ConstantsAssumption
<1>4. SumFunctionOnSet(ever', Domains) = SumFunctionOnSet(ever, Domains) + (ever'[d] - ever[d])
  <2>1. /\ \A e \in Domains \ {d} : ever'[e] = ever[e]
        /\ \A e \in Domains : ever[e] \in Int
        /\ ever'[d] \in Int /\ IsFiniteSet(Domains)
    BY <1>2, <1>3
  <2>2. ASSUME NEW f, NEW g, g[d] \in Int,
               \A e \in Domains : f[e] \in Int,
               \A e \in Domains \ {d} : g[e] = f[e]
        PROVE  SumFunctionOnSet(g, Domains) = SumFunctionOnSet(f, Domains) + (g[d] - f[d])
    BY <2>1, <2>2, SumChange
  <2> QED BY <2>1, <2>2
<1> QED BY <1>2, <1>3, <1>4 DEF SumFunction

\* A byte is counted in the total.
LEMMA CountTotalInv ==
  ASSUME Inv, NEW d \in Domains, CountTotal(d)
  PROVE  Inv'
<1>1. /\ total' = total + 1 /\ half' = [half EXCEPT ![d] = @ + 1]
      /\ ever' = [ever EXCEPT ![d] = @ + 1]
      /\ UNCHANGED <<now, agg, loop, label, last, delta, copy, lastDom, file, due, before,
                     lost, lostDom, gone, goneDom, missed, slept, fails, crashes>>
  BY DEF CountTotal, loopvars, losses, deleted
<1>2. /\ total \in Nat /\ last \in 0 .. total /\ delta \in Nat /\ half \in [Domains -> Nat]
      /\ now \in Nat /\ label \in Nat
      /\ lost \in Nat /\ gone \in Nat /\ before \in [0 .. now -> Nat]
      /\ SumFunction(ever) \in Nat /\ SumFunction(points) \in Nat
  <2>1. half \in [Domains -> Nat]
    BY DEF Inv, TypeOK
  <2> QED BY <2>1, Numbers
<1>3. /\ half' \in [Domains -> Nat] /\ half'[d] = half[d] + 1
      /\ \A e \in Domains \ {d} : half'[e] = half[e]
  BY <1>1, <1>2
<1>4. points' = points /\ rows' = rows /\ SumFunction(points)' = SumFunction(points)
      /\ \A e : RowsOf(e)' = RowsOf(e)
  BY <1>1, SameFile
<1>5. /\ ever' \in [Domains -> Nat] /\ ever'[d] = ever[d] + 1
      /\ \A e \in Domains \ {d} : ever'[e] = ever[e]
      /\ SumFunction(ever') = SumFunction(ever) + 1
  BY <1>1, EverGrows DEF Inv
<1>6. TypeOK'
  <2>1. total' \in Nat /\ last' \in 0 .. total'
    BY <1>1, <1>2
  <2> QED BY <1>1, <1>3, <1>4, <2>1 DEF Inv, TypeOK
<1>7. Histories' /\ Labels' /\ Window'
  BY <1>1, <1>4, <1>5 DEF Inv, Histories, Labels, Window
<1>8. PointSum'
  BY <1>1, <1>2, <1>4, <1>5 DEF Inv, PointSum
<1>9. DomainsAccountForAll'
  <2>1. ASSUME NEW e \in Domains
        PROVE  RowsOf(e)' + goneDom'[e] + (agg'[e] - lastDom'[e]) + half'[e] + lostDom'[e] = ever'[e]
    <3>1. RowsOf(e) + goneDom[e] + (agg[e] - lastDom[e]) + half[e] + lostDom[e] = ever[e]
      BY InWords DEF Inv
    <3>2. /\ RowsOf(e) \in Nat /\ goneDom[e] \in Nat /\ agg[e] \in Nat /\ lastDom[e] \in Nat
          /\ half[e] \in Nat /\ lostDom[e] \in Nat /\ ever[e] \in Nat
      BY SumTypes DEF Inv, TypeOK, Histories
    <3> QED BY <1>1, <1>3, <1>4, <1>5, <3>1, <3>2
  <2> QED BY <2>1 DEF DomainsAccountForAll, RowsOf
<1>a. Befores'
  <2>1. loop = "point" => label \in 0 .. now
    BY <1>2 DEF Inv, Labels
  <2> QED BY <1>1, <1>2, <1>5, <2>1 DEF Inv, Befores
<1>b. NothingIsFiledLate'
  BY <1>1, <1>2, PointsStay
<1> QED BY <1>6, <1>7, <1>8, <1>9, <1>a, <1>b DEF Inv

\* A byte is counted for its domain.
LEMMA CountDomainInv ==
  ASSUME Inv, NEW d \in Domains, CountDomain(d)
  PROVE  Inv'
<1>1. /\ half[d] > 0 /\ agg' = [agg EXCEPT ![d] = @ + 1] /\ half' = [half EXCEPT ![d] = @ - 1]
      /\ UNCHANGED <<now, total, loop, label, last, delta, copy, lastDom, file, due, ever, before,
                     lost, lostDom, gone, goneDom, missed, slept, fails, crashes>>
  BY DEF CountDomain, loopvars, losses, deleted
<1>2. agg \in [Domains -> Nat] /\ half \in [Domains -> Nat] /\ lastDom \in [Domains -> Nat]
      /\ DOMAIN copy \subseteq Domains /\ lost \in Nat /\ gone \in Nat
  BY DEF Inv, TypeOK, Histories
<1>3. /\ half' \in [Domains -> Nat] /\ half'[d] = half[d] - 1
      /\ \A e \in Domains \ {d} : half'[e] = half[e]
      /\ agg' \in [Domains -> Nat] /\ agg'[d] = agg[d] + 1
      /\ \A e \in Domains \ {d} : agg'[e] = agg[e]
  BY <1>1, <1>2
<1>4. points' = points /\ rows' = rows /\ SumFunction(points)' = SumFunction(points)
      /\ \A e : RowsOf(e)' = RowsOf(e)
  BY <1>1, SameFile
<1>5. TypeOK'
  <2>1. ASSUME NEW e \in Domains
        PROVE  /\ lastDom[e] <= agg'[e]
               /\ e \in DOMAIN copy => copy[e] \in lastDom[e] .. agg'[e]
    BY <1>2, <1>3 DEF Inv, TypeOK
  <2> QED BY <1>1, <1>2, <1>3, <1>4, <2>1 DEF Inv, TypeOK
<1>6. Histories' /\ Labels' /\ Window' /\ PointSum' /\ Befores'
  BY <1>1, <1>4 DEF Inv, Histories, Labels, Window, PointSum, Befores
<1>7. DomainsAccountForAll'
  <2>1. ASSUME NEW e \in Domains
        PROVE  RowsOf(e)' + goneDom'[e] + (agg'[e] - lastDom'[e]) + half'[e] + lostDom'[e] = ever'[e]
    <3>1. RowsOf(e) + goneDom[e] + (agg[e] - lastDom[e]) + half[e] + lostDom[e] = ever[e]
      BY InWords DEF Inv
    <3>2. /\ RowsOf(e) \in Nat /\ goneDom[e] \in Nat /\ agg[e] \in Nat /\ lastDom[e] \in Nat
          /\ half[e] \in Nat /\ lostDom[e] \in Nat /\ ever[e] \in Nat
      BY SumTypes DEF Inv, TypeOK, Histories
    <3> QED BY <1>1, <1>3, <1>4, <3>1, <3>2
  <2> QED BY <2>1 DEF DomainsAccountForAll, RowsOf
<1>8. NothingIsFiledLate'
  BY <1>1, <1>2, PointsStay
<1> QED BY <1>5, <1>6, <1>7, <1>8 DEF Inv

-----------------------------------------------------------------------------
(* recordLoop.                                                             *)

\* The steps of the loop that write nothing.
LEMMA LoopInv == Inv /\ (Top \/ Wake \/ Again) => Inv'
<1> SUFFICES ASSUME Inv, Top \/ Wake \/ Again PROVE Inv'
  OBVIOUS
<1>1. /\ UNCHANGED <<now, total, agg, half, copy, lastDom, file, due, ever, before,
                     lost, lostDom, gone, goneDom, missed, slept, fails, crashes>>
      /\ \/ Top /\ loop' = "sleep" /\ label' = now + 1 /\ UNCHANGED <<last, delta>>
         \/ /\ Wake /\ loop = "sleep" /\ now >= label /\ loop' = "point" /\ label' = label
            /\ last' = total /\ delta' = total - last
         \/ /\ Again /\ loop = "domains" /\ loop' = "top"
            /\ UNCHANGED <<label, last, delta>>
  BY DEF Top, Wake, MayWake, Filed, Again, memory, losses, deleted
<1>2. /\ total \in Nat /\ last \in 0 .. total /\ delta \in Nat /\ now \in 0 .. MaxNow
      /\ label \in 0 .. MaxNow + 1 /\ MaxNow \in Nat /\ MaxLate \in Nat
      /\ lost \in Nat /\ gone \in Nat /\ before \in [0 .. now -> Nat]
      /\ SumFunction(ever) \in Nat /\ SumFunction(points) \in Nat
  BY Numbers
<1>3. points' = points /\ rows' = rows /\ SumFunction(points)' = SumFunction(points)
  BY <1>1, SameFile
<1>4. \A m \in DOMAIN points : m \in Nat /\ m <= now
  BY Tables DEF Inv, Labels
<1>5. TypeOK'
  <2>1. last' \in 0 .. total' /\ delta' \in Nat /\ label' \in 0 .. MaxNow + 1
        /\ loop' \in {"top", "sleep", "point", "domains"}
    BY <1>1, <1>2
  <2> QED BY <1>1, <1>3, <2>1 DEF Inv, TypeOK
<1>6. Histories' /\ Window' /\ DomainsAccountForAll'
  BY <1>1, <1>3 DEF Inv, Histories, Window, DomainsAccountForAll
<1>7. Labels'
  <2>1. /\ loop # "top" => label \in 1 .. now + 1 /\ now <= label + MaxLate
        /\ loop \in {"sleep", "point"} => \A m \in DOMAIN points : m < label
        /\ loop # "point" => delta = 0
    BY DEF Inv, Labels
  <2>2. CASE Top
    BY <1>1, <1>2, <1>3, <1>4, <2>1, <2>2 DEF Labels, Top
  <2>3. CASE Wake
    <3>1. loop = "sleep" /\ loop' = "point" /\ label' = label /\ now' = now /\ label <= now
      BY <1>1, <1>2, <2>3 DEF Top, Wake, MayWake, Again
    <3> QED BY <1>2, <1>3, <1>4, <2>1, <3>1 DEF Labels
  <2>4. CASE Again
    <3>1. loop = "domains" /\ loop' = "top" /\ now' = now /\ delta' = delta
      BY <1>1, <2>4 DEF Top, Wake, MayWake, Again
    <3> QED BY <1>2, <1>3, <1>4, <2>1, <3>1 DEF Labels
  <2> QED BY <2>2, <2>3, <2>4
<1>8. PointSum'
  <2>1. delta' + (total' - last') = delta + (total - last) \/ Wake
    BY <1>1
  <2>2. SumFunction(points) + gone + delta + (total - last) + lost = SumFunction(ever)
    BY DEF Inv, PointSum
  <2>3. Wake => delta = 0
    BY DEF Inv, Labels, Wake, MayWake
  <2> QED BY <1>1, <1>2, <1>3, <2>1, <2>2, <2>3 DEF PointSum
<1>9. Befores'
  <2>1. Wake => label \in 0 .. now /\ before[label] \in Nat /\ before[label] <= SumFunction(ever)
    <3>1. Wake => label <= now
      BY <1>2 DEF Wake, MayWake
    <3>2. \A m \in 0 .. now : before[m] \in Nat /\ before[m] <= SumFunction(ever)
      BY <1>2 DEF Inv, Befores
    <3> QED BY <1>2, <3>1, <3>2
  <2> QED BY <1>1, <1>2, <2>1 DEF Inv, Befores
<1>a. NothingIsFiledLate'
  BY <1>1, <1>2, PointsStay
<1> QED BY <1>5, <1>6, <1>7, <1>8, <1>9, <1>a DEF Inv
-----------------------------------------------------------------------------
(* Filing.                                                                 *)

\* A row is added to, or made.
LEMMA Upserted ==
  ASSUME NEW t, NEW k, NEW n \in Nat, \A x \in DOMAIN t : t[x] \in Nat,
         NEW u, u = Upsert(t, k, n)
  PROVE  /\ DOMAIN u = DOMAIN t \cup {k}
         /\ u[k] = (IF k \in DOMAIN t THEN t[k] ELSE 0) + n
         /\ \A x \in DOMAIN t \ {k} : u[x] = t[x]
         /\ \A x \in DOMAIN u : u[x] \in Nat
BY DEF Upsert

\* The sum over some keys of the table grows if the row is one of them.
LEMMA UpsertSum ==
  ASSUME NEW t, NEW k, NEW n \in Nat, \A x \in DOMAIN t : t[x] \in Nat,
         NEW u, u = Upsert(t, k, n), NEW S \in SUBSET DOMAIN t, IsFiniteSet(S)
  PROVE  (k \in DOMAIN t => k \in S) =>
           SumFunctionOnSet(u, S \cup {k}) = SumFunctionOnSet(t, S) + n
<1>1. /\ u[k] = (IF k \in DOMAIN t THEN t[k] ELSE 0) + n
      /\ \A x \in S \ {k} : u[x] = t[x]
      /\ \A x \in S : t[x] \in Int
  <2>1. /\ u[k] = (IF k \in DOMAIN t THEN t[k] ELSE 0) + n
        /\ \A x \in DOMAIN t \ {k} : u[x] = t[x]
    BY DEF Upsert
  <2> QED BY <2>1
<1>2. ASSUME k \in DOMAIN t => k \in S
      PROVE  SumFunctionOnSet(u, S \cup {k}) = SumFunctionOnSet(t, S) + n
  <2>1. u[k] = (IF k \in S THEN t[k] ELSE 0) + n
    BY <1>1, <1>2
  <2> QED BY <1>1, <2>1, SumGrow
<1> QED BY <1>2

\* The window when something is filed under a minute the loop is not later for
\* than MaxLate.
LEMMA InWindow ==
  ASSUME Inv, loop # "top"
  PROVE  /\ label + KeepPoints + CleanEvery * (1 + missed.points) + slept.points >= due
         /\ (Day(label) + KeepDays + 1) * DayLen + CleanEvery * (1 + missed.rows) + slept.rows
              >= due
<1>1. /\ missed.points \in Nat /\ missed.rows \in Nat
      /\ slept.points \in Nat /\ slept.rows \in Nat
  BY ConstantsAssumption DEF Inv, TypeOK
<1>2. /\ CleanEvery * (1 + missed.points) \in Nat /\ CleanEvery * (1 + missed.points) >= CleanEvery
      /\ CleanEvery * (1 + missed.rows) \in Nat /\ CleanEvery * (1 + missed.rows) >= CleanEvery
  BY <1>1, Multiples
<1>3. now <= label + MaxLate
  BY DEF Inv, Labels
<1> DEFINE p == CleanEvery * (1 + missed.points)
           r == CleanEvery * (1 + missed.rows)
           w == KeepDays * DayLen
           z == (Day(label) + 1) * DayLen
<1>0. /\ Day(label) \in Nat /\ KeepDays \in Nat /\ DayLen \in Nat
      /\ label < z /\ MaxLate <= w + 1
  <2>1. label \in Nat
    BY Numbers
  <2>2. Day(label) \in Nat /\ label < z
    BY <2>1, DayOf
  <2>3. KeepDays \in Nat /\ DayLen \in Nat /\ MaxLate <= w + 1
    BY ConstantsAssumption
  <2> QED BY <2>2, <2>3
<1>4. (Day(label) + KeepDays + 1) * DayLen = z + w
  <2>1. Day(label) \in Nat /\ KeepDays \in Nat
    BY <1>0
  <2>2. (Day(label) + KeepDays + 1) = (Day(label) + 1) + KeepDays
    BY <2>1
  <2> QED BY <2>1, <2>2, Multiples
<1>5. /\ label < z /\ MaxLate <= w + 1 /\ w \in Nat /\ z \in Nat
  <2>1. w \in Nat /\ z \in Nat
    BY <1>0
  <2> QED BY <1>0, <2>1
<1>6. /\ now \in Nat /\ due \in Nat /\ due <= now + CleanEvery /\ label \in Nat
      /\ MaxLate \in Nat /\ MaxLate <= KeepPoints /\ KeepPoints \in Nat /\ CleanEvery \in Nat
  BY Numbers
<1> HIDE DEF p, r, w, z
<1>7. p \in Nat /\ p >= CleanEvery /\ r \in Nat /\ r >= CleanEvery
  BY <1>2 DEF p, r
<1>8. label + KeepPoints + p + slept.points >= due
  BY <1>1, <1>3, <1>6, <1>7
<1>9. z + w + r + slept.rows >= due
  BY <1>1, <1>3, <1>5, <1>6, <1>7
<1> QED BY <1>4, <1>8, <1>9 DEF p, r

\* The point of a minute is written, or refused.
LEMMA FilePointInv == Inv /\ FilePoint => Inv'
<1> SUFFICES ASSUME Inv, FilePoint PROVE Inv'
  OBVIOUS
<1>1. /\ loop = "point" /\ loop' = "domains" /\ delta' = 0 /\ copy' = agg
      /\ UNCHANGED <<now, total, agg, half, label, last, lastDom, rows, due, ever, before, lostDom,
                     gone, goneDom, missed, slept, crashes>>
      /\ \/ points' = Upsert(points, label, delta) /\ UNCHANGED <<lost, fails>>
         \/ /\ fails < MaxFails /\ fails' = fails + 1 /\ lost' = lost + delta
            /\ UNCHANGED points
  BY DEF FilePoint, Remembered, memory, deleted
<1>2. /\ label \in 1 .. now /\ label \in 1 .. MaxNow /\ MaxNow \in Nat /\ delta \in Nat
      /\ lost \in Nat /\ gone \in Nat /\ fails \in Nat /\ fails <= MaxFails /\ now \in Nat
      /\ total \in Nat /\ last \in Nat /\ last <= total
      /\ SumFunction(points) \in Nat /\ SumFunction(ever) \in Nat
      /\ before \in [0 .. now -> Nat] /\ MaxFails \in Nat
  BY <1>1, Numbers DEF Inv, Labels
<1>3. /\ IsFiniteSet(DOMAIN points) /\ label \notin DOMAIN points
      /\ \A m \in DOMAIN points : points[m] \in Nat /\ m \in Nat /\ m < label /\ m <= now
  BY <1>1, <1>2, Tables DEF Inv, Labels
<1>4. points' = Upsert(points, label, delta) =>
        /\ DOMAIN points' = DOMAIN points \cup {label}
        /\ \A m \in DOMAIN points' : points'[m] \in Nat
        /\ SumFunction(points') = SumFunction(points) + delta
        /\ \A m \in DOMAIN points : Upto(m)' = Upto(m)
        /\ Upto(label)' = SumFunction(points)'
  <2> SUFFICES ASSUME points' = Upsert(points, label, delta)
               PROVE  /\ DOMAIN points' = DOMAIN points \cup {label}
                      /\ \A m \in DOMAIN points' : points'[m] \in Nat
                      /\ SumFunction(points') = SumFunction(points) + delta
                      /\ \A m \in DOMAIN points : Upto(m)' = Upto(m)
                      /\ Upto(label)' = SumFunction(points)'
    OBVIOUS
  <2>1. /\ DOMAIN points' = DOMAIN points \cup {label}
        /\ \A m \in DOMAIN points' : points'[m] \in Nat
    BY <1>2, <1>3, Upserted
  <2>2. SumFunctionOnSet(points', DOMAIN points \cup {label})
          = SumFunctionOnSet(points, DOMAIN points) + delta
    BY <1>2, <1>3, UpsertSum
  <2>3. ASSUME NEW m \in DOMAIN points PROVE Upto(m)' = Upto(m)
    <3> DEFINE S == {k \in DOMAIN points : k <= m}
    <3>1. S \in SUBSET DOMAIN points /\ label \notin S
      BY <1>3
    <3>2. IsFiniteSet(S)
      BY <1>3, <3>1, FS_Subset
    <3>3. {k \in DOMAIN points' : k <= m} = S
      BY <1>2, <1>3, <2>1
    <3> HIDE DEF S
    <3>4. SumFunctionOnSet(points', S) = SumFunctionOnSet(points, S)
      <4>1. \A k \in S : points'[k] = points[k]
        BY <1>3, <3>1 DEF Upsert
      <4> QED BY <3>2, <4>1, SumSame
    <3>5. Upto(m)' = SumFunctionOnSet(points', S)
      BY <3>3 DEF Upto
    <3> QED BY <3>4, <3>5 DEF Upto, S
  <2>4. Upto(label)' = SumFunction(points)'
    <3>1. {k \in DOMAIN points' : k <= label} = DOMAIN points'
      BY <1>2, <1>3, <2>1
    <3>2. Upto(label)' = SumFunctionOnSet(points', {k \in DOMAIN points' : k <= label})
      BY <1>1 DEF Upto
    <3> QED BY <3>1, <3>2 DEF SumFunction
  <2> QED BY <2>1, <2>2, <2>3, <2>4 DEF SumFunction
<1>5. UNCHANGED points =>
        SumFunction(points)' = SumFunction(points) /\ \A m : Upto(m)' = Upto(m)
  BY DEF Upto
<1>6. /\ \A m \in DOMAIN points' : m \in DOMAIN points \/ m = label
      /\ \A m \in DOMAIN points' : points'[m] \in Nat
      /\ DOMAIN points' \subseteq 1 .. MaxNow
      /\ fails' \in 0 .. MaxFails /\ fails' >= fails /\ lost' \in Nat /\ lost' >= lost
  <2>1. DOMAIN points \subseteq 1 .. MaxNow
    BY DEF Inv, TypeOK
  <2> QED BY <1>1, <1>2, <1>3, <1>4, <2>1
<1>7. TypeOK'
  <2>1. /\ agg \in [Domains -> Nat] /\ lastDom \in [Domains -> Nat]
        /\ \A d \in Domains : lastDom[d] <= agg[d]
    BY DEF Inv, TypeOK
  <2>2. DOMAIN copy' \subseteq Domains /\ \A d \in DOMAIN copy' : copy'[d] \in lastDom'[d] .. agg'[d]
    BY <1>1, <2>1
  <2> QED BY <1>1, <1>6, <2>2 DEF Inv, TypeOK
<1>8. Histories'
  <2>1. \A t \in {"points", "rows"} : missed[t] \in Nat /\ missed[t] <= fails
    BY DEF Inv, TypeOK, Histories
  <2>2. \A t \in {"points", "rows"} : missed'[t] <= fails'
    BY <1>1, <1>2, <1>6, <2>1
  <2> QED BY <1>1, <1>6, <2>2 DEF Inv, Histories
<1>9. Labels'
  BY <1>1, <1>2, <1>3, <1>6 DEF Inv, Labels
<1>a. PointSum'
  <2>1. SumFunction(points) + gone + delta + (total - last) + lost = SumFunction(ever)
    BY DEF Inv, PointSum
  <2>2. PICK t \in Nat, l \in Nat :
          /\ t = SumFunction(points') /\ l = lost'
          /\ \/ t = SumFunction(points) + delta /\ l = lost
             \/ t = SumFunction(points) /\ l = lost + delta
    BY <1>1, <1>2, <1>4, <1>5, <1>6
  <2> DEFINE s == SumFunction(points)
             e == SumFunction(ever)
             x == total - last
  <2>3. /\ s + gone + delta + x + lost = e
        /\ s \in Nat /\ x \in Int /\ e \in Nat
    BY <1>2, <2>1
  <2>4. (t = s + delta /\ l = lost) \/ (t = s /\ l = lost + delta)
    BY <2>2
  <2> HIDE DEF s, e, x
  <2>5. t + gone + 0 + x + l = e
    BY <1>2, <2>3, <2>4
  <2>6. /\ delta' = 0 /\ total' - last' = x /\ gone' = gone /\ SumFunction(ever') = e
        /\ SumFunction(points') = t /\ lost' = l
    BY <1>1, <2>2 DEF x, e
  <2> QED BY <2>5, <2>6 DEF PointSum
<1>b. DomainsAccountForAll'
  BY <1>1 DEF Inv, DomainsAccountForAll
<1>c. Befores'
  BY <1>1 DEF Inv, Befores
<1>d. Window'
  BY <1>1, <1>6, InWindow DEF Inv, Window
<1>e. NothingIsFiledLate'
  <2>1. ASSUME NEW m \in DOMAIN points
        PROVE  m <= now' /\ Upto(m)' + gone' + lost' >= before'[m]
    <3>1. /\ m \in 0 .. now /\ Upto(m) + gone + lost >= before[m] /\ Upto(m) \in Nat
          /\ before[m] \in Nat
      BY <1>2, <1>3, InWords, SumTypes DEF Inv
    <3>2. Upto(m)' = Upto(m)
      BY <1>1, <1>4, <1>5
    <3> QED BY <1>1, <1>2, <1>6, <3>1, <3>2
  <2>2. ASSUME label \in DOMAIN points'
        PROVE  label <= now' /\ Upto(label)' + gone' + lost' >= before'[label]
    <3>1. points' = Upsert(points, label, delta) /\ lost' = lost
      BY <1>1, <1>3, <2>2
    <3>2. Upto(label)' = SumFunction(points) + delta
      BY <1>4, <3>1
    <3>3. before[label] + (total - last) <= SumFunction(ever) /\ before[label] \in Nat
      BY <1>1, <1>2 DEF Inv, Befores
    <3>4. SumFunction(points) + gone + delta + (total - last) + lost = SumFunction(ever)
      BY DEF Inv, PointSum
    <3>5. SumFunction(points) + delta + gone + lost >= before[label]
      BY <1>2, <3>3, <3>4
    <3> QED BY <1>1, <1>2, <3>1, <3>2, <3>5
  <2>3. ASSUME NEW m \in DOMAIN points'
        PROVE  m <= now' /\ Upto(m)' + gone' + lost' >= before'[m]
    BY <1>6, <2>1, <2>2, <1>1
  <2> QED BY <2>3 DEF NothingIsFiledLate, Upto
<1> QED BY <1>7, <1>8, <1>9, <1>a, <1>b, <1>c, <1>d, <1>e DEF Inv


\* A domain's row is added to, or refused.
LEMMA FileDomainInv ==
  ASSUME Inv, NEW d \in Domains, FileDomain(d)
  PROVE  Inv'
<1> DEFINE amount == copy[d] - lastDom[d]
           key == <<Day(label), d>>
<1>1. /\ loop = "domains" /\ d \in DOMAIN copy
      /\ lastDom' = [lastDom EXCEPT ![d] = copy[d]]
      /\ copy' = [x \in DOMAIN copy \ {d} |-> copy[x]]
      /\ UNCHANGED <<now, total, agg, half, loop, label, last, delta, points, due, ever, before,
                     lost, gone, goneDom, missed, slept, crashes>>
      /\ \/ /\ rows' = IF amount = 0 THEN rows ELSE Upsert(rows, key, amount)
            /\ UNCHANGED <<lostDom, fails>>
         \/ /\ fails < MaxFails /\ fails' = fails + 1
            /\ lostDom' = [lostDom EXCEPT ![d] = @ + amount]
            /\ UNCHANGED rows
  BY DEF FileDomain, Seen, memory, deleted
<1>2. /\ agg \in [Domains -> Nat] /\ half \in [Domains -> Nat] /\ lastDom \in [Domains -> Nat]
      /\ lostDom \in [Domains -> Nat] /\ goneDom \in [Domains -> Nat] /\ ever \in [Domains -> Nat]
      /\ DOMAIN copy \subseteq Domains /\ \A e \in DOMAIN copy : copy[e] \in lastDom[e] .. agg[e]
      /\ \A e \in Domains : lastDom[e] <= agg[e]
  BY DEF Inv, TypeOK, Histories
<1>3. /\ amount \in Nat /\ copy[d] \in Nat /\ copy[d] <= agg[d] /\ lastDom[d] \in Nat
      /\ copy[d] = lastDom[d] + amount
  BY <1>1, <1>2
<1>4. /\ label \in Nat /\ label <= now /\ now <= MaxNow /\ now \in Nat /\ MaxNow \in Nat
      /\ fails \in Nat /\ MaxFails \in Nat /\ fails <= MaxFails /\ lost \in Nat /\ gone \in Nat
  BY <1>1, Numbers DEF Inv, Labels
<1>5. Day(label) \in 0 .. Day(MaxNow)
  <2>1. Day(label) \in Nat /\ Day(MaxNow) \in Nat
    BY <1>4, DayOf
  <2>2. Day(label) <= Day(MaxNow)
    BY <1>4, DaysInOrder
  <2> QED BY <2>1, <2>2
<1>6. IsFiniteSet(DOMAIN rows) /\ \A x \in DOMAIN rows : rows[x] \in Nat
  BY Tables DEF Inv
<1>7. /\ lastDom' \in [Domains -> Nat] /\ lastDom'[d] = copy[d]
      /\ \A e \in Domains \ {d} : lastDom'[e] = lastDom[e]
  BY <1>1, <1>2, <1>3
<1>8. /\ fails' \in 0 .. MaxFails /\ fails' >= fails
      /\ lostDom' \in [Domains -> Nat]
      /\ \A e \in Domains \ {d} : lostDom'[e] = lostDom[e]
      /\ lostDom'[d] = lostDom[d] \/ (lostDom'[d] = lostDom[d] + amount /\ rows' = rows)
      /\ lostDom'[d] = lostDom[d] => (rows' = rows /\ amount = 0) \/ rows' = Upsert(rows, key, amount)
  <2> HIDE DEF amount
  <2>1. lostDom' = [lostDom EXCEPT ![d] = @ + amount] =>
          /\ lostDom' \in [Domains -> Nat] /\ lostDom'[d] = lostDom[d] + amount
          /\ \A e \in Domains \ {d} : lostDom'[e] = lostDom[e]
    BY <1>2, <1>3
  <2>2. amount = 0 \/ lostDom[d] + amount # lostDom[d]
    BY <1>2, <1>3
  <2> QED BY <1>1, <1>2, <1>3, <1>4, <2>1, <2>2
<1>9. /\ \A x \in DOMAIN rows' : x \in DOMAIN rows \/ x = key
      /\ \A x \in DOMAIN rows' : rows'[x] \in Nat
  <2>1. rows' = rows \/ rows' = Upsert(rows, key, amount)
    BY <1>1
  <2>2. amount \in Nat
    BY <1>3
  <2> HIDE DEF amount, key
  <2> QED BY <1>6, <2>1, <2>2 DEF Upsert
<1>a. TypeOK'
  <2>1. /\ DOMAIN copy' \subseteq Domains
        /\ \A e \in Domains : lastDom'[e] <= agg'[e]
        /\ \A e \in DOMAIN copy' : copy'[e] \in lastDom'[e] .. agg'[e]
    BY <1>1, <1>2, <1>3, <1>7
  <2>2. DOMAIN rows' \subseteq (0 .. Day(MaxNow)) \X Domains
    BY <1>5, <1>9 DEF Inv, TypeOK
  <2> QED BY <1>1, <1>7, <1>8, <1>9, <2>1, <2>2 DEF Inv, TypeOK
<1>b. Histories'
  <2>1. \A t \in {"points", "rows"} : missed[t] \in Nat /\ missed[t] <= fails
    BY DEF Inv, TypeOK, Histories
  <2>2. \A t \in {"points", "rows"} : missed'[t] <= fails'
    BY <1>1, <1>4, <1>8, <2>1
  <2> QED BY <1>1, <1>8, <2>2 DEF Inv, Histories
<1>c. Labels' /\ PointSum' /\ Befores'
  BY <1>1 DEF Inv, Labels, PointSum, Befores
<1>d. Window'
  <2>1. key[1] = Day(label)
    OBVIOUS
  <2> HIDE DEF key
  <2> QED BY <1>1, <1>9, <2>1, InWindow DEF Inv, Window
<1>e. NothingIsFiledLate'
  BY <1>1 DEF Inv, NothingIsFiledLate
<1>f. /\ rows' = rows => RowsOf(d)' = RowsOf(d)
      /\ rows' = Upsert(rows, key, amount) => RowsOf(d)' = RowsOf(d) + amount
      /\ \A e \in Domains \ {d} : RowsOf(e)' = RowsOf(e)
  <2>1. rows' = rows => \A e : RowsOf(e)' = RowsOf(e)
    BY DEF RowsOf
  <2>2. ASSUME rows' = Upsert(rows, key, amount), NEW e \in Domains
        PROVE  IF e = d THEN RowsOf(e)' = RowsOf(e) + amount ELSE RowsOf(e)' = RowsOf(e)
    <3> DEFINE S == {k \in DOMAIN rows : k[2] = e}
               T == {k \in DOMAIN rows' : k[2] = e}
    <3>1. key[2] = d /\ S \in SUBSET DOMAIN rows /\ IsFiniteSet(S)
      BY <1>6, FS_Subset
    <3> HIDE DEF key, amount
    <3>2. DOMAIN rows' = DOMAIN rows \cup {key}
      BY <2>2 DEF Upsert
    <3>3. CASE e = d
      <4>1. T = S \cup {key} /\ (key \in DOMAIN rows => key \in S)
        BY <3>1, <3>2, <3>3
      <4> HIDE DEF S, T
      <4>2. SumFunctionOnSet(rows', S \cup {key}) = SumFunctionOnSet(rows, S) + amount
        BY <1>3, <1>6, <2>2, <3>1, <4>1, UpsertSum
      <4>3. SumFunctionOnSet(rows', T) = SumFunctionOnSet(rows, S) + amount
        BY <4>1, <4>2
      <4> QED BY <3>3, <4>3 DEF RowsOf, S, T
    <3>4. CASE e # d
      <4>1. T = S /\ key \notin S
        BY <3>1, <3>2, <3>4
      <4>2. \A x \in S : rows'[x] = rows[x]
        BY <1>6, <2>2, <3>1, <4>1 DEF Upsert
      <4> HIDE DEF S, T
      <4>3. SumFunctionOnSet(rows', S) = SumFunctionOnSet(rows, S)
        BY <3>1, <4>2, SumSame
      <4>4. SumFunctionOnSet(rows', T) = SumFunctionOnSet(rows, S)
        BY <4>1, <4>3
      <4> QED BY <3>4, <4>4 DEF RowsOf, S, T
    <3> QED BY <3>3, <3>4
  <2>3. rows' = rows \/ rows' = Upsert(rows, key, amount)
    BY <1>1
  <2> HIDE DEF key, amount
  <2> QED BY <2>1, <2>2, <2>3
<1>g. DomainsAccountForAll'
  <2>1. ASSUME NEW e \in Domains
        PROVE  RowsOf(e)' + goneDom'[e] + (agg'[e] - lastDom'[e]) + half'[e] + lostDom'[e] = ever'[e]
    <3>1. RowsOf(e) + goneDom[e] + (agg[e] - lastDom[e]) + half[e] + lostDom[e] = ever[e]
      BY InWords DEF Inv
    <3>2. /\ RowsOf(e) \in Nat /\ goneDom[e] \in Nat /\ agg[e] \in Nat /\ lastDom[e] \in Nat
          /\ half[e] \in Nat /\ lostDom[e] \in Nat /\ ever[e] \in Nat
      BY SumTypes DEF Inv, TypeOK, Histories
    <3>3. CASE e # d
      BY <1>1, <1>7, <1>8, <1>f, <3>1, <3>3
    <3>4. CASE e = d
      <4>1. amount \in Nat /\ copy[d] \in Nat
        BY <1>3
      <4> HIDE DEF amount, key
      <4>2. PICK r \in Nat, l \in Nat :
              /\ r = RowsOf(e)' /\ l = lostDom'[e]
              /\ (r = RowsOf(e) /\ l = lostDom[e] + amount) \/ (r = RowsOf(e) + amount /\ l = lostDom[e])
        BY <4>1, <1>8, <1>f, <3>2, <3>4
      <4>3. lastDom'[e] = lastDom[e] + amount
        BY <1>3, <1>7, <3>4
      <4>4. PICK q \in Nat, g \in Nat, s \in Nat, f \in Nat, h \in Nat, v \in Nat :
              /\ q = RowsOf(e) /\ g = goneDom[e] /\ s = agg[e] /\ f = lastDom[e] /\ h = half[e]
              /\ v = lostDom[e]
        BY <3>2
      <4>5. q + g + (s - f) + h + v = ever[e]
        BY <3>1, <4>4
      <4>6. (r = q /\ l = v + amount) \/ (r = q + amount /\ l = v)
        BY <4>2, <4>4
      <4>7. r + g + (s - (f + amount)) + h + l = ever[e]
        BY <3>2, <4>1, <4>5, <4>6
      <4>8. /\ goneDom'[e] = g /\ agg'[e] = s /\ half'[e] = h /\ ever'[e] = ever[e]
            /\ lastDom'[e] = f + amount
        BY <1>1, <4>3, <4>4
      <4> QED BY <4>2, <4>7, <4>8
    <3> QED BY <3>3, <3>4
  <2> QED BY <2>1 DEF DomainsAccountForAll, RowsOf
<1> QED BY <1>a, <1>b, <1>c, <1>d, <1>e, <1>g DEF Inv

-----------------------------------------------------------------------------
(* Deleting, and the end of the process.                                   *)

\* What one turn of the retention loop does to the tables.
LEMMA Deletions ==
  ASSUME Inv, Clean
  PROVE  /\ DOMAIN points' \subseteq DOMAIN points /\ DOMAIN rows' \subseteq DOMAIN rows
         /\ \A m \in DOMAIN points' : points'[m] = points[m]
         /\ \A x \in DOMAIN rows' : rows'[x] = rows[x]
         /\ missed'.points = 0 => \A m \in DOMAIN points' : ~ OldPoint(m)
         /\ missed'.rows = 0 => \A x \in DOMAIN rows' : ~ OldRow(x)
         /\ missed'.points \in {0, missed.points + 1} /\ missed'.rows \in {0, missed.rows + 1}
         /\ missed' \in [{"points", "rows"} -> 0 .. MaxFails]
         /\ slept' \in [{"points", "rows"} -> 0 .. MaxSleep]
         /\ missed'.points # 0 => slept'.points = slept.points
         /\ missed'.rows # 0 => slept'.rows = slept.rows
         /\ fails' \in 0 .. MaxFails
         /\ \A t \in {"points", "rows"} : missed'[t] <= fails'
<1>1. PICK refused \in Refusals :
        /\ points' = IF "points" \in refused THEN points
                     ELSE Restrict(points, DOMAIN points \ OldPoints)
        /\ rows' = IF "rows" \in refused THEN rows ELSE Restrict(rows, DOMAIN rows \ OldRows)
        /\ missed' = [t \in DOMAIN missed |-> IF t \in refused THEN missed[t] + 1 ELSE 0]
        /\ slept' = [t \in DOMAIN slept |-> IF t \in refused THEN slept[t] ELSE 0]
        /\ fails' = fails + Cardinality(refused)
  BY DEF Clean
<1>2. /\ refused \subseteq {"points", "rows"} /\ fails + Cardinality(refused) <= MaxFails
      /\ Cardinality(refused) \in Nat
      /\ \A t \in refused : Cardinality(refused) >= 1
  <2>1. refused \subseteq {"points", "rows"} /\ fails + Cardinality(refused) <= MaxFails
    BY DEF Refusals
  <2>2. IsFiniteSet({"points", "rows"})
    <3>1. IsFiniteSet({"points"}) /\ {"points", "rows"} = {"points"} \cup {"rows"}
      BY FS_Singleton
    <3> QED BY <3>1, FS_AddElement
  <2>3. Cardinality(refused) \in Nat /\ (Cardinality(refused) = 0 <=> refused = {})
    BY <2>1, <2>2, Subsets
  <2> QED BY <2>1, <2>3
<1>3. /\ missed \in [{"points", "rows"} -> 0 .. MaxFails] /\ fails \in 0 .. MaxFails
      /\ MaxFails \in Nat /\ \A t \in {"points", "rows"} : missed[t] <= fails
  BY ConstantsAssumption DEF Inv, TypeOK, Histories
<1>4. /\ \A t \in {"points", "rows"} : missed'[t] = IF t \in refused THEN missed[t] + 1 ELSE 0
      /\ DOMAIN missed' = {"points", "rows"}
  BY <1>1, <1>3
<1>5. fails' \in 0 .. MaxFails /\ \A t \in {"points", "rows"} : missed'[t] \in 0 .. MaxFails
                                                        /\ missed'[t] <= fails'
  BY <1>1, <1>2, <1>3, <1>4
<1>6. missed' \in [{"points", "rows"} -> 0 .. MaxFails]
  BY <1>1, <1>4, <1>5
<1>7. /\ DOMAIN points' \subseteq DOMAIN points
      /\ \A m \in DOMAIN points' : points'[m] = points[m]
      /\ "points" \notin refused => \A m \in DOMAIN points' : ~ OldPoint(m)
  BY <1>1 DEF Restrict, OldPoints
<1>8. /\ DOMAIN rows' \subseteq DOMAIN rows
      /\ \A x \in DOMAIN rows' : rows'[x] = rows[x]
      /\ "rows" \notin refused => \A x \in DOMAIN rows' : ~ OldRow(x)
  BY <1>1 DEF Restrict, OldRows
<1>9. /\ "points" \in refused => missed'.points # 0
      /\ "rows" \in refused => missed'.rows # 0
  BY <1>3, <1>4
<1>a. slept \in [{"points", "rows"} -> 0 .. MaxSleep] /\ MaxSleep \in Nat
  BY ConstantsAssumption DEF Inv, TypeOK
<1>b. /\ slept' \in [{"points", "rows"} -> 0 .. MaxSleep]
      /\ "points" \in refused => slept'.points = slept.points
      /\ "rows" \in refused => slept'.rows = slept.rows
  BY <1>1, <1>a
<1> QED BY <1>3, <1>4, <1>5, <1>6, <1>7, <1>8, <1>9, <1>b

\* A turn of the retention loop deletes, or is refused.
LEMMA CleanInv == Inv /\ Clean => Inv'
<1> SUFFICES ASSUME Inv, Clean PROVE Inv'
  OBVIOUS
<1> DEFINE dropped == SumFunctionOnSet(points, DOMAIN points \ DOMAIN points')
           droppedOf(d) == SumFunctionOnSet(rows, {k \in DOMAIN rows \ DOMAIN rows' : k[2] = d})
<1>1. /\ due = now /\ due' = now + CleanEvery /\ gone' = gone + dropped
      /\ goneDom' = [d \in Domains |-> goneDom[d] + droppedOf(d)]
      /\ UNCHANGED <<now, total, agg, half, loop, label, last, delta, copy, lastDom, ever, before,
                     lost, lostDom, crashes>>
  BY DEF Clean, memory, loopvars, losses
<1>2. /\ DOMAIN points' \subseteq DOMAIN points /\ DOMAIN rows' \subseteq DOMAIN rows
      /\ \A m \in DOMAIN points' : points'[m] = points[m]
      /\ \A x \in DOMAIN rows' : rows'[x] = rows[x]
      /\ IsFiniteSet(DOMAIN points) /\ \A m \in DOMAIN points : points[m] \in Nat /\ m \in Nat
      /\ IsFiniteSet(DOMAIN rows) /\ \A x \in DOMAIN rows : rows[x] \in Nat
  BY Deletions, Tables DEF Inv
<1>n. /\ now \in Nat /\ gone \in Nat /\ lost \in Nat /\ delta \in Nat /\ total \in Nat /\ last \in Nat
      /\ SumFunction(ever) \in Nat /\ before \in [0 .. now -> Nat]
  BY Numbers
<1>3. ASSUME NEW m
      PROVE  /\ Upto(m)' \in Nat /\ dropped \in Nat
             /\ Upto(m)' + dropped >= Upto(m)
             /\ SumFunction(points)' \in Nat
             /\ SumFunction(points) = SumFunction(points)' + dropped
  <2> DEFINE A == {k \in DOMAIN points : k <= m}
             B == {k \in DOMAIN points' : k <= m}
             D == DOMAIN points
             E == DOMAIN points'
  <2>1. /\ A \ B \in SUBSET (D \ E) /\ A \in SUBSET D /\ IsFiniteSet(D \ E)
        /\ \A x \in D \ E : points[x] \in Nat
    BY <1>2, Subsets
  <2>2. IsFiniteSet(A) /\ \A x \in A : points[x] \in Nat
    BY <1>2, Subsets
  <2>3. IsFiniteSet(D) /\ \A x \in D : points[x] \in Nat
    BY <1>2
  <2>4. B \in SUBSET A /\ E \in SUBSET D
    BY <1>2
  <2>5. /\ Upto(m) = SumFunctionOnSet(points, A) /\ Upto(m)' = SumFunctionOnSet(points', B)
        /\ SumFunction(points) = SumFunctionOnSet(points, D)
        /\ SumFunction(points)' = SumFunctionOnSet(points', E)
        /\ dropped = SumFunctionOnSet(points, D \ E)
    BY DEF Upto, SumFunction
  <2>6. (\A x \in E : points'[x] = points[x]) /\ B \in SUBSET E
    BY <1>2
  <2> HIDE DEF dropped, A, B, D, E
  <2>7. ASSUME NEW g, \A x \in E : g[x] = points[x]
        PROVE  /\ SumFunctionOnSet(g, B) \in Nat /\ SumFunctionOnSet(points, A \ B) \in Nat
               /\ SumFunctionOnSet(points, A)
                    = SumFunctionOnSet(g, B) + SumFunctionOnSet(points, A \ B)
               /\ SumFunctionOnSet(g, E) \in Nat /\ SumFunctionOnSet(points, D \ E) \in Nat
               /\ SumFunctionOnSet(points, D)
                    = SumFunctionOnSet(g, E) + SumFunctionOnSet(points, D \ E)
    <3>1. \A x \in B : g[x] = points[x]
      BY <2>6, <2>7
    <3>2. /\ SumFunctionOnSet(g, B) \in Nat /\ SumFunctionOnSet(points, A \ B) \in Nat
          /\ SumFunctionOnSet(points, A)
               = SumFunctionOnSet(g, B) + SumFunctionOnSet(points, A \ B)
      <4>1. IsFiniteSet(B) /\ IsFiniteSet(A \ B) /\ \A x \in A : points[x] \in Int
        BY <2>2, <2>4, Subsets
      <4>2. SumFunctionOnSet(g, B) = SumFunctionOnSet(points, B)
        BY <4>1, <3>1, SumSame
      <4>3. SumFunctionOnSet(points, B) \in Nat /\ SumFunctionOnSet(points, A \ B) \in Nat
        BY <4>1, <2>2, <2>4, SumIsNat
      <4>4. SumFunctionOnSet(points, A) = SumFunctionOnSet(points, B) + SumFunctionOnSet(points, A \ B)
        BY <4>1, <2>2, <2>4, SumParts
      <4> QED BY <4>2, <4>3, <4>4
    <3>3. /\ SumFunctionOnSet(g, E) \in Nat /\ SumFunctionOnSet(points, D \ E) \in Nat
          /\ SumFunctionOnSet(points, D)
               = SumFunctionOnSet(g, E) + SumFunctionOnSet(points, D \ E)
      <4>1. IsFiniteSet(E) /\ IsFiniteSet(D \ E) /\ \A x \in D : points[x] \in Int
        BY <2>3, <2>4, Subsets
      <4>2. SumFunctionOnSet(g, E) = SumFunctionOnSet(points, E)
        BY <4>1, <2>7, SumSame
      <4>3. SumFunctionOnSet(points, E) \in Nat /\ SumFunctionOnSet(points, D \ E) \in Nat
        BY <4>1, <2>3, <2>4, SumIsNat
      <4>4. SumFunctionOnSet(points, D) = SumFunctionOnSet(points, E) + SumFunctionOnSet(points, D \ E)
        BY <4>1, <2>3, <2>4, SumParts
      <4> QED BY <4>2, <4>3, <4>4
    <3> QED BY <3>2, <3>3
  <2>8. SumFunctionOnSet(points, A \ B) <= SumFunctionOnSet(points, D \ E)
    BY <2>1, SumOfPart
  <2>9. PICK a \in Nat, b \in Nat, e \in Nat, f \in Nat :
          /\ a = SumFunctionOnSet(points', B) /\ b = SumFunctionOnSet(points, A \ B)
          /\ e = SumFunctionOnSet(points', E) /\ f = SumFunctionOnSet(points, D \ E)
          /\ SumFunctionOnSet(points, A) = a + b /\ SumFunctionOnSet(points, D) = e + f
    BY <2>6, <2>7
  <2> QED BY <2>5, <2>8, <2>9
<1>4. ASSUME NEW d \in Domains
      PROVE  /\ RowsOf(d)' \in Nat /\ droppedOf(d) \in Nat
             /\ RowsOf(d) = RowsOf(d)' + droppedOf(d)
  <2> DEFINE A == {k \in DOMAIN rows : k[2] = d}
             B == {k \in DOMAIN rows' : k[2] = d}
  <2>1. /\ IsFiniteSet(A) /\ \A x \in A : rows[x] \in Nat
    BY <1>2, Subsets
  <2>2. B \in SUBSET A
    BY <1>2
  <2>3. \A x \in B : rows'[x] = rows[x]
    BY <1>2
  <2>4. {k \in DOMAIN rows \ DOMAIN rows' : k[2] = d} = A \ B
    BY <1>2
  <2>5. droppedOf(d) = SumFunctionOnSet(rows, A \ B)
    BY <2>4
  <2>6. RowsOf(d) = SumFunctionOnSet(rows, A) /\ RowsOf(d)' = SumFunctionOnSet(rows', B)
    BY DEF RowsOf
  <2> HIDE DEF A, B, droppedOf
  <2>7. ASSUME NEW g, \A x \in B : g[x] = rows[x]
        PROVE  /\ SumFunctionOnSet(g, B) \in Nat /\ SumFunctionOnSet(rows, A \ B) \in Nat
               /\ SumFunctionOnSet(rows, A) = SumFunctionOnSet(g, B) + SumFunctionOnSet(rows, A \ B)
    <3>1. IsFiniteSet(B) /\ IsFiniteSet(A \ B) /\ \A x \in A : rows[x] \in Int
      BY <2>1, <2>2, Subsets
    <3>2. SumFunctionOnSet(g, B) = SumFunctionOnSet(rows, B)
      BY <3>1, <2>7, SumSame
    <3>3. SumFunctionOnSet(rows, B) \in Nat /\ SumFunctionOnSet(rows, A \ B) \in Nat
      BY <3>1, <2>1, <2>2, SumIsNat
    <3>4. SumFunctionOnSet(rows, A) = SumFunctionOnSet(rows, B) + SumFunctionOnSet(rows, A \ B)
      BY <3>1, <2>1, <2>2, SumParts
    <3> QED BY <3>2, <3>3, <3>4
  <2> QED BY <2>3, <2>5, <2>6, <2>7
<1>5. /\ missed' \in [{"points", "rows"} -> 0 .. MaxFails] /\ fails' \in 0 .. MaxFails
      /\ \A t \in {"points", "rows"} : missed'[t] <= fails'
      /\ missed'.points = 0 => \A m \in DOMAIN points' : ~ OldPoint(m)
      /\ missed'.rows = 0 => \A x \in DOMAIN rows' : ~ OldRow(x)
      /\ missed'.points \in {0, missed.points + 1} /\ missed'.rows \in {0, missed.rows + 1}
      /\ slept' \in [{"points", "rows"} -> 0 .. MaxSleep]
      /\ missed'.points # 0 => slept'.points = slept.points
      /\ missed'.rows # 0 => slept'.rows = slept.rows
  BY Deletions
<1> HIDE DEF dropped, droppedOf
<1>6. TypeOK'
  <2>1. due' \in now' .. now' + CleanEvery
    BY <1>1, Numbers
  <2>2. /\ DOMAIN points' \subseteq 1 .. MaxNow /\ \A m \in DOMAIN points' : points'[m] \in Nat
        /\ DOMAIN rows' \subseteq (0 .. Day(MaxNow)) \X Domains
        /\ \A x \in DOMAIN rows' : rows'[x] \in Nat
    BY <1>2 DEF Inv, TypeOK
  <2> QED BY <1>1, <1>5, <2>1, <2>2 DEF Inv, TypeOK
<1>7. Histories'
  <2>1. gone' \in Nat
    BY <1>1, <1>3, <1>n
  <2>2. \A d \in Domains : goneDom'[d] \in Nat
    BY <1>1, <1>4 DEF Inv, Histories
  <2>3. goneDom' \in [Domains -> Nat]
    BY <1>1, <2>2
  <2> QED BY <1>1, <1>5, <2>1, <2>3 DEF Inv, Histories
<1>8. Labels' /\ Befores'
  BY <1>1, <1>2 DEF Inv, Labels, Befores
<1>9. PointSum'
  <2>1. SumFunction(points) + gone + delta + (total - last) + lost = SumFunction(ever)
    BY DEF Inv, PointSum
  <2>2. PICK s \in Nat : /\ s = SumFunction(points)' /\ SumFunction(points) = s + dropped
                         /\ dropped \in Nat
    BY <1>3
  <2>3. s + (gone + dropped) + delta + (total - last) + lost = SumFunction(ever)
    BY <1>n, <2>1, <2>2
  <2> QED BY <1>1, <2>2, <2>3 DEF PointSum
<1>a. DomainsAccountForAll'
  <2>1. ASSUME NEW d \in Domains
        PROVE  RowsOf(d)' + goneDom'[d] + (agg'[d] - lastDom'[d]) + half'[d] + lostDom'[d] = ever'[d]
    <3>1. RowsOf(d) + goneDom[d] + (agg[d] - lastDom[d]) + half[d] + lostDom[d] = ever[d]
      BY InWords DEF Inv
    <3>2. /\ goneDom[d] \in Nat /\ agg[d] \in Nat /\ lastDom[d] \in Nat
          /\ half[d] \in Nat /\ lostDom[d] \in Nat /\ ever[d] \in Nat
      BY DEF Inv, TypeOK, Histories
    <3>3. PICK r \in Nat : r = RowsOf(d)' /\ RowsOf(d) = r + droppedOf(d)
      BY <1>4
    <3>4. r + (goneDom[d] + droppedOf(d)) + (agg[d] - lastDom[d]) + half[d] + lostDom[d] = ever[d]
      BY <1>4, <3>1, <3>2, <3>3
    <3> QED BY <1>1, <3>3, <3>4
  <2> QED BY <2>1 DEF DomainsAccountForAll, RowsOf
<1>b. NothingIsFiledLate'
  <2>1. ASSUME NEW m \in DOMAIN points'
        PROVE  m <= now' /\ Upto(m)' + gone' + lost' >= before'[m]
    <3>1. m \in DOMAIN points /\ m \in 0 .. now /\ Upto(m) + gone + lost >= before[m]
      BY <1>2, InWords, Numbers DEF Inv, Labels
    <3>2. PICK u \in Nat : u = Upto(m)' /\ u + dropped >= Upto(m) /\ dropped \in Nat
      BY <1>3
    <3>3. Upto(m) \in Nat /\ gone \in Nat /\ lost \in Nat /\ before[m] \in Nat
      <4>1. m \in Nat
        BY <1>n, <3>1
      <4>2. Upto(m) \in Nat
        BY <4>1, SumTypes DEF Inv
      <4> QED BY <1>n, <3>1, <4>2
    <3>4. u + (gone + dropped) + lost >= before[m]
      BY <3>1, <3>2, <3>3
    <3> QED BY <1>1, <3>1, <3>2, <3>4
  <2> QED BY <2>1 DEF NothingIsFiledLate, Upto
<1>c. Window'
  <2>1. /\ missed.points \in Nat /\ missed.rows \in Nat /\ now \in Nat /\ CleanEvery \in Nat
        /\ KeepPoints \in Nat /\ KeepDays \in Nat /\ DayLen \in Nat
        /\ slept.points \in Nat /\ slept.rows \in Nat
        /\ slept'.points \in Nat /\ slept'.rows \in Nat
    BY <1>5, ConstantsAssumption DEF Inv, TypeOK
  <2> DEFINE p == CleanEvery * (1 + missed.points)
             r == CleanEvery * (1 + missed.rows)
             p2 == CleanEvery * (1 + missed'.points)
             r2 == CleanEvery * (1 + missed'.rows)
  <2>2. /\ p \in Nat /\ r \in Nat
        /\ missed'.points = 0 => p2 = CleanEvery
        /\ missed'.points = missed.points + 1 => p2 = p + CleanEvery
        /\ missed'.rows = 0 => r2 = CleanEvery
        /\ missed'.rows = missed.rows + 1 => r2 = r + CleanEvery
    BY <2>1, Multiples
  <2>3. ASSUME NEW m \in DOMAIN points'
        PROVE  m + KeepPoints + p2 + slept'.points >= due'
    <3>1. m + KeepPoints + p + slept.points >= now /\ m \in Nat
      BY <1>1, <1>2 DEF Inv, Window
    <3>2. missed'.points = 0 => m + KeepPoints >= now
      BY <1>2, <1>5, <2>1 DEF OldPoint
    <3> HIDE DEF p, p2
    <3> QED BY <1>1, <1>5, <2>1, <2>2, <3>1, <3>2
  <2>4. ASSUME NEW x \in DOMAIN rows'
        PROVE  (x[1] + KeepDays + 1) * DayLen + r2 + slept'.rows >= due'
    <3> DEFINE w == (x[1] + KeepDays + 1) * DayLen
               z == (Day(now) + 1) * DayLen
    <3>1. x[1] \in Nat
      BY <1>2 DEF Inv, TypeOK
    <3>2. w + r + slept.rows >= now
      BY <1>1, <1>2 DEF Inv, Window
    <3>3. Day(now) \in Nat /\ now < z
      BY <2>1, DayOf
    <3>4. w \in Nat /\ z \in Nat
      BY <2>1, <3>1, <3>3
    <3>5. missed'.rows = 0 => w >= z
      <4>1. missed'.rows = 0 => x[1] + KeepDays + 1 >= Day(now) + 1
        BY <1>5, <2>1, <3>1, <3>3 DEF OldRow
      <4>2. x[1] + KeepDays + 1 \in Nat /\ Day(now) + 1 \in Nat
        BY <2>1, <3>1, <3>3
      <4> QED BY <4>1, <4>2, Multiples
    <3> HIDE DEF r, r2, w, z
    <3>6. w + r2 + slept'.rows >= now + CleanEvery
      BY <1>5, <2>1, <2>2, <3>2, <3>3, <3>4, <3>5
    <3> QED BY <1>1, <3>6 DEF w
  <2> QED BY <2>3, <2>4 DEF Window
<1> QED BY <1>6, <1>7, <1>8, <1>9, <1>a, <1>b, <1>c DEF Inv

\* A kill takes what has not been filed.
LEMMA CrashInv == Inv /\ Crash => Inv'
<1> SUFFICES ASSUME Inv, Crash PROVE Inv'
  OBVIOUS
<1>1. /\ crashes < MaxCrashes /\ crashes' = crashes + 1
      /\ lost' = lost + delta + (total - last)
      /\ lostDom' = [d \in Domains |-> lostDom[d] + half[d] + (agg[d] - lastDom[d])]
      /\ total' = 0 /\ last' = 0 /\ delta' = 0 /\ loop' = "top" /\ due' = now
      /\ agg' = NoDomains /\ half' = NoDomains /\ lastDom' = NoDomains /\ copy' = NoRows
      /\ UNCHANGED <<now, label, file, ever, before, gone, goneDom, missed, slept, fails>>
  BY DEF Crash, deleted
<1>2. /\ agg \in [Domains -> Nat] /\ half \in [Domains -> Nat] /\ lastDom \in [Domains -> Nat]
      /\ lostDom \in [Domains -> Nat] /\ goneDom \in [Domains -> Nat] /\ ever \in [Domains -> Nat]
      /\ \A d \in Domains : lastDom[d] <= agg[d]
      /\ crashes \in 0 .. MaxCrashes /\ MaxCrashes \in Nat
  BY ConstantsAssumption DEF Inv, TypeOK, Histories
<1>n. /\ now \in Nat /\ gone \in Nat /\ lost \in Nat /\ delta \in Nat /\ total \in Nat /\ last \in Nat
      /\ last <= total /\ CleanEvery \in Nat /\ SumFunction(points) \in Nat /\ SumFunction(ever) \in Nat
  BY Numbers
<1>3. /\ agg' \in [Domains -> Nat] /\ half' \in [Domains -> Nat] /\ lastDom' \in [Domains -> Nat]
      /\ \A d \in Domains : agg'[d] = 0 /\ half'[d] = 0 /\ lastDom'[d] = 0
      /\ DOMAIN copy' = {}
  BY <1>1 DEF NoDomains, NoRows
<1>4. /\ points' = points /\ rows' = rows /\ SumFunction(points)' = SumFunction(points)
      /\ \A d : RowsOf(d)' = RowsOf(d)
  BY <1>1, SameFile
<1>5. TypeOK'
  <2>1. /\ crashes' \in 0 .. MaxCrashes /\ due' \in now' .. now' + CleanEvery
        /\ total' \in Nat /\ last' \in 0 .. total' /\ delta' \in Nat
        /\ loop' \in {"top", "sleep", "point", "domains"}
    BY <1>1, <1>2, <1>n
  <2>2. /\ \A d \in Domains : lastDom'[d] <= agg'[d]
        /\ DOMAIN copy' \subseteq Domains
        /\ \A d \in DOMAIN copy' : copy'[d] \in lastDom'[d] .. agg'[d]
    BY <1>3
  <2> QED BY <1>1, <1>3, <1>4, <2>1, <2>2 DEF Inv, TypeOK
<1>6. lost' \in Nat /\ lost' >= lost
  BY <1>1, <1>n
<1>7. /\ lostDom' \in [Domains -> Nat]
      /\ \A d \in Domains : lostDom'[d] = lostDom[d] + half[d] + (agg[d] - lastDom[d])
  BY <1>1, <1>2
<1>8. Histories'
  BY <1>1, <1>6, <1>7 DEF Inv, Histories
<1>9. Labels' /\ Befores'
  BY <1>1, <1>4 DEF Inv, Labels, Befores
<1>a. PointSum'
  <2>1. SumFunction(points) + gone + delta + (total - last) + lost = SumFunction(ever)
    BY DEF Inv, PointSum
  <2>2. SumFunction(points) + gone + 0 + (0 - 0) + (lost + delta + (total - last)) = SumFunction(ever)
    BY <1>n, <2>1
  <2> QED BY <1>1, <1>4, <2>2 DEF PointSum
<1>b. DomainsAccountForAll'
  <2>1. ASSUME NEW d \in Domains
        PROVE  RowsOf(d)' + goneDom'[d] + (agg'[d] - lastDom'[d]) + half'[d] + lostDom'[d] = ever'[d]
    <3>1. RowsOf(d) + goneDom[d] + (agg[d] - lastDom[d]) + half[d] + lostDom[d] = ever[d]
      BY InWords DEF Inv
    <3>2. RowsOf(d) \in Nat
      BY SumTypes DEF Inv
    <3>3. RowsOf(d) + goneDom[d] + (0 - 0) + 0 + (lostDom[d] + half[d] + (agg[d] - lastDom[d]))
            = ever[d]
      BY <1>2, <3>1, <3>2
    <3> QED BY <1>1, <1>3, <1>4, <1>7, <3>3
  <2> QED BY <2>1 DEF DomainsAccountForAll, RowsOf
<1>c. NothingIsFiledLate'
  BY <1>1, <1>6, Numbers, PointsStay
<1>d. Window'
  <2>1. /\ due' <= due /\ due \in Nat /\ due' \in Nat
        /\ slept.points \in Nat /\ slept.rows \in Nat
    BY <1>1, Numbers, ConstantsAssumption DEF Inv, TypeOK
  <2>2. ASSUME NEW m \in DOMAIN points
        PROVE  m + KeepPoints + CleanEvery * (1 + missed.points) + slept.points >= due'
    <3>1. missed.points \in Nat /\ KeepPoints \in Nat /\ m \in Nat
      BY Tables, Numbers DEF Inv, TypeOK
    <3> DEFINE p == CleanEvery * (1 + missed.points)
    <3>2. p \in Nat /\ m + KeepPoints + p + slept.points >= due
      BY <3>1, Multiples DEF Inv, Window
    <3> HIDE DEF p
    <3>3. m + KeepPoints + p + slept.points >= due'
      BY <2>1, <3>1, <3>2
    <3> QED BY <3>3 DEF p
  <2>3. ASSUME NEW x \in DOMAIN rows
        PROVE  (x[1] + KeepDays + 1) * DayLen + CleanEvery * (1 + missed.rows) + slept.rows
                 >= due'
    <3> DEFINE r == CleanEvery * (1 + missed.rows)
               w == (x[1] + KeepDays + 1) * DayLen
    <3>1. r \in Nat /\ w \in Nat /\ w + r + slept.rows >= due
      <4>1. missed.rows \in Nat /\ x[1] \in Nat /\ KeepDays \in Nat /\ DayLen \in Nat
        BY ConstantsAssumption DEF Inv, TypeOK
      <4>2. r \in Nat
        BY <4>1, Multiples
      <4>3. w \in Nat
        BY <4>1
      <4> QED BY <4>2, <4>3 DEF Inv, Window
    <3> HIDE DEF r, w
    <3>2. w + r + slept.rows >= due'
      BY <2>1, <3>1
    <3> QED BY <3>2 DEF r, w
  <2> QED BY <1>1, <1>4, <2>2, <2>3 DEF Window
<1> QED BY <1>5, <1>8, <1>9, <1>a, <1>b, <1>c, <1>d DEF Inv

-----------------------------------------------------------------------------
(* The theorems.                                                           *)

\* Every step keeps the invariant.
LEMMA NextInv == Inv /\ [Next]_vars => Inv'
<1> SUFFICES ASSUME Inv, [Next]_vars PROVE Inv'
  OBVIOUS
<1>1. CASE UNCHANGED vars
  <2>1. /\ UNCHANGED <<now, total, agg, half, loop, label, last, delta, copy, lastDom, points, rows,
                       due, ever, before, lost, lostDom, gone, goneDom, missed, slept, fails, crashes>>
    BY <1>1 DEF vars, memory, loopvars, file, losses, deleted
  <2>2. TypeOK' /\ Histories' /\ Labels' /\ PointSum' /\ Befores' /\ Window'
    BY <2>1 DEF Inv, TypeOK, Histories, Labels, PointSum, Befores, Window
  <2>3. DomainsAccountForAll' /\ NothingIsFiledLate'
    BY <2>1 DEF Inv, DomainsAccountForAll, NothingIsFiledLate
  <2> QED BY <2>2, <2>3 DEF Inv
<1>2. CASE Next
  <2>1. \A d \in Domains : CountTotal(d) \/ CountDomain(d) \/ FileDomain(d) => Inv'
    BY CountTotalInv, CountDomainInv, FileDomainInv
  <2> QED BY <1>2, <2>1, MinuteInv, AsleepInv, LoopInv, FilePointInv, CleanInv, CrashInv DEF Next
<1> QED BY <1>1, <1>2

\* The invariant holds in every reachable state.
LEMMA Invariance == Spec => []Inv
BY InvInit, NextInv, PTL DEF Spec

\* The counters never fall behind what has been filed of them, and what is
\* copied lies between (history.go:106-171).
THEOREM Typing == Spec => []TypeOK
<1>1. Inv => TypeOK
  BY DEF Inv
<1> QED BY <1>1, Invariance, PTL

\* A chart adds up whatever the width of its buckets: they part the points.
LEMMA Buckets ==
  ASSUME TypeOK, NEW width \in Nat \ {0}
  PROVE  SumFunction(Query(width, 0)) = SumFunction(points)
<1> DEFINE Bucket(m) == (m \div width) * width
           S == DOMAIN points
           K == {Bucket(m) : m \in S}
           key == [m \in S |-> Bucket(m)]
           group == [k \in K |-> {m \in S : Bucket(m) = k}]
           g == Query(width, 0)
<1>1. IsFiniteSet(S) /\ \A m \in S : points[m] \in Nat /\ m \in Nat
  BY Tables
<1>2. {m \in S : m >= 0} = S
  BY <1>1
<1>3. IsFiniteSet(K)
  <2>1. \A m \in S : Bucket(m) \in 0 .. MaxNow
    <3> SUFFICES ASSUME NEW m \in S PROVE Bucket(m) \in 0 .. MaxNow
      OBVIOUS
    <3>1. m \in Nat /\ m <= MaxNow /\ MaxNow \in Nat
      BY ConstantsAssumption DEF TypeOK
    <3>2. Bucket(m) \in Nat /\ Bucket(m) <= m
      BY <3>1
    <3> HIDE DEF Bucket
    <3> QED BY <3>1, <3>2
  <2>2. K \in SUBSET (0 .. MaxNow) /\ IsFiniteSet(0 .. MaxNow)
    BY <2>1, FS_Interval, ConstantsAssumption
  <2> HIDE DEF K
  <2> QED BY <2>2, FS_Subset
<1>4. g = [b \in K |-> SumFunctionOnSet(points, {m \in S : Bucket(m) = b})]
  BY <1>2 DEF Query
<1>5. \A x \in S : key[x] \in K
  OBVIOUS
<1>a. \A x \in S : points[x] \in Int
  BY <1>1
<1>b. IsFiniteSet(S)
  BY <1>1
<1>6. \A k \in K : g[k] = SumFunctionOnSet(points, group[k])
  BY <1>4
<1>c. \A k \in K : group[k] \in SUBSET S
  OBVIOUS
<1>d. \A k \in K : \A x \in S : x \in group[k] <=> key[x] = k
  OBVIOUS
<1>7. DOMAIN g = K
  BY <1>4
<1> HIDE DEF K, key, group, g, S, Bucket
<1>8. SumFunctionOnSet(g, K) = SumFunctionOnSet(points, S)
  BY <1>a, <1>b, <1>c, <1>d, <1>3, <1>5, <1>6, SumGroups
<1> QED BY <1>7, <1>8 DEF SumFunction, g, S

\* Every byte is filed at most once, and only what a refused write carried or
\* a killed process had not filed is missing, from a chart of any bucket width
\* (history.go:106-134, 285-346; DESIGN.md:184).
THEOREM PointsAddUp == Spec => []PointsAccountForAll
<1>1. Inv => PointsAccountForAll
  <2> SUFFICES ASSUME Inv, NEW width \in {1, DayLen}
               PROVE  SumFunction(Query(width, 0)) + gone + delta + (total - last) + lost
                        = SumFunction(ever)
    BY DEF PointsAccountForAll
  <2>1. width \in Nat \ {0}
    BY ConstantsAssumption
  <2>2. SumFunction(Query(width, 0)) = SumFunction(points)
    BY <2>1, Buckets DEF Inv
  <2> QED BY <2>2 DEF Inv, PointSum
<1> QED BY <1>1, Invariance, PTL

\* The same of each domain's rows, filed one after the other from a copy while
\* the copiers go on (history.go:136-171; DESIGN.md:182).
THEOREM DomainsAddUp == Spec => []DomainsAccountForAll
<1>1. Inv => DomainsAccountForAll
  BY DEF Inv
<1> QED BY <1>1, Invariance, PTL

\* Once the point of a minute is there, all that moved before that minute is in
\* it or in an older one, however late the loop wakes (history.go:106-134;
\* DESIGN.md:179).
THEOREM InTime == Spec => []NothingIsFiledLate
<1>1. Inv => NothingIsFiledLate
  BY DEF Inv
<1> QED BY <1>1, Invariance, PTL

\* Either table reaches back no further than its limit and one period of the
\* retention loop for every turn the database has refused
\* (history.go:263-283; DESIGN.md:188).
THEOREM WithinTheWindow == Spec => []RetentionWindow
<1>1. Inv => RetentionWindow
  <2> SUFFICES ASSUME Inv PROVE RetentionWindow
    OBVIOUS
  <2>1. /\ now \in Nat /\ due \in Nat /\ now <= due /\ KeepPoints \in Nat
        /\ KeepDays \in Nat /\ DayLen \in Nat /\ missed.points \in Nat /\ missed.rows \in Nat
        /\ slept.points \in Nat /\ slept.rows \in Nat
    <3>1. KeepDays \in Nat /\ DayLen \in Nat
      BY ConstantsAssumption
    <3>2. /\ missed.points \in Nat /\ missed.rows \in Nat
          /\ slept.points \in Nat /\ slept.rows \in Nat
      BY ConstantsAssumption DEF Inv, TypeOK
    <3> QED BY <3>1, <3>2, Numbers
  <2>2. ASSUME NEW m \in DOMAIN points
        PROVE  m + KeepPoints + CleanEvery * (1 + missed.points) + slept.points >= now
    <3> DEFINE p == CleanEvery * (1 + missed.points)
    <3>1. p \in Nat /\ m \in Nat /\ m + KeepPoints + p + slept.points >= due
      BY <2>1, Multiples, Tables DEF Inv, Window
    <3> HIDE DEF p
    <3>2. m + KeepPoints + p + slept.points >= now
      BY <2>1, <3>1
    <3> QED BY <3>2 DEF p
  <2>3. ASSUME NEW x \in DOMAIN rows
        PROVE  (x[1] + KeepDays + 1) * DayLen + CleanEvery * (1 + missed.rows) + slept.rows
                 >= now
    <3> DEFINE r == CleanEvery * (1 + missed.rows)
               w == (x[1] + KeepDays + 1) * DayLen
    <3>1. x[1] \in Nat
      BY DEF Inv, TypeOK
    <3>2. w \in Nat
      BY <2>1, <3>1
    <3>3. r \in Nat /\ w + r + slept.rows >= due
      BY <2>1, Multiples DEF Inv, Window
    <3> HIDE DEF r, w
    <3>4. w + r + slept.rows >= now
      BY <2>1, <3>2, <3>3
    <3> QED BY <3>4 DEF r, w
  <2> QED BY <2>2, <2>3 DEF RetentionWindow
<1> QED BY <1>1, Invariance, PTL

=============================================================================
