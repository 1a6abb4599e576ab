-------------------------------- MODULE History --------------------------------
(***************************************************************************)
(* The minute and day tables of history.go: copiers that count bytes, the  *)
(* loop that files once a minute what has been counted since the last time *)
(* (recordLoop, flushDomains), and the loop that deletes old rows          *)
(* (retentionLoop).  The database refuses writes now and then and the      *)
(* process is killed and started again; what is in memory starts over.     *)
(*                                                                         *)
(* Time is counted in minutes.  One counter stands for up, down and conns. *)
(***************************************************************************)
EXTENDS Naturals, FiniteSets, FiniteSetsExt, Functions

CONSTANTS
  Domains,
  DayLen,     \* minutes of a day
  KeepPoints, \* minutes a traffic point is kept (30 days)
  KeepDays,   \* days a domain's row is kept (90)
  CleanEvery, \* minutes between two runs of the retention loop (a day)
  MaxLate,    \* minutes the record loop may be late (a suspended machine)
  MaxSleep,   \* minutes slept through between two deletions
  MaxNow, MaxTraffic, MaxFails, MaxCrashes

ASSUME ConstantsAssumption ==
  /\ IsFiniteSet(Domains)
  /\ DayLen \in Nat \ {0} /\ CleanEvery \in Nat \ {0}
  /\ KeepPoints \in Nat /\ KeepDays \in Nat
  /\ MaxLate \in 0 .. KeepPoints /\ MaxLate <= KeepDays * DayLen + 1
  /\ MaxSleep \in Nat
  /\ MaxNow \in Nat /\ MaxTraffic \in Nat /\ MaxFails \in Nat /\ MaxCrashes \in Nat

VARIABLES
  now,       \* the minute of the clock
  total,     \* stats.totals
  agg,       \* stats.domains
  half,      \* counted in the total, not yet in the domain's aggregate
  loop,      \* recordLoop: "top", "sleep", "point", "domains"
  label,     \* `next`, the minute the point will be filed under
  last,      \* lastTotals
  delta,     \* what is about to be filed
  copy,      \* domainCopy, of the domains flushDomains has still to visit
  lastDom,   \* lastDomains
  points,    \* traffic_points: minute -> amount
  rows,      \* domain_stats: <<day, domain>> -> amount
  due,       \* when the retention loop runs next
  missed,    \* history: deletions refused in a row, of points and of rows
  slept,     \* history: minutes slept through since the last one that was not
  ever,      \* history: what each domain's connections have moved, ever
  before,    \* history: how much of it before each minute
  lost,      \* history: what failed writes and kills have cost the points
  lostDom,   \* and the domains
  gone, goneDom,  \* history: what retention has deleted
  fails, crashes

memory == <<total, agg, half>>
file == <<points, rows>>
losses == <<lost, lostDom>>
deleted == <<gone, goneDom, missed, slept>>
loopvars == <<loop, label, last, delta, copy, lastDom>>
vars == <<now, memory, loopvars, file, due, ever, before, losses, deleted, fails, crashes>>

NoDomains == [d \in Domains |-> 0]
NoRows == [x \in {} |-> 0]

Init ==
  /\ now = 0
  /\ total = 0
  /\ agg = NoDomains
  /\ half = NoDomains
  /\ loop = "top"
  /\ label = 0
  /\ last = 0
  /\ delta = 0
  /\ copy = NoRows
  /\ lastDom = NoDomains
  /\ points = NoRows
  /\ rows = NoRows
  /\ due = 0
  /\ ever = NoDomains
  /\ before = [m \in {0} |-> 0]
  /\ lost = 0
  /\ lostDom = NoDomains
  /\ gone = 0
  /\ goneDom = NoDomains
  /\ missed = [points |-> 0, rows |-> 0]
  /\ slept = [points |-> 0, rows |-> 0]
  /\ fails = 0
  /\ crashes = 0

-----------------------------------------------------------------------------
(* The clock and the copiers.                                              *)

\* Minutes pass while anything else is going on; the record loop may wake and
\* write late, by up to MaxLate.
AMinute ==
  /\ now < MaxNow
  /\ loop = "top" \/ now < label + MaxLate
  /\ now' = now + 1
  /\ before' = [m \in DOMAIN before \cup {now + 1} |->
                  IF m = now + 1 THEN SumFunction(ever) ELSE before[m]]
  /\ UNCHANGED <<memory, loopvars, file, ever, losses, gone, goneDom, missed, fails, crashes>>

\* While the machine runs, the retention ticker is in time.
Minute ==
  /\ now < due
  /\ AMinute
  /\ UNCHANGED <<due, slept>>

\* A minute the machine is suspended, or (between Crash and the next Clean) the
\* program not running: tickers do not count it, so the next deletion is put off.
Asleep ==
  /\ \A t \in DOMAIN slept : slept[t] < MaxSleep
  /\ AMinute
  /\ due' = due + 1
  /\ slept' = [t \in DOMAIN slept |-> slept[t] + 1]

\* addUp: the total first, then the aggregate of the domain.
CountTotal(d) ==
  /\ SumFunction(ever) < MaxTraffic
  /\ total' = total + 1
  /\ half' = [half EXCEPT ![d] = @ + 1]
  /\ ever' = [ever EXCEPT ![d] = @ + 1]
  /\ UNCHANGED <<now, agg, loopvars, file, due, before, losses, deleted, fails, crashes>>

CountDomain(d) ==
  /\ half[d] > 0
  /\ agg' = [agg EXCEPT ![d] = @ + 1]
  /\ half' = [half EXCEPT ![d] = @ - 1]
  /\ UNCHANGED <<now, total, loopvars, file, due, ever, before, losses, deleted, fails, crashes>>

-----------------------------------------------------------------------------
(* recordLoop and flushDomains.                                            *)

\* The label is the end of the running minute.
Top ==
  /\ loop = "top"
  /\ label' = now + 1
  /\ loop' = "sleep"
  /\ UNCHANGED <<now, memory, last, delta, copy, lastDom, file, due, ever, before,
                 losses, deleted, fails, crashes>>

\* Wrong variant of MayWake: the loop does not wait for the minute to end.
WakeEarly == loop = "sleep"
MayWake == loop = "sleep" /\ now >= label

\* lastTotals moves on before the write.  Wrong variant of Filed: it adds up.
AddedUp == last + total
Filed == total

Wake ==
  /\ MayWake
  /\ delta' = total - last
  /\ last' = Filed
  /\ loop' = "point"
  /\ UNCHANGED <<now, memory, label, copy, lastDom, file, due, ever, before, losses,
                 deleted, fails, crashes>>

\* INSERT ... ON CONFLICT DO UPDATE: a row that is there is added to.  Wrong
\* variant of Upsert: it is replaced.
Replace(table, key, amount) ==
  [x \in DOMAIN table \cup {key} |-> IF x = key THEN amount ELSE table[x]]
Upsert(table, key, amount) ==
  [x \in DOMAIN table \cup {key} |->
     (IF x \in DOMAIN table THEN table[x] ELSE 0) + (IF x = key THEN amount ELSE 0)]

\* What lastTotals is after the write.  Wrong variant: a second reading.
TotalNow == total
Remembered == last

\* A write that fails is logged; its amount is not filed again.  The aggregates
\* of all domains are copied afterwards.
FilePoint ==
  /\ loop = "point"
  /\ \/ /\ points' = Upsert(points, label, delta)
        /\ UNCHANGED <<lost, fails>>
     \/ /\ fails < MaxFails
        /\ fails' = fails + 1
        /\ lost' = lost + delta
        /\ UNCHANGED points
  /\ delta' = 0
  /\ last' = Remembered
  /\ copy' = agg
  /\ loop' = "domains"
  /\ UNCHANGED <<now, memory, label, lastDom, rows, due, ever, before, lostDom,
                 deleted, crashes>>

\* Wrong variant of Seen: a second look at the counters.
SeenNow(d) == agg[d]
Seen(d) == copy[d]

\* One domain after the other; the day is that of the label.  A domain without
\* traffic gets no row.
Day(m) == m \div DayLen
FileDomain(d) ==
  /\ loop = "domains"
  /\ d \in DOMAIN copy
  /\ LET amount == copy[d] - lastDom[d]
     IN  \/ /\ rows' = IF amount = 0 THEN rows ELSE Upsert(rows, <<Day(label), d>>, amount)
            /\ UNCHANGED <<lostDom, fails>>
         \/ /\ amount # 0
            /\ fails < MaxFails
            /\ fails' = fails + 1
            /\ lostDom' = [lostDom EXCEPT ![d] = @ + amount]
            /\ UNCHANGED rows
  /\ lastDom' = [lastDom EXCEPT ![d] = Seen(d)]
  /\ copy' = [x \in DOMAIN copy \ {d} |-> copy[x]]
  /\ UNCHANGED <<now, memory, loop, label, last, delta, points, due, ever, before, lost,
                 deleted, crashes>>

Again ==
  /\ loop = "domains"
  /\ DOMAIN copy = {}
  /\ loop' = "top"
  /\ UNCHANGED <<now, memory, label, last, delta, copy, lastDom, file, due, ever, before,
                 losses, deleted, fails, crashes>>

-----------------------------------------------------------------------------
(* retentionLoop: once at the start, then at every tick.                   *)

\* Wrong variant of OldPoint: the limit is computed once, at the start.
OldAtStart(m) == m + KeepPoints < 0
OldPoint(m) == m + KeepPoints < now
OldRow(x) == x[1] + KeepDays < Day(now)

\* Two deletions, one after the other; the database may refuse either, which
\* is only logged, until the next turn of the loop.
Refusals == {t \in SUBSET {"points", "rows"} : fails + Cardinality(t) <= MaxFails}
OldPoints == {m \in DOMAIN points : OldPoint(m)}
OldRows == {x \in DOMAIN rows : OldRow(x)}

Clean ==
  /\ now = due
  /\ due' = now + CleanEvery
  /\ \E refused \in Refusals :
       /\ points' = IF "points" \in refused THEN points
                    ELSE Restrict(points, DOMAIN points \ OldPoints)
       /\ rows' = IF "rows" \in refused THEN rows ELSE Restrict(rows, DOMAIN rows \ OldRows)
       /\ missed' = [t \in DOMAIN missed |-> IF t \in refused THEN missed[t] + 1 ELSE 0]
       /\ slept' = [t \in DOMAIN slept |-> IF t \in refused THEN slept[t] ELSE 0]
       /\ fails' = fails + Cardinality(refused)
  /\ gone' = gone + SumFunctionOnSet(points, DOMAIN points \ DOMAIN points')
  /\ goneDom' = [d \in Domains |->
       goneDom[d] + SumFunctionOnSet(rows, {k \in DOMAIN rows \ DOMAIN rows' : k[2] = d})]
  /\ UNCHANGED <<now, memory, loopvars, ever, before, losses, crashes>>

\* queryHistory: the points since `from`, summed in buckets of `width` minutes.
Query(width, from) ==
  LET kept == {m \in DOMAIN points : m >= from}
      Bucket(m) == (m \div width) * width
  IN  [b \in {Bucket(m) : m \in kept} |->
         SumFunctionOnSet(points, {m \in kept : Bucket(m) = b})]

-----------------------------------------------------------------------------

\* The process is killed and started again: lastTotals is zero like the
\* counters, and there is nothing to recover.
Crash ==
  /\ crashes < MaxCrashes
  /\ crashes' = crashes + 1
  /\ lost' = lost + delta + (total - last)
  /\ lostDom' = [d \in Domains |-> lostDom[d] + half[d] + (agg[d] - lastDom[d])]
  /\ total' = 0
  /\ agg' = NoDomains
  /\ half' = NoDomains
  /\ loop' = "top"
  /\ last' = 0
  /\ delta' = 0
  /\ copy' = NoRows
  /\ lastDom' = NoDomains
  /\ due' = now
  /\ UNCHANGED <<now, label, file, ever, before, deleted, fails>>

Next ==
  \/ Minute \/ Asleep
  \/ \E d \in Domains : CountTotal(d) \/ CountDomain(d) \/ FileDomain(d)
  \/ Top \/ Wake \/ FilePoint \/ Again
  \/ Clean
  \/ Crash

Spec == Init /\ [][Next]_vars

-----------------------------------------------------------------------------
(* Properties.                                                             *)

\* Every variable has its type; the counters never fall behind what has been
\* filed of them, so that no amount is negative.
TypeOK ==
  /\ now \in 0 .. MaxNow
  /\ total \in Nat
  /\ agg \in [Domains -> Nat] /\ half \in [Domains -> Nat]
  /\ loop \in {"top", "sleep", "point", "domains"}
  /\ label \in 0 .. MaxNow + 1
  /\ last \in 0 .. total
  /\ delta \in Nat
  /\ DOMAIN copy \subseteq Domains
  /\ lastDom \in [Domains -> Nat]
  /\ \A d \in Domains : lastDom[d] <= agg[d]
  /\ \A d \in DOMAIN copy : copy[d] \in lastDom[d] .. agg[d]
  /\ DOMAIN points \subseteq 1 .. MaxNow
  /\ \A m \in DOMAIN points : points[m] \in Nat
  /\ DOMAIN rows \subseteq (0 .. Day(MaxNow)) \X Domains
  /\ \A x \in DOMAIN rows : rows[x] \in Nat
  /\ due \in now .. now + CleanEvery
  /\ missed \in [{"points", "rows"} -> 0 .. MaxFails]
  /\ slept \in [{"points", "rows"} -> 0 .. MaxSleep]
  /\ fails \in 0 .. MaxFails
  /\ crashes \in 0 .. MaxCrashes

\* DESIGN.md:184, deltas, not totals, so that a restart needs no recovery:
\* whatever is refused, killed and restarted, every byte is filed at most once,
\* and only what a refused write carried, or a killed process had not filed
\* yet, is missing from a chart, whatever the width of its buckets.
PointsAccountForAll ==
  \A width \in {1, DayLen} :
    SumFunction(Query(width, 0)) + gone + delta + (total - last) + lost = SumFunction(ever)

\* DESIGN.md:182, the same of each domain's rows, which are filed one after the
\* other from a copy while traffic goes on, and added to all day.
DomainsAccountForAll ==
  \A d \in Domains :
    SumFunctionOnSet(rows, {k \in DOMAIN rows : k[2] = d})
      + goneDom[d] + (agg[d] - lastDom[d]) + half[d] + lostDom[d] = ever[d]

\* DESIGN.md:179, aligned to the minute: once the point of minute m is there,
\* all that moved before m is in it or in an older one (or deleted, or lost):
\* nothing is filed later than it should be, however late the loop wakes.
NothingIsFiledLate ==
  \A m \in DOMAIN points :
    /\ m <= now
    /\ SumFunctionOnSet(points, {k \in DOMAIN points : k <= m}) + gone + lost
         >= before[m]

\* DESIGN.md:188, bounded on disk: however often the process restarts, the
\* machine sleeps and the database refuses, either table reaches back no further
\* than its limit and one period of the retention loop, one more for every turn
\* it has missed, and the time slept through since a turn went through; that
\* turn makes up for all of them.
RetentionWindow ==
  /\ \A m \in DOMAIN points :
       m + KeepPoints + CleanEvery * (1 + missed.points) + slept.points >= now
  /\ \A x \in DOMAIN rows :
       (x[1] + KeepDays + 1) * DayLen + CleanEvery * (1 + missed.rows) + slept.rows >= now

=============================================================================
