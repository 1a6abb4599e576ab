-------------------------------- MODULE Events --------------------------------
(***************************************************************************)
(* The connection events of history.go: forwarding goroutines that post an *)
(* event when their connection ends and must never block, a channel of     *)
(* limited size, and one writer that gathers batches and stores each in    *)
(* one transaction, keeping a batch the database refuses.                  *)
(***************************************************************************)
EXTENDS Naturals, Sequences, SequencesExt

CONSTANTS
  Events,    \* one per connection that ends
  QueueMax,  \* capacity of eventsCh (4096)
  MaxKeep,   \* batch size, and what a refused batch is cut to (512)
  Grown,     \* capacity the batch's slice grows to when it must
  MaxFails,  \* times the database refuses
  MaxCrashes

ASSUME ConstantsAssumption ==
  /\ QueueMax \in Nat \ {0}
  /\ MaxKeep \in Nat \ {0}
  /\ Grown \in Nat /\ Grown > MaxKeep
  /\ MaxFails \in Nat /\ MaxCrashes \in Nat

VARIABLES
  post,     \* each forwarding goroutine: "tunnel", "send", "sent", "skipped", "dropped"
  enabled,  \* eventsEnabled
  queue,    \* eventsCh
  writer,   \* eventsLoop: "off", "prepare", "select", "flush", "stopped"
  buf,      \* the batch
  cap,      \* the capacity of its slice
  db,       \* conn_events, in the order of insertion
  order,    \* history: the events the channel has taken, in order
  trimmed,  \* history: the events trimEvents has thrown away
  lost,     \* history: the events a crash has taken
  fails, crashes

vars == <<post, enabled, queue, writer, buf, cap, db, order, trimmed, lost, fails, crashes>>
loop == <<writer, buf, cap, db, trimmed, fails>>

Init ==
  /\ post = [e \in Events |-> "tunnel"]
  /\ enabled = FALSE
  /\ queue = <<>>
  /\ writer = "off"
  /\ buf = <<>>
  /\ cap = MaxKeep
  /\ db = <<>>
  /\ order = <<>>
  /\ trimmed = {}
  /\ lost = {}
  /\ fails = 0
  /\ crashes = 0

-----------------------------------------------------------------------------
(* openHistory and eventsEnqueue.                                          *)

\* The flag is set before the writer runs.
Open ==
  /\ writer = "off"
  /\ enabled' = TRUE
  /\ writer' = "prepare"
  /\ UNCHANGED <<post, queue, buf, cap, db, order, trimmed, lost, fails, crashes>>

\* The flag is read; the send comes later.
ReadFlag(e) ==
  /\ post[e] = "tunnel"
  /\ post' = [post EXCEPT ![e] = IF enabled THEN "send" ELSE "skipped"]
  /\ UNCHANGED <<enabled, queue, loop, order, lost, crashes>>

Full == Len(queue) = QueueMax

\* select with a default: a full channel drops the event, nobody waits.
Send(e) ==
  /\ post[e] = "send"
  /\ IF Full
     THEN /\ post' = [post EXCEPT ![e] = "dropped"]
          /\ UNCHANGED <<queue, order>>
     ELSE /\ queue' = Append(queue, e)
          /\ order' = Append(order, e)
          /\ post' = [post EXCEPT ![e] = "sent"]
  /\ UNCHANGED <<enabled, loop, lost, crashes>>

-----------------------------------------------------------------------------
(* eventsLoop, flushEvents and trimEvents.                                 *)

Prepare ==
  /\ writer = "prepare"
  /\ writer' = "select"
  /\ UNCHANGED <<post, enabled, queue, buf, cap, db, order, trimmed, lost, fails, crashes>>

PrepareFails ==
  /\ writer = "prepare"
  /\ fails < MaxFails
  /\ fails' = fails + 1
  /\ enabled' = FALSE
  /\ writer' = "stopped"
  /\ UNCHANGED <<post, queue, buf, cap, db, order, trimmed, lost, crashes>>

\* append may reallocate; the batch is stored when its slice is full.
Take ==
  /\ writer = "select"
  /\ queue # <<>>
  /\ queue' = Tail(queue)
  /\ buf' = Append(buf, Head(queue))
  /\ cap' = IF Len(buf) = cap THEN Grown ELSE cap
  /\ writer' = IF Len(buf) + 1 >= cap' THEN "flush" ELSE "select"
  /\ UNCHANGED <<post, enabled, db, order, trimmed, lost, fails, crashes>>

\* Wrong variant of Tick: it reports the dropped events and stores nothing.
TickReports == writer = "select" /\ UNCHANGED vars

\* Every two seconds; reporting the dropped events resets their counter only.
Tick ==
  /\ writer = "select"
  /\ buf # <<>>
  /\ writer' = "flush"
  /\ UNCHANGED <<post, enabled, queue, buf, cap, db, order, trimmed, lost, fails, crashes>>

\* Begin, one insert per event, Commit: all of the batch or nothing.  Wrong
\* variant of Rest: the batch is not emptied.
RestKept == buf
Rest == <<>>

Commit ==
  /\ writer = "flush"
  /\ db' = db \o buf
  /\ buf' = Rest
  /\ writer' = "select"
  /\ UNCHANGED <<post, enabled, queue, cap, order, trimmed, lost, fails, crashes>>

\* trimEvents keeps the newest.  Wrong variants: all of it, the oldest.
TrimNever(s) == s
TrimToOldest(s) == IF Len(s) > MaxKeep THEN SubSeq(s, 1, MaxKeep) ELSE s
TrimTo(s) == IF Len(s) > MaxKeep THEN SubSeq(s, Len(s) - MaxKeep + 1, Len(s)) ELSE s

FlushFails ==
  /\ writer = "flush"
  /\ fails < MaxFails
  /\ fails' = fails + 1
  /\ buf' = TrimTo(buf)
  /\ trimmed' = trimmed \cup (ToSet(buf) \ ToSet(TrimTo(buf)))
  /\ writer' = "select"
  /\ UNCHANGED <<post, enabled, queue, cap, db, order, lost, crashes>>

-----------------------------------------------------------------------------

\* The process ends, by a signal too, without a last flush, and is started
\* again; the connections of the old process are no more.
Crash ==
  /\ crashes < MaxCrashes
  /\ writer # "off"
  /\ crashes' = crashes + 1
  /\ lost' = lost \cup ToSet(queue) \cup ToSet(buf)
  /\ queue' = <<>>
  /\ buf' = <<>>
  /\ cap' = MaxKeep
  /\ enabled' = FALSE
  /\ writer' = "off"
  /\ post' = [e \in Events |-> IF post[e] = "send" THEN "skipped" ELSE post[e]]
  /\ UNCHANGED <<db, order, trimmed, fails>>

Writer == Prepare \/ PrepareFails \/ Take \/ Tick \/ Commit \/ FlushFails

Next ==
  \/ Open
  \/ \E e \in Events : ReadFlag(e) \/ Send(e)
  \/ Writer
  \/ Crash

Spec == Init /\ [][Next]_vars

\* Goroutines run, the ticker ticks; the database refuses at most MaxFails
\* times, and no connection has to end.
FairSpec ==
  /\ Spec
  /\ WF_vars(Writer)
  /\ \A e \in Events : WF_vars(Send(e))

-----------------------------------------------------------------------------
(* Properties.                                                             *)

\* Every variable has its type, and queue and batch keep within their limits
\* however long the database refuses.
TypeOK ==
  /\ post \in [Events -> {"tunnel", "send", "sent", "skipped", "dropped"}]
  /\ enabled \in BOOLEAN
  /\ queue \in Seq(Events) /\ Len(queue) <= QueueMax
  /\ writer \in {"off", "prepare", "select", "flush", "stopped"}
  /\ buf \in Seq(Events) /\ Len(buf) <= cap
  /\ cap \in {MaxKeep, Grown}
  /\ db \in Seq(Events)
  /\ order \in Seq(Events)
  /\ trimmed \subseteq Events
  /\ lost \subseteq Events
  /\ fails \in 0 .. MaxFails
  /\ crashes \in 0 .. MaxCrashes

\* What is stored or on its way, and events in it as the channel has taken them.
kept == db \o buf \o queue
AsTaken(s) ==
  \A i, j \in DOMAIN s : \A k, l \in DOMAIN order :
    i < j /\ s[i] = order[k] /\ s[j] = order[l] => k < l

\* history.go:225, "a refused batch is kept and tried again": through refusals
\* and retries what is neither lost with the process nor thrown away is stored
\* or still on its way, once and in the order of the channel.
StoredOnceInOrder ==
  /\ ToSet(kept) = ToSet(order) \ (trimmed \cup lost)
  /\ AsTaken(kept)

\* history.go:172 and 225: seen from outside, the channel, the batch and the
\* table are one log.  A batch is stored as a whole or not at all; what a full
\* backlog or a kill throws away is always the oldest of what waits, never an
\* event in favour of an older one; and no more than a channel and a grown
\* batch ever wait.
Log == INSTANCE EventLog WITH
         Limit <- QueueMax + Grown,
         taken <- ToSet(order),
         waiting <- buf \o queue,
         stored <- db
ImplementsLog == Log!Spec

\* history.go:225, "recovers by itself when the database hiccups": once it
\* accepts again, what the channel has taken is stored, unless it was thrown
\* away or the process ended.
EventuallyStored ==
  \A e \in Events :
    (e \in ToSet(queue) \cup ToSet(buf))
      ~> (e \in ToSet(db) \cup trimmed \cup lost \/ writer = "stopped")

=============================================================================
