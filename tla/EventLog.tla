-------------------------------- MODULE EventLog --------------------------------
(***************************************************************************)
(* What the event layer of history.go promises, without queue, batch,      *)
(* transaction or process: a log that events pass through in the order in  *)
(* which they are taken.  An event waits, then it is stored, or forgotten. *)
(* Only the oldest are stored, only the oldest are forgotten, nothing of   *)
(* what has been stored is changed, and no more than Limit wait.  That the *)
(* retention loop deletes old rows in the end is left out.                 *)
(***************************************************************************)
EXTENDS Naturals, Sequences

CONSTANTS
  Events,
  Limit    \* how many events may wait

VARIABLES
  taken,   \* the events that have ever been taken
  waiting, \* those neither stored nor forgotten, oldest first
  stored   \* the table

vars == <<taken, waiting, stored>>

Init == taken = {} /\ waiting = <<>> /\ stored = <<>>

Oldest(n) == SubSeq(waiting, 1, n)
Without(n) == SubSeq(waiting, n + 1, Len(waiting))

\* A connection has ended.
Accept(e) ==
  /\ e \notin taken
  /\ Len(waiting) < Limit
  /\ taken' = taken \cup {e}
  /\ waiting' = Append(waiting, e)
  /\ UNCHANGED stored

\* The database has committed a batch.
Store(n) ==
  /\ stored' = stored \o Oldest(n)
  /\ waiting' = Without(n)
  /\ UNCHANGED taken

\* The backlog is over its limit, or the process has ended.
Forget(n) ==
  /\ waiting' = Without(n)
  /\ UNCHANGED <<taken, stored>>

Next ==
  \/ \E e \in Events : Accept(e)
  \/ \E n \in DOMAIN waiting : Store(n) \/ Forget(n)

Spec == Init /\ [][Next]_vars

=============================================================================
