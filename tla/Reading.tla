------------------------------ MODULE Reading ------------------------------
(***************************************************************************)
(* What the pages of the app count on when they read the database: a get() *)
(* is answered at most once, and what is told about a query, whichever of  *)
(* its readers is told, is never older than what was told before nor newer *)
(* than the database.                                                      *)
(***************************************************************************)
EXTENDS Integers, Sequences

CONSTANTS
  Targets,     \* the queries
  Gets,        \* the calls of get()
  Lives,       \* the live listeners, that is, the StreamBuilders
  asks,        \* asks[l]: the query of get or listener l
  MaxVersion   \* bound: the versions of a query in the database

VARIABLES
  rows,        \* rows[q]: the version of the documents of q in the database
  told         \* told[l]: the answer to get l or the last event of listener l

Listeners == Gets \cup Lives

\* What a listener is told: a version of its query (0: no documents) and
\* SnapshotMetadata.from_cache.
Events == [docs : 0..MaxVersion, fromCache : BOOLEAN]

\* A get is told once, a listener again and again.
Heard(l, e) == [told EXCEPT ![l] = IF l \in Gets THEN Append(@, e) ELSE <<e>>]

Init ==
  /\ rows = [q \in Targets |-> 1]
  /\ told = [l \in Listeners |-> << >>]

\* The database is written.
Publish(q) ==
  /\ \E v \in (rows[q] + 1)..MaxVersion : rows' = [rows EXCEPT ![q] = v]
  /\ UNCHANGED told

Tell(l, e) ==
  /\ l \in Gets => told[l] = << >>
  /\ \A k \in Listeners :
        asks[k] = asks[l] => \A n \in DOMAIN told[k] : told[k][n].docs <= e.docs
  /\ e.docs <= rows[asks[l]]
  /\ told' = Heard(l, e)
  /\ UNCHANGED rows

Next ==
  \/ \E q \in Targets : Publish(q)
  \/ \E l \in Listeners, e \in Events : Tell(l, e)

Spec == Init /\ [][Next]_<<rows, told>>
=============================================================================
