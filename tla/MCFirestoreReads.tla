-------------------------- MODULE MCFirestoreReads --------------------------
\* A get and a live listener of one query.
EXTENDS FirestoreReads

CONSTANTS get1, live, stops

AskTheSame == [l \in Listeners |-> stops]
=============================================================================
