--------------------------- MODULE MCNearestStops ---------------------------
(***************************************************************************)
(* Five stops around the phone, in every order of their distances.         *)
(***************************************************************************)
EXTENDS NearestStops, Sequences

FiveStops == <<"n1", "n2", "n3", "n4", "n5">>
MCBlank == ""
TwoSpots == {"home", "work"}

Orders == {f \in [1..5 -> 1..5] : \A h, k \in 1..5 : f[h] = f[k] => h = k}

\* The phone keeps still.
AtHome == {[p \in TwoSpots |-> f] : f \in Orders}

\* At work the order is the reverse of the one at home, and the phone is at the
\* very position of the stop that is farthest from home.
AtWork ==
  {[p \in TwoSpots |-> IF p = "home" THEN f ELSE [k \in 1..5 |-> 5 - f[k]]] : f \in Orders}

\* The phone moves as it does AtWork, but is never at a stop; the first document is of
\* the stop in the middle.
NearWork ==
  {[p \in TwoSpots |-> IF p = "home" THEN f ELSE [k \in 1..5 |-> 6 - f[k]]] :
     f \in {g \in Orders : g[1] = 3}}

StillOrMoving == AtHome \cup AtWork \cup NearWork
=============================================================================
