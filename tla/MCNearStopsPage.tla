-------------------------- MODULE MCNearStopsPage --------------------------
(***************************************************************************)
(* Three stops, the last of which has a number the list x has no place for *)
(* (as every stop from 12 on), and a phone that moves past the first two.  *)
(***************************************************************************)
EXTENDS NearStopsPage

ThreeDocs == <<1, 2, 12>>
Spots == {"away", "stop"}
Off == "nowhere"
NoStops == [p \in Spots |-> {}]
StopOnOneSide == [p \in Spots |-> IF p = "stop" THEN {2, 12} ELSE {}]
TwoStreets == {NoStops, StopOnOneSide}
=============================================================================
