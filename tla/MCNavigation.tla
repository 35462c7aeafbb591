---------------------------- MODULE MCNavigation ----------------------------
(***************************************************************************)
(* Two stops, which are poles of one name.                                 *)
(***************************************************************************)
EXTENDS Navigation, TLC

TwoStops == {1, 2}
TwoDocs == <<1, 2>>
PoleNames == [s \in TwoStops |-> "a"]
MCNoStop == 0
MCBlank == ""
OneRow == 1..1

\* The places of the States of one kind are alike.
Alike == Permutations(Choosers) \cup Permutations(Lists)
=============================================================================
