---------------------------- MODULE RouteSearch ----------------------------
(***************************************************************************)
(* What the 'Zaplanuj trase' box of the home page promises, with no        *)
(* queries, callbacks or timers: the user picks the two ends of a trip,    *)
(* picking clears the box, and the direct lines of the trip appear in it   *)
(* one by one until all are shown.                                         *)
(***************************************************************************)
EXTENDS TransitData

CONSTANT NoStop      \* the label 'Wybierz przystanek': no stop picked yet

VARIABLES
  present,   \* the home page is on the screen
  from, to,  \* the stops picked
  shown      \* the set of lines in the box

vars == <<present, from, to, shown>>

Chosen == NoStop \notin {from, to}

Init ==
  /\ present = TRUE
  /\ from = NoStop
  /\ to = NoStop
  /\ shown = {}

\* The user picks one end; the box is cleared.
Pick ==
  /\ present
  /\ \E s \in Stops : \/ from' = s /\ to' = to
                      \/ from' = from /\ to' = s
  /\ shown' = {}
  /\ UNCHANGED present

\* One more direct line of the trip appears.
Reveal ==
  /\ Chosen
  /\ \E line \in DirectLines(from, to) \ shown : shown' = shown \cup {line}
  /\ UNCHANGED <<present, from, to>>

Leave ==
  /\ present
  /\ present' = FALSE
  /\ UNCHANGED <<from, to, shown>>

Next == Pick \/ Reveal \/ Leave

\* While the page is on the screen, lines still missing do appear.
Spec == Init /\ [][Next]_vars /\ WF_vars(present /\ Reveal)
=============================================================================
