--------------------------- MODULE MCRoutePlanner ---------------------------
(***************************************************************************)
(* Small towns for the trip planner.                                       *)
(***************************************************************************)
EXTENDS RoutePlanner

MCStops == {"a", "b", "c"}
MCNoStop == "none"

\* A course calls at these stops, in this order; the documents come back
\* last call first, which is not the order of the ranks.
Calls(stops) ==
  LET n == Len(stops)
  IN [m \in 1..n |-> [id |-> stops[n + 1 - m], l |-> n + 1 - m]]

ThereAndBack(stops, back) == <<Calls(stops), Calls(back)>>

\* Line 1 runs both ways; line 2 calls at a in one direction and at b in the
\* other, so nobody goes from a to b with it.
TwoLines == {1, 2}
TownCourse == <<ThereAndBack(<<"a", "c", "b">>, <<"b", "c", "a">>),
                ThereAndBack(<<"a", "c">>, <<"c", "b">>)>>

\* Here line 2 runs only from b to a.
VillageCourse == <<TownCourse[1], ThereAndBack(<<"b", "a">>, << >>)>>

\* A place with the stops a and b only, a line that runs from a to b only, and a
\* circular line, which leaves a and calls at a again at the end.
HamletStops == {"a", "b"}
HamletCourse == <<ThereAndBack(<<"a", "b">>, << >>),
                  ThereAndBack(<<"a", "b", "a">>, << >>)>>

\* The lines a stop's document lists are those that call at it.
Lists(stops, courses) ==
  [s \in stops |->
     {line \in TwoLines : \E j \in Kierunki :
        \E m \in DOMAIN courses[line][j] : courses[line][j][m].id = s}]

TownLinie == Lists(MCStops, TownCourse)
VillageLinie == Lists(MCStops, VillageCourse)
HamletLinie == Lists(HamletStops, HamletCourse)

\* The documents in the order of the stops, so that a trip from a to b starts
\* a loop at b and another at c; and with the ends last, one loop.
EndsFirst == <<"a", "b", "c">>
HamletDocs == <<"a", "b">>
EndsLast == <<"c", "a", "b">>
=============================================================================
