---------------------------- MODULE MCTimetable ----------------------------
(***************************************************************************)
(* Two lines with up to three courses, whose times have hours and minutes  *)
(* on both sides of 10; the second version of the database has an early    *)
(* course more, one line less often, and the other line no longer.         *)
(***************************************************************************)
EXTENDS Timetable

TwoLines == {1, 4}
TwoVersions ==
  << [w \in TwoLines \X (1..2) |->
        IF w[2] = 1 THEN << <<9, 9>>, <<9, 10>> >>
        ELSE << <<8, 30>>, <<10, 9>>, <<12, 10>> >>],
     [w \in TwoLines \X (1..2) |->
        IF w[2] = 1 THEN << <<6, 0>>, <<9, 9>>, <<9, 10>> >>
        ELSE << <<8, 30>>, <<12, 10>> >>] >>

TwoListings == <<TwoLines, {1}>>

\* The early course of the second version leaves its first stop out.
Restricted ==
  [v \in 1..2 |-> [w \in TwoLines \X (1..2) |-> IF v = 2 /\ w[2] = 1 THEN {1} ELSE {}]]
=============================================================================
