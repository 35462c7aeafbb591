----------------------------- MODULE TimeLabel -----------------------------
(***************************************************************************)
(* The times of the timetable as the pages write them: the four tests of   *)
(* Stops.dart that put a 0 before an hour or a minute of one digit.  A     *)
(* time is <<hour, minute>>; a label is the tuple of its digits (the colon *)
(* is left out), and the empty tuple is ''.                                *)
(***************************************************************************)
EXTENDS Integers

\* Of the night lines, some hours go past 24.
Clock == (0..99) \X (0..59)

\* The two digits toString() gives a number from 10 to 99.
Tens(n) == n \div 10
Ones(n) == n % 10

Digits(t) == <<Tens(t[1]), Ones(t[1]), Tens(t[2]), Ones(t[2])>>

Blank == << >>

\* Mutant of Label: a comparison off by one leaves a time without a label.
LabelOffByOne(t) ==
  CASE t[1] < 10 /\ t[2] > 10 -> <<0, t[1], Tens(t[2]), Ones(t[2])>>
    [] t[1] > 9 /\ t[2] < 10  -> <<Tens(t[1]), Ones(t[1]), 0, t[2]>>
    [] t[1] < 10 /\ t[2] < 10 -> <<0, t[1], 0, t[2]>>
    [] t[1] > 9 /\ t[2] > 9   -> <<Tens(t[1]), Ones(t[1]), Tens(t[2]), Ones(t[2])>>
    [] OTHER -> Blank

Label(t) ==
  CASE t[1] < 10 /\ t[2] > 9  -> <<0, t[1], Tens(t[2]), Ones(t[2])>>
    [] t[1] > 9 /\ t[2] < 10  -> <<Tens(t[1]), Ones(t[1]), 0, t[2]>>
    [] t[1] < 10 /\ t[2] < 10 -> <<0, t[1], 0, t[2]>>
    [] t[1] > 9 /\ t[2] > 9   -> <<Tens(t[1]), Ones(t[1]), Tens(t[2]), Ones(t[2])>>
    [] OTHER -> Blank
=============================================================================
