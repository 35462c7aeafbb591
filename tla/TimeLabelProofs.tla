-------------------------- MODULE TimeLabelProofs --------------------------
(***************************************************************************)
(* The labels of all times.                                                *)
(***************************************************************************)
EXTENDS TimeLabel, TLAPS

\* The first digit of a number of one digit is 0.
LEMMA OneDigit ==
  ASSUME NEW n \in 0..9
  PROVE  Tens(n) = 0 /\ Ones(n) = n
BY SMT DEF Tens, Ones

\* One of the four tests of Stops.dart holds for each time, and its label has the
\* two digits of the hour and the two of the minute; none is left empty.
THEOREM LabelsAreDigits ==
  ASSUME NEW t \in Clock
  PROVE  Label(t) = Digits(t) /\ Label(t) # Blank
<1> DEFINE hour == t[1]
           minute == t[2]
<1>0. hour \in Nat /\ minute \in Nat
  BY DEF Clock
<1> HIDE DEF hour, minute
<1>1. Label(t) = Digits(t)
  <2>1. CASE hour < 10 /\ minute < 10
    <3>1. hour \in 0..9 /\ minute \in 0..9
      BY <1>0, <2>1
    <3> QED BY <2>1, <3>1, OneDigit DEF Label, Digits, hour, minute
  <2>2. CASE hour < 10 /\ minute > 9
    <3>1. hour \in 0..9
      BY <1>0, <2>2
    <3> QED BY <1>0, <2>2, <3>1, OneDigit DEF Label, Digits, hour, minute
  <2>3. CASE hour > 9 /\ minute < 10
    <3>1. minute \in 0..9
      BY <1>0, <2>3
    <3> QED BY <1>0, <2>3, <3>1, OneDigit DEF Label, Digits, hour, minute
  <2>4. CASE hour > 9 /\ minute > 9
    BY <2>4 DEF Label, Digits, hour, minute
  <2> QED BY <1>0, <2>1, <2>2, <2>3, <2>4
<1>2. Digits(t) # Blank
  BY DEF Digits, Blank
<1> QED BY <1>1, <1>2
=============================================================================
