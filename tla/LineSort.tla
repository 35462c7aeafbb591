------------------------------ MODULE LineSort ------------------------------
(***************************************************************************)
(* The sort that calculateLines (lib/Pages/Home.dart) runs on the list D   *)
(* each time it adds a line, so that the box shows ascending numbers.  The *)
(* code counts from 0: its D[j] is D[j + 1] here.                          *)
(***************************************************************************)
EXTENDS Integers, Sequences

CONSTANT Inputs   \* the lists to sort

ASSUME InputsAssumption == Inputs \subseteq Seq(Int)

VARIABLES
  given,   \* D before the sort
  D,
  i, j     \* the counters of the two loops

vars == <<given, D, i, j>>

Positions == 1..Len(D)

TypeOK ==
  /\ given \in Inputs
  /\ D \in Seq(Int)
  /\ Len(D) = Len(given)
  /\ i \in 0..Len(D)
  /\ j \in 0..Len(D)

Init ==
  /\ given \in Inputs
  /\ D = given
  /\ i = 0
  /\ j = 0

\* Mutant of Swapped: the value kept in tmp is forgotten.
SwappedWithoutTmp(s, k) == [s EXCEPT ![k] = s[k + 1]]

Swapped(s, k) == [s EXCEPT ![k] = s[k + 1], ![k + 1] = s[k]]

\* Mutant of InnerGoesOn: the last pair is left out.
InnerStopsEarly == j < Len(D) - 2

InnerGoesOn == j < Len(D) - 1

Compare ==
  /\ i < Len(D)
  /\ InnerGoesOn
  /\ D' = IF D[j + 1] > D[j + 2] THEN Swapped(D, j + 1) ELSE D
  /\ j' = j + 1
  /\ UNCHANGED <<given, i>>

\* Mutant of NextPass: the outer counter is not increased.
SamePass ==
  /\ i < Len(D)
  /\ ~InnerGoesOn
  /\ j' = 0
  /\ UNCHANGED <<given, D, i>>

NextPass ==
  /\ i < Len(D)
  /\ ~InnerGoesOn
  /\ i' = i + 1
  /\ j' = 0
  /\ UNCHANGED <<given, D>>

Next == Compare \/ NextPass

Spec == Init /\ [][Next]_vars /\ WF_vars(Next)

-----------------------------------------------------------------------------
Done == i = Len(D)

Ascending(s) == \A p, q \in DOMAIN s : p < q => s[p] <= s[q]

\* When the two loops are over, the box is in ascending order.
AscendingWhenDone == Done => Ascending(D)

\* The sort only moves the lines about: every line stays, as often as it was.
SameLines ==
  \E f \in [Positions -> Positions] :
     /\ \A p, q \in Positions : f[p] = f[q] => p = q
     /\ \A p \in Positions : D[p] = given[f[p]]

\* The loops end (the setState around them would otherwise block the app).
SortEnds == <>Done

\* The last k places hold the greatest numbers, in order.
InPlace(k) == \A p, q \in Positions : p < q /\ q > Len(D) - k => D[p] <= D[q]

\* The inductive invariant: i places are done, one more when the inner loop has
\* come that far, and the greatest number it has met is where it stands.
SortInv ==
  /\ TypeOK
  /\ j <= Len(D) - 1 \/ j = 0
  /\ InPlace(i)
  /\ j >= Len(D) - i - 1 => InPlace(i + 1)
  /\ j + 1 \in Positions => \A p \in 1..j : D[p] <= D[j + 1]
=============================================================================
