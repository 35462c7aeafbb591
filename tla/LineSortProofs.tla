--------------------------- MODULE LineSortProofs ---------------------------
(***************************************************************************)
(* The sort of the box is a sort, for lists of every length.               *)
(***************************************************************************)
EXTENDS LineSort, TLAPS

\* What one exchange does to a list.
LEMMA SwappedIs ==
  ASSUME NEW s \in Seq(Int), NEW k \in 1..(Len(s) - 1)
  PROVE  /\ Swapped(s, k) \in Seq(Int)
         /\ Len(Swapped(s, k)) = Len(s)
         /\ Swapped(s, k)[k] = s[k + 1]
         /\ Swapped(s, k)[k + 1] = s[k]
         /\ \A p \in 1..Len(s) : p # k /\ p # k + 1 => Swapped(s, k)[p] = s[p]
BY DEF Swapped

THEOREM SortInit == Init => SortInv
<1> SUFFICES ASSUME Init PROVE SortInv
  OBVIOUS
<1>1. D \in Seq(Int) /\ Len(D) \in Nat
  BY InputsAssumption DEF Init
<1> QED BY <1>1 DEF Init, SortInv, TypeOK, InPlace, Positions

THEOREM SortStep == SortInv /\ [Next]_vars => SortInv'
<1> SUFFICES ASSUME SortInv, [Next]_vars PROVE SortInv'
  OBVIOUS
<1> DEFINE n == Len(D)
<1>1. /\ D \in Seq(Int) /\ n \in Nat /\ n = Len(given) /\ given \in Inputs
      /\ i \in 0..n /\ j \in 0..n
  BY DEF SortInv, TypeOK
<1>2. CASE Compare
  <2> DEFINE k == j + 1
  <2>1. /\ i \in 0..(n - 1) /\ k \in 1..(n - 1) /\ j' = k /\ given' = given /\ i' = i
        /\ D' = IF D[k] > D[k + 1] THEN Swapped(D, k) ELSE D
    <3>1. j + 2 = k + 1
      BY <1>1
    <3> QED BY <1>1, <1>2, <3>1 DEF Compare, InnerGoesOn
  <2>2. /\ \A p \in 1..(k - 1) : D[p] <= D[k]
        /\ \A p, q \in 1..n : p < q /\ q > n - i => D[p] <= D[q]
        /\ k >= n - i => \A p, q \in 1..n : p < q /\ q > n - (i + 1) => D[p] <= D[q]
    BY <1>1, <2>1 DEF SortInv, InPlace, Positions
  <2>3. \A p \in 1..n : D[p] \in Int
    BY <1>1
  <2> SUFFICES /\ D' \in Seq(Int) /\ Len(D') = n
               /\ \A p \in 1..k : D'[p] <= D'[k + 1]
               /\ \A p, q \in 1..n : p < q /\ q > n - i => D'[p] <= D'[q]
               /\ k + 1 >= n - i =>
                    \A p, q \in 1..n : p < q /\ q > n - (i + 1) => D'[p] <= D'[q]
    BY <1>1, <2>1 DEF SortInv, TypeOK, InPlace, Positions
  <2> HIDE DEF n, k
  <2>4. CASE D[k] <= D[k + 1]
    <3>1. D' = D
      BY <1>1, <2>1, <2>3, <2>4
    <3>2. ASSUME NEW p \in 1..k PROVE D[p] <= D[k + 1]
      <4>1. /\ p \in 1..n /\ k \in 1..n /\ k + 1 \in 1..n
            /\ p = k \/ p \in 1..(k - 1)
        BY <1>1, <2>1
      <4>2. D[p] <= D[k]
        BY <2>2, <2>3, <4>1
      <4> QED BY <2>3, <2>4, <4>1, <4>2
    <3>3. CASE k + 1 = n - i
      <4>1. ASSUME NEW p \in 1..n, NEW q \in 1..n, p < q, q > n - (i + 1)
            PROVE  D[p] <= D[q]
        <5>1. q = k + 1 \/ q > n - i
          BY <1>1, <2>1, <3>3, <4>1
        <5>2. q = k + 1 => p \in 1..k
          BY <2>1, <4>1
        <5> QED BY <2>2, <3>2, <4>1, <5>1, <5>2
      <4> QED BY <1>1, <2>2, <3>1, <3>2, <4>1 DEF n
    <3>4. CASE k + 1 # n - i
      <4>1. k + 1 >= n - i => k >= n - i
        BY <1>1, <2>1, <3>4
      <4> QED BY <1>1, <2>2, <3>1, <3>2, <4>1 DEF n
    <3> QED BY <3>3, <3>4
  <2>5. CASE D[k] > D[k + 1]
    <3>1. /\ D' \in Seq(Int) /\ Len(D') = n
          /\ D'[k] = D[k + 1] /\ D'[k + 1] = D[k]
          /\ \A p \in 1..n : p # k /\ p # k + 1 => D'[p] = D[p]
      BY <1>1, <2>1, <2>5, SwappedIs DEF n
    <3>2. k + 1 <= n - i
      <4>1. k \in 1..n /\ k + 1 \in 1..n
        BY <1>1, <2>1
      <4>2. ~(k + 1 > n - i)
        BY <2>1, <2>2, <2>3, <2>5, <4>1
      <4> QED BY <1>1, <2>1, <4>2
    <3>3. \A p \in 1..k : D'[p] <= D'[k + 1]
      <4> TAKE p \in 1..k
      <4>1. CASE p = k
        BY <1>1, <2>1, <2>3, <2>5, <3>1, <4>1
      <4>2. CASE p # k
        <5>1. p \in 1..(k - 1) /\ p # k + 1 /\ p \in 1..n
          BY <1>1, <2>1, <4>2
        <5> QED BY <2>2, <3>1, <4>2, <5>1
      <4> QED BY <4>1, <4>2
    <3>4. ASSUME NEW p \in 1..n, NEW q \in 1..n, p < q, q > n - i
          PROVE  D'[p] <= D'[q]
      <4>1. q # k /\ q # k + 1 /\ k < q /\ k + 1 < q
        BY <1>1, <2>1, <3>2, <3>4
      <4>2. D'[q] = D[q]
        BY <3>1, <4>1
      <4>3. k \in 1..n /\ k + 1 \in 1..n
        BY <1>1, <2>1
      <4>4. D'[p] = D[p] \/ D'[p] = D[k] \/ D'[p] = D[k + 1]
        BY <3>1
      <4> QED BY <2>2, <3>4, <4>1, <4>2, <4>3, <4>4
    <3>5. ASSUME k + 1 >= n - i, NEW p \in 1..n, NEW q \in 1..n, p < q, q > n - (i + 1)
          PROVE  D'[p] <= D'[q]
      <4>1. q = k + 1 \/ q > n - i
        <5>1. k + 1 = n - i /\ n \in Int /\ i \in Int /\ q \in Int
          BY <1>1, <2>1, <3>2, <3>5
        <5> QED BY <3>5, <5>1
      <4>2. q = k + 1 => p \in 1..k
        BY <2>1, <3>5
      <4> QED BY <3>3, <3>4, <3>5, <4>1, <4>2
    <3> QED BY <3>1, <3>3, <3>4, <3>5
  <2> QED BY <1>1, <2>1, <2>3, <2>4, <2>5
<1>3. CASE NextPass
  <2>1. i < n /\ ~(j < n - 1) /\ i' = i + 1 /\ j' = 0 /\ UNCHANGED <<given, D>>
    BY <1>3 DEF NextPass, InnerGoesOn
  <2>2. InPlace(i + 1)
    BY <1>1, <2>1 DEF SortInv
  <2>3. n - (i + 1) - 1 <= 0 => InPlace(i + 2)
    BY <1>1, <2>1, <2>2 DEF InPlace, Positions
  <2> QED BY <1>1, <2>1, <2>2, <2>3 DEF SortInv, TypeOK, InPlace, Positions
<1>4. CASE UNCHANGED vars
  BY <1>4 DEF vars, SortInv, TypeOK, InPlace, Positions
<1> QED BY <1>2, <1>3, <1>4 DEF Next

\* The inductive invariant of the sort.
THEOREM SortInvariant == Spec => []SortInv
BY SortInit, SortStep, PTL DEF Spec

\* The box is in ascending order after the sort, for a list of any length.
THEOREM SortIsSorted == Spec => []AscendingWhenDone
<1>1. SortInv => AscendingWhenDone
  <2> SUFFICES ASSUME SortInv, Done PROVE Ascending(D)
    BY DEF AscendingWhenDone
  <2>1. D \in Seq(Int) /\ Len(D) - i = 0
    BY DEF SortInv, TypeOK, Done
  <2>2. \A p, q \in 1..Len(D) : p < q => D[p] <= D[q]
    BY <2>1 DEF SortInv, InPlace, Positions
  <2> QED BY <2>1, <2>2 DEF Ascending
<1> QED BY <1>1, SortInit, SortStep, PTL DEF Spec

\* The sort loses and repeats no line.
THEOREM SortKeepsLines == Spec => []SameLines
<1>1. Init => SameLines
  <2> SUFFICES ASSUME Init PROVE SameLines
    OBVIOUS
  <2> DEFINE f == [p \in Positions |-> p]
  <2>1. f \in [Positions -> Positions] /\ \A p \in Positions : D[p] = given[f[p]]
    BY DEF Init
  <2> QED BY <2>1 DEF SameLines
<1>2. SortInv /\ SameLines /\ [Next]_vars => SameLines'
  <2> SUFFICES ASSUME SortInv, SameLines, [Next]_vars PROVE SameLines'
    OBVIOUS
  <2>1. D \in Seq(Int) /\ Len(D) \in Nat /\ j \in Nat
    BY DEF SortInv, TypeOK
  <2>2. CASE UNCHANGED <<given, D>>
    BY <2>2 DEF SameLines, Positions
  <2>3. CASE Compare /\ D' # D
    <3>1. D' = Swapped(D, j + 1) /\ j + 1 \in 1..(Len(D) - 1) /\ given' = given
      BY <2>1, <2>3 DEF Compare, InnerGoesOn
    <3>2. PICK f \in [Positions -> Positions] :
            /\ \A p, q \in Positions : f[p] = f[q] => p = q
            /\ \A p \in Positions : D[p] = given[f[p]]
      BY DEF SameLines
    <3> DEFINE k == j + 1
               g == [p \in Positions |-> IF p = k THEN f[k + 1]
                                         ELSE IF p = k + 1 THEN f[k] ELSE f[p]]
    <3>3. k \in Positions /\ k + 1 \in Positions /\ k # k + 1 /\ Positions' = Positions
      BY <2>1, <3>1, SwappedIs DEF Positions
    <3>4. g \in [Positions -> Positions]
      BY <3>2, <3>3
    <3>5. \A p, q \in Positions : g[p] = g[q] => p = q
      BY <3>2, <3>3
    <3>6. ASSUME NEW p \in Positions PROVE D'[p] = given[g[p]]
      <4>1. /\ D'[k] = D[k + 1] /\ D'[k + 1] = D[k]
            /\ p # k /\ p # k + 1 => D'[p] = D[p]
        BY <2>1, <3>1, SwappedIs DEF Positions
      <4> HIDE DEF k
      <4> QED BY <3>2, <3>3, <4>1
    <3> HIDE DEF g
    <3> QED BY <3>1, <3>3, <3>4, <3>5, <3>6 DEF SameLines
  <2> QED BY <2>2, <2>3 DEF Next, Compare, NextPass, vars
<1> QED BY <1>1, <1>2, SortInit, SortStep, PTL DEF Spec
=============================================================================
