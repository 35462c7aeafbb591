------------------------ MODULE RoutePlannerProofs ------------------------
(***************************************************************************)
(* Proofs about the trip planner.                                          *)
(***************************************************************************)
EXTENDS RoutePlanner, TLAPS, FiniteSetTheorems, WellFoundedInduction

-----------------------------------------------------------------------------
(***************************************************************************)
(* Facts about the operators the model is built from.                      *)
(***************************************************************************)

\* A set of indices has a greatest element (the last call of a course at a
\* stop exists).
LEMMA GreatestInInterval ==
  ASSUME NEW n \in Nat, NEW T \in SUBSET (1..n), T # {}
  PROVE  \E m \in T : \A k \in T : k <= m
<1> DEFINE R == OpToRel(<, Nat)
           U == {n - m : m \in T}
<1> HIDE DEF R
<1>1. U \subseteq Nat /\ U # {}
  <2>1. \A m \in T : m \in Int /\ 1 <= m /\ m <= n
    OBVIOUS
  <2>2. \A m \in T : n - m \in Nat
    BY <2>1
  <2> QED BY <2>2
<1>2. IsWellFoundedOn(R, Nat)
  BY NatLessThanWellFounded DEF R
<1>3. PICK u \in U : \A v \in U : <<v, u>> \notin R
  <2> HIDE DEF U
  <2> QED BY <1>1, <1>2, WFMin
<1>4. \A v \in U : ~(v < u)
  BY <1>1, <1>3 DEF R, OpToRel
<1>5. PICK m \in T : u = n - m
  OBVIOUS
<1>6. ASSUME NEW k \in T PROVE k <= m
  <2>1. k \in Int /\ m \in Int
    OBVIOUS
  <2>2. n - k \in U /\ ~(n - k < n - m)
    BY <1>4, <1>5
  <2> QED BY <2>1, <2>2
<1> QED BY <1>6

\* LastCall returns a call at the stop, of the first n.
LEMMA LastCallIsThere ==
  ASSUME NEW calls \in Seq(Call), NEW n \in 1..Len(calls), NEW s,
         \E m \in 1..n : calls[m].id = s
  PROVE  /\ LastCall(calls, n, s) \in 1..n
         /\ calls[LastCall(calls, n, s)].id = s
<1> DEFINE T == {m \in 1..n : calls[m].id = s}
<1>1. PICK m \in T : \A k \in T : k <= m
  <2>1. n \in Nat /\ T \in SUBSET (1..n) /\ T # {}
    OBVIOUS
  <2> HIDE DEF T
  <2> QED BY <2>1, GreatestInInterval
<1>2. m \in 1..n /\ calls[m].id = s /\ \A k \in (m + 1)..n : calls[k].id # s
  BY <1>1
<1> QED BY <1>2 DEF LastCall

\* The list a search goes through is made of the lines it repeats, and has at
\* least one when it repeats one.
LEMMA RepeatedType ==
  ASSUME NEW S \in SUBSET Lines, NEW s \in Listings(S), NEW times \in Nat,
         S = {} => times = 0
  PROVE  /\ Repeated(s, times) \in Seq(Lines)
         /\ \A i \in DOMAIN Repeated(s, times) : Repeated(s, times)[i] \in S
         /\ times # 0 => 1 \in DOMAIN Repeated(s, times)
<1>1. IsFiniteSet(S) /\ Cardinality(S) \in Nat /\ (S = {} <=> Cardinality(S) = 0)
  BY LinesAssumption, FS_Subset, FS_CardinalityType, FS_EmptySet
<1> DEFINE k == Cardinality(S)
<1>2. s \in [1..k -> S] /\ Len(s) = k
  BY <1>1 DEF Listings
<1>3. k * times \in Nat /\ (times = 0 => k * times = 0) /\ (times # 0 => 1 <= k * times)
  BY <1>1
<1>4. ASSUME NEW i \in 1..(k * times) PROVE ((i - 1) % k) + 1 \in 1..k
  <2>1. times # 0 /\ k # 0
    BY <1>1, <1>3
  <2> QED BY <1>1, <2>1
<1>5. Repeated(s, times) = [i \in 1..(k * times) |-> s[((i - 1) % k) + 1]]
  BY <1>2 DEF Repeated
<1>6. \A i \in 1..(k * times) : s[((i - 1) % k) + 1] \in S
  BY <1>2, <1>4
<1> HIDE DEF k
<1> QED BY <1>3, <1>5, <1>6

\* The registers stay in their types, whatever the course calls at.
LEMMA AfterType ==
  ASSUME NEW r \in Registers, NEW calls \in Seq(Call), NEW j \in Kierunki,
         NEW n \in 0..Len(calls)
  PROVE  After(r, calls, j, n) \in Registers
<1>1. ASSUME NEW s, \E m \in 1..n : calls[m].id = s
      PROVE  calls[LastCall(calls, n, s)].l \in Nat
  <2>1. n \in 1..Len(calls)
    BY <1>1
  <2>2. LastCall(calls, n, s) \in 1..Len(calls)
    BY <1>1, <2>1, LastCallIsThere
  <2>3. calls[LastCall(calls, n, s)] \in Call
    BY <2>2
  <2> QED BY <2>3 DEF Call
<1> QED BY <1>1 DEF After, Registers

\* The registers go on holding calls of the line, read from its own course.
LEMMA AfterFromCalls ==
  ASSUME NEW line \in Lines, NEW r \in Registers, NEW j \in Kierunki,
         NEW n \in 0..Len(course[line][j]), FromCalls(line, r)
  PROVE  FromCalls(line, After(r, course[line][j], j, n))
<1> DEFINE calls == course[line][j]
           a == After(r, calls, j, n)
<1>1. calls \in Seq(Call) /\ j # 0
  BY CourseAssumption DEF Kierunki
<1>2. ASSUME NEW s, \E m \in 1..n : calls[m].id = s
      PROVE  \E m \in DOMAIN calls : /\ calls[m].id = s
                                     /\ calls[m].l = calls[LastCall(calls, n, s)].l
  <2>1. n \in 1..Len(calls)
    BY <1>2
  <2>2. LastCall(calls, n, s) \in DOMAIN calls /\ calls[LastCall(calls, n, s)].id = s
    BY <1>1, <1>2, <2>1, LastCallIsThere
  <2> QED BY <2>2
<1>3. /\ a.kierunek1 # 0 => \E m \in DOMAIN course[line][a.kierunek1] :
            /\ course[line][a.kierunek1][m].id = id1
            /\ course[line][a.kierunek1][m].l = a.indeks1
  <2>1. CASE \E m \in 1..n : calls[m].id = id1
    <3>1. a.kierunek1 = j /\ a.indeks1 = calls[LastCall(calls, n, id1)].l
      BY <2>1 DEF After
    <3> QED BY <1>2, <2>1, <3>1
  <2>2. CASE ~ \E m \in 1..n : calls[m].id = id1
    <3>1. a.kierunek1 = r.kierunek1 /\ a.indeks1 = r.indeks1
      BY <2>2 DEF After
    <3> QED BY <3>1 DEF FromCalls
  <2> QED BY <2>1, <2>2
<1>4. /\ a.kierunek2 # 0 => \E m \in DOMAIN course[line][a.kierunek2] :
            /\ course[line][a.kierunek2][m].id = id2
            /\ course[line][a.kierunek2][m].l = a.indeks2
  <2>1. CASE \E m \in 1..n : calls[m].id = id2
    <3>1. a.kierunek2 = j /\ a.indeks2 = calls[LastCall(calls, n, id2)].l
      BY <2>1 DEF After
    <3> QED BY <1>2, <2>1, <3>1
  <2>2. CASE ~ \E m \in 1..n : calls[m].id = id2
    <3>1. a.kierunek2 = r.kierunek2 /\ a.indeks2 = r.indeks2
      BY <2>2 DEF After
    <3> QED BY <3>1 DEF FromCalls
  <2> QED BY <2>1, <2>2
<1> HIDE DEF a
<1>5. FromCalls(line, a)
  BY <1>3, <1>4 DEF FromCalls
<1> QED BY <1>5 DEF a

-----------------------------------------------------------------------------
(***************************************************************************)
(* Type correctness, and D holds no line twice.                            *)
(***************************************************************************)

\* What 'Przystanki' leaves in the locals of its search: a list of lines that
\* both stops list, and one query of its first line at most per direction and loop.
LEMMA StopsAnsweredLists ==
  ASSUME TypeOK, NEW c \in Searches, StopsAnswered(c)
  PROVE  /\ C' \in [Searches -> Seq(Lines)]
         /\ \A b \in Searches \ {c} : C'[b] = C[b]
         /\ \A i \in DOMAIN C'[c] : C'[c][i] \in CommonLines
         /\ \E loops \in SUBSET Docs :
               /\ pending' = [pending EXCEPT ![c] = loops \X {1} \X Kierunki]
               /\ asleep' = [asleep EXCEPT ![c] = loops \X {2}]
               /\ loops # {} => 1 \in DOMAIN C'[c]
<1> DEFINE loops == IF CommonLines = {} THEN {} ELSE Starting
           k == Cardinality(loops)
<1>1. IsFiniteSet(loops) /\ k \in Nat /\ loops \subseteq Docs /\ (loops = {} <=> k = 0)
  <2>1. IsFiniteSet(Docs)
    BY StopDocsAssumption, FS_Interval DEF Docs
  <2>2. loops \subseteq Docs
    BY DEF Starting
  <2> HIDE DEF loops
  <2> QED BY <2>1, <2>2, FS_Subset, FS_CardinalityType, FS_EmptySet
<1>2. PICK s \in Listings(CommonLines) : C' = [C EXCEPT ![c] = Repeated(s, k)]
  BY DEF StopsAnswered
<1>3. /\ pending' = [pending EXCEPT ![c] = loops \X {1} \X Kierunki]
      /\ asleep' = [asleep EXCEPT ![c] = loops \X {2}]
  BY DEF StopsAnswered
<1>4. CommonLines \in SUBSET Lines /\ (CommonLines = {} => k = 0)
  <2>1. c \in stopsQuery
    BY DEF StopsAnswered
  <2>2. id1 \in Stops /\ id2 \in Stops
    BY <2>1 DEF TypeOK, Picked
  <2>3. CommonLines \in SUBSET Lines
    BY <2>2, LinieAssumption DEF CommonLines, Common
  <2> QED BY <1>1, <2>3
<1> HIDE DEF loops, k
<1>5. /\ Repeated(s, k) \in Seq(Lines)
      /\ \A i \in DOMAIN Repeated(s, k) : Repeated(s, k)[i] \in CommonLines
      /\ k # 0 => 1 \in DOMAIN Repeated(s, k)
  BY <1>1, <1>4, RepeatedType
<1>6. C'[c] = Repeated(s, k) /\ C' \in [Searches -> Seq(Lines)]
  BY <1>2, <1>5 DEF TypeOK
<1>7. \A b \in Searches \ {c} : C'[b] = C[b]
  BY <1>2 DEF TypeOK
<1> QED BY <1>1, <1>3, <1>5, <1>6, <1>7

THEOREM TypeInit == Init => TypeOK
<1> SUFFICES ASSUME Init PROVE TypeOK
  OBVIOUS
<1>1. Cleared \in Registers
  BY DEF Cleared, Registers
<1>2. << >> \in Seq(Lines)
  OBVIOUS
<1> QED BY <1>1, <1>2, PlannerAssumption DEF Init, TypeOK, NoLines, Searches, Picked

THEOREM TypeStep == TypeOK /\ [Next]_vars => TypeOK'
<1> SUFFICES ASSUME TypeOK, [Next]_vars PROVE TypeOK'
  OBVIOUS
<1> USE PlannerAssumption
<1>1. ASSUME NEW s \in Stops, PickFrom(s) PROVE TypeOK'
  <2>1. /\ calculateLines(s, id2)
        /\ id1' = s /\ UNCHANGED <<mounted, id2, C, reg, asleep, pending>>
    BY <1>1 DEF PickFrom, calculateLines
  <2>2. D' \in [Lines -> Nat]
    BY <2>1 DEF calculateLines, NoLines
  <2>3. /\ searches' \in 0..MaxSearches /\ stopsQuery' \subseteq Searches
        /\ stopsQuery' # {} => Picked'
    <3>0. s # NoStop
      OBVIOUS
    <3>1. \/ NoStop \in {s, id2} /\ UNCHANGED <<searches, stopsQuery>>
          \/ /\ NoStop \notin {s, id2} /\ searches < MaxSearches
             /\ searches' = searches + 1
             /\ stopsQuery' = stopsQuery \cup {searches + 1}
      BY <2>1 DEF calculateLines
    <3>2. CASE NoStop \in {s, id2} /\ UNCHANGED <<searches, stopsQuery>>
      BY <2>1, <3>0, <3>2 DEF TypeOK, Picked
    <3>3. CASE /\ NoStop \notin {s, id2} /\ searches < MaxSearches
               /\ searches' = searches + 1
               /\ stopsQuery' = stopsQuery \cup {searches + 1}
      <4>1. searches + 1 \in 1..MaxSearches
        BY <3>3 DEF TypeOK
      <4> QED BY <2>1, <3>3, <4>1 DEF TypeOK, Picked, Searches
    <3> QED BY <3>1, <3>2, <3>3 DEF Picked
  <2>5. id1' \in Stops \cup {NoStop} /\ id2' \in Stops \cup {NoStop}
    BY <2>1 DEF TypeOK
  <2> QED BY <2>1, <2>2, <2>3, <2>5 DEF TypeOK
<1>2. ASSUME NEW s \in Stops, PickTo(s) PROVE TypeOK'
  <2>1. /\ calculateLines(id1, s)
        /\ id2' = s /\ UNCHANGED <<mounted, id1, C, reg, asleep, pending>>
    BY <1>2 DEF PickTo, calculateLines
  <2>2. D' \in [Lines -> Nat]
    BY <2>1 DEF calculateLines, NoLines
  <2>3. /\ searches' \in 0..MaxSearches /\ stopsQuery' \subseteq Searches
        /\ stopsQuery' # {} => Picked'
    <3>0. s # NoStop
      OBVIOUS
    <3>1. \/ NoStop \in {id1, s} /\ UNCHANGED <<searches, stopsQuery>>
          \/ /\ NoStop \notin {id1, s} /\ searches < MaxSearches
             /\ searches' = searches + 1
             /\ stopsQuery' = stopsQuery \cup {searches + 1}
      BY <2>1 DEF calculateLines
    <3>2. CASE NoStop \in {id1, s} /\ UNCHANGED <<searches, stopsQuery>>
      BY <2>1, <3>0, <3>2 DEF TypeOK, Picked
    <3>3. CASE /\ NoStop \notin {id1, s} /\ searches < MaxSearches
               /\ searches' = searches + 1
               /\ stopsQuery' = stopsQuery \cup {searches + 1}
      <4>1. searches + 1 \in 1..MaxSearches
        BY <3>3 DEF TypeOK
      <4> QED BY <2>1, <3>3, <4>1 DEF TypeOK, Picked, Searches
    <3> QED BY <3>1, <3>2, <3>3 DEF Picked
  <2>5. id1' \in Stops \cup {NoStop} /\ id2' \in Stops \cup {NoStop}
    BY <2>1 DEF TypeOK
  <2> QED BY <2>1, <2>2, <2>3, <2>5 DEF TypeOK
<1>3. CASE dispose
  BY <1>3 DEF dispose, TypeOK, locals, Picked
<1>4. ASSUME NEW c \in Searches, StopsAnswered(c) PROVE TypeOK'
  <2>1. /\ C' \in [Searches -> Seq(Lines)]
        /\ \A b \in Searches \ {c} : C'[b] = C[b]
    BY <1>4, StopsAnsweredLists
  <2>2. PICK loops \in SUBSET Docs :
               /\ pending' = [pending EXCEPT ![c] = loops \X {1} \X Kierunki]
               /\ asleep' = [asleep EXCEPT ![c] = loops \X {2}]
               /\ loops # {} => 1 \in DOMAIN C'[c]
    BY <1>4, StopsAnsweredLists
  <2>3. /\ stopsQuery' = stopsQuery \ {c}
        /\ UNCHANGED <<mounted, id1, id2, D, searches, reg>>
    BY <1>4 DEF StopsAnswered, picks
  <2>4. /\ pending' \in [Searches -> SUBSET (Docs \X Nat \X Kierunki)]
        /\ asleep' \in [Searches -> SUBSET (Docs \X Nat)]
    BY <2>2 DEF TypeOK
  <2>5. \A b \in Searches : \A q \in pending'[b] : q[2] \in DOMAIN C'[b]
    <3> TAKE b \in Searches
    <3> TAKE q \in pending'[b]
    <3>1. CASE b = c
      <4>1. q \in loops \X {1} \X Kierunki
        BY <2>2, <3>1 DEF TypeOK
      <4>2. q[2] = 1 /\ loops # {}
        BY <4>1
      <4> QED BY <2>2, <3>1, <4>2
    <3>2. CASE b # c
      BY <2>1, <2>2, <3>2 DEF TypeOK
    <3> QED BY <3>1, <3>2
  <2> QED BY <2>1, <2>3, <2>4, <2>5 DEF TypeOK, Picked
<1>5. ASSUME NEW c \in Searches, NEW t \in asleep[c], NextLine(c, t) PROVE TypeOK'
  <2>1. t \in Docs \X Nat /\ t[2] \in DOMAIN C[c]
    BY <1>5 DEF NextLine, HasLine, TypeOK
  <2>2. Cleared \in Registers
    BY DEF Cleared, Registers
  <2>3. {t[1]} \X {t[2]} \X Kierunki \subseteq Docs \X Nat \X Kierunki
    BY <2>1
  <2>4. \A b \in Searches : \A q \in pending'[b] : q[2] \in DOMAIN C'[b]
    BY <1>5, <2>1 DEF NextLine, TypeOK
  <2>5. Advanced(t) \in Docs \X Nat
    BY <2>1 DEF Advanced
  <2> QED BY <1>5, <2>2, <2>3, <2>4, <2>5 DEF NextLine, Reset, TypeOK, picks, Picked
<1>6. ASSUME NEW c \in Searches, NEW t \in asleep[c], LoopEnds(c, t) PROVE TypeOK'
  BY <1>6 DEF LoopEnds, TypeOK, picks, Picked
<1>7. ASSUME NEW c \in Searches, NEW q \in pending[c], CourseAnswered(c, q)
      PROVE  TypeOK'
  <2> DEFINE line == C[c][q[2]]
             calls == course[line][q[3]]
  <2>1. line \in Lines /\ q[3] \in Kierunki
    BY DEF TypeOK
  <2>2. calls \in Seq(Call) /\ Len(calls) \in 0..Len(calls)
    BY <2>1, CourseAssumption
  <2>3. After(reg[c], calls, q[3], Len(calls)) \in Registers
    BY <2>1, <2>2, AfterType DEF TypeOK
  <2>4. reg' \in [Searches -> Registers]
    BY <1>7, <2>3 DEF CourseAnswered, TypeOK
  <2>5. D' \in [Lines -> Nat]
    BY <1>7, <2>1 DEF CourseAnswered, Including, TypeOK
  <2>6. pending' \in [Searches -> SUBSET (Docs \X Nat \X Kierunki)]
    BY <1>7 DEF CourseAnswered, TypeOK
  <2> QED BY <1>7, <2>4, <2>5, <2>6 DEF CourseAnswered, TypeOK, picks, Picked
<1>8. ASSUME NEW c \in Searches, StopsLost(c) PROVE TypeOK'
  BY <1>8 DEF StopsLost, TypeOK, picks, Picked
<1>9. ASSUME NEW c \in Searches, NEW q \in pending[c], CourseLost(c, q) PROVE TypeOK'
  BY <1>9 DEF CourseLost, TypeOK, picks, Picked
<1>10. CASE UNCHANGED vars
  BY <1>10 DEF vars, picks, locals, TypeOK, Picked
<1> QED BY <1>1, <1>2, <1>3, <1>4, <1>5, <1>6, <1>7, <1>8, <1>9, <1>10
        DEF Next, User, Background, Loss

THEOREM TypeCorrect == Spec => []TypeOK
BY TypeInit, TypeStep, PTL DEF Spec

\* D holds no line twice, whatever the network and the user do: the test and
\* the addition are one step, and D is only ever cleared otherwise.
THEOREM NoLineTwiceStep == TypeOK /\ NoLineTwice /\ [Next]_vars => NoLineTwice'
<1> SUFFICES ASSUME TypeOK, NoLineTwice, [Next]_vars PROVE NoLineTwice'
  OBVIOUS
<1>1. ASSUME NEW s \in Stops, PickFrom(s) \/ PickTo(s) PROVE NoLineTwice'
  BY <1>1 DEF PickFrom, PickTo, calculateLines, NoLineTwice, NoLines
<1>2. ASSUME NEW c \in Searches, NEW q \in pending[c], CourseAnswered(c, q)
      PROVE  NoLineTwice'
  <2>1. PICK line \in Lines : D' = Including(line) \/ D' = D
    BY <1>2 DEF CourseAnswered, TypeOK
  <2> QED BY <2>1 DEF Including, TypeOK, NoLineTwice
<1>3. ASSUME UNCHANGED D PROVE NoLineTwice'
  BY <1>3 DEF NoLineTwice
<1>4. CASE dispose \/ UNCHANGED vars
  BY <1>3, <1>4 DEF dispose, vars
<1>5. ASSUME NEW c \in Searches,
             \/ StopsAnswered(c) \/ StopsLost(c)
             \/ \E t \in asleep[c] : NextLine(c, t) \/ LoopEnds(c, t)
             \/ \E q \in pending[c] : CourseLost(c, q)
      PROVE  NoLineTwice'
  BY <1>3, <1>5 DEF StopsAnswered, StopsLost, NextLine, LoopEnds, CourseLost
<1> QED BY <1>1, <1>2, <1>4, <1>5 DEF Next, User, Background, Loss

THEOREM PlannerNoLineTwice == Spec => []NoLineTwice
<1>1. Init => NoLineTwice
  BY DEF Init, NoLines, NoLineTwice
<1> QED BY <1>1, TypeCorrect, NoLineTwiceStep, PTL DEF Spec

-----------------------------------------------------------------------------
(***************************************************************************)
(* If no stop is picked during a search, the box only shows lines that     *)
(* both stops list, however late or out of order the answers come.         *)
(***************************************************************************)

\* An answer can only add a line that the search goes through.
LEMMA AnswerAdds ==
  ASSUME TypeOK, NEW c \in Searches, NEW q \in pending[c], CourseAnswered(c, q)
  PROVE  /\ C[c][q[2]] \in Lines
         /\ Shown' \subseteq Shown \cup {C[c][q[2]]}
         /\ UNCHANGED <<mounted, id1, id2>>
<1>1. C[c][q[2]] \in Lines
  BY DEF TypeOK
<1>2. D' = Including(C[c][q[2]]) \/ D' = D
  BY DEF CourseAnswered
<1>3. UNCHANGED <<mounted, id1, id2>>
  BY DEF CourseAnswered, picks
<1> QED BY <1>1, <1>2, <1>3 DEF Shown, Including, TypeOK

\* A press clears the box, and nothing is under way if the user waits.
LEMMA PickClears ==
  ASSUME UserWaits, NEW s \in Stops, PickFrom(s) \/ PickTo(s)
  PROVE  Shown' = {} /\ \A c \in Searches : ~Going(c) /\ ~Going(c)'
<1>1. \A line \in Lines : D'[line] = 0
  BY DEF PickFrom, PickTo, calculateLines, NoLines
<1>2. Idle /\ UNCHANGED <<asleep, pending>>
  BY DEF PickFrom, PickTo, calculateLines
<1> QED BY <1>1, <1>2 DEF Shown, Idle, Going

THEOREM ServesStep ==
  ASSUME UserWaits, TypeOK, SearchesForPicks, ShownServesBoth, [Next]_vars
  PROVE  SearchesForPicks' /\ ShownServesBoth'
<1>1. ASSUME NEW s \in Stops, PickFrom(s) \/ PickTo(s)
      PROVE  SearchesForPicks' /\ ShownServesBoth'
  BY <1>1, PickClears DEF SearchesForPicks, ShownServesBoth
<1>2. ASSUME NEW c \in Searches, StopsAnswered(c)
      PROVE  SearchesForPicks' /\ ShownServesBoth'
  <2>1. Picked /\ UNCHANGED <<mounted, id1, id2, D>>
    BY <1>2 DEF StopsAnswered, TypeOK, picks
  <2>3. \A i \in DOMAIN C'[c] : C'[c][i] \in CommonLines
    BY <1>2, StopsAnsweredLists
  <2>4. \A b \in Searches \ {c} : C'[b] = C[b] /\ Going(b)' = Going(b)
    BY <1>2 DEF StopsAnswered, TypeOK, Going
  <2>5. SearchesForPicks'
    BY <2>1, <2>3, <2>4 DEF SearchesForPicks, CommonLines, Picked
  <2> QED BY <2>1, <2>5 DEF ShownServesBoth, Shown, Picked
<1>3. ASSUME NEW c \in Searches, NEW q \in pending[c], CourseAnswered(c, q)
      PROVE  SearchesForPicks' /\ ShownServesBoth'
  <2>1. Going(c) /\ UNCHANGED <<C, asleep>>
    BY <1>3 DEF Going, CourseAnswered
  <2>2. Picked /\ C[c][q[2]] \in Common(id1, id2)
    BY <2>1 DEF SearchesForPicks, TypeOK
  <2>3. \A b \in Searches : Going(b)' => Going(b)
    BY <1>3 DEF CourseAnswered, Going, TypeOK
  <2>4. UNCHANGED <<mounted, id1, id2>> /\ Shown' \subseteq Shown \cup {C[c][q[2]]}
    BY <1>3, AnswerAdds
  <2> QED BY <2>1, <2>2, <2>3, <2>4 DEF SearchesForPicks, ShownServesBoth, Picked
<1>4. ASSUME UNCHANGED <<id1, id2, D, C>>, \A c \in Searches : Going(c)' => Going(c)
      PROVE  SearchesForPicks' /\ ShownServesBoth'
  BY <1>4 DEF SearchesForPicks, ShownServesBoth, Shown, Picked
<1>5. CASE dispose \/ UNCHANGED vars
  BY <1>4, <1>5 DEF dispose, vars, picks, locals, Going
<1>6. ASSUME NEW c \in Searches, NEW t \in asleep[c], NextLine(c, t) \/ LoopEnds(c, t)
      PROVE  SearchesForPicks' /\ ShownServesBoth'
  <2>1. \A b \in Searches : Going(b)' => Going(b)
    BY <1>6 DEF NextLine, LoopEnds, Going, TypeOK
  <2> QED BY <1>4, <1>6, <2>1 DEF NextLine, LoopEnds, picks
<1>7. ASSUME NEW c \in Searches, StopsLost(c) PROVE SearchesForPicks' /\ ShownServesBoth'
  BY <1>4, <1>7 DEF StopsLost, picks, Going
<1>8. ASSUME NEW c \in Searches, NEW q \in pending[c], CourseLost(c, q)
      PROVE  SearchesForPicks' /\ ShownServesBoth'
  <2>1. \A b \in Searches : Going(b)' => Going(b)
    BY <1>8 DEF CourseLost, Going, TypeOK
  <2> QED BY <1>4, <1>8, <2>1 DEF CourseLost, picks
<1> QED BY <1>1, <1>2, <1>3, <1>5, <1>6, <1>7, <1>8 DEF Next, User, Background, Loss

THEOREM PlannerShownServesBoth ==
  ASSUME UserWaits
  PROVE  Spec => []ShownServesBoth
<1>1. Init => SearchesForPicks /\ ShownServesBoth
  BY DEF Init, NoLines, SearchesForPicks, ShownServesBoth, Shown, Going
<1>2. TypeOK /\ (SearchesForPicks /\ ShownServesBoth) /\ [Next]_vars
        => (SearchesForPicks /\ ShownServesBoth)'
  BY ServesStep
<1> QED BY <1>1, <1>2, TypeCorrect, PTL DEF Spec

-----------------------------------------------------------------------------
(***************************************************************************)
(* If moreover every answer comes before the next timer, the box shows     *)
(* direct lines only: the registers never mix two lines.                   *)
(***************************************************************************)

\* A search that is not answered has fresh locals, whatever the user does.
THEOREM FreshStep ==
  ASSUME TypeOK, FreshLocals, [Next]_vars
  PROVE  FreshLocals'
<1>1. ASSUME NEW s \in Stops, PickFrom(s) \/ PickTo(s) PROVE FreshLocals'
  <2>1. /\ UNCHANGED <<asleep, pending, reg>>
        /\ \/ UNCHANGED <<searches, stopsQuery>>
           \/ /\ searches' = searches + 1
              /\ stopsQuery' = stopsQuery \cup {searches + 1}
              /\ searches + 1 \in Searches
    BY <1>1, PlannerAssumption
       DEF PickFrom, PickTo, calculateLines, TypeOK, Searches
  <2>2. searches \in Nat /\ \A c \in Searches : c \in Int /\ Going(c)' = Going(c)
    BY <2>1 DEF TypeOK, Searches, Going
  <2>3. CASE UNCHANGED <<searches, stopsQuery>>
    BY <2>1, <2>2, <2>3 DEF FreshLocals
  <2>4. CASE /\ searches' = searches + 1
             /\ stopsQuery' = stopsQuery \cup {searches + 1}
    <3>1. \A c \in stopsQuery : c \in Int /\ c <= searches
      BY <2>2 DEF FreshLocals, TypeOK
    <3>2. \A c \in stopsQuery' : c <= searches'
      BY <2>2, <2>4, <3>1
    <3>3. \A c \in Searches : c \in stopsQuery' \/ searches' < c
                                => c \in stopsQuery \/ searches < c
      BY <2>2, <2>4
    <3> QED BY <2>1, <2>2, <3>2, <3>3 DEF FreshLocals
  <2> QED BY <2>1, <2>3, <2>4
<1>2. ASSUME NEW c \in Searches, StopsAnswered(c) PROVE FreshLocals'
  <2>1. c <= searches /\ c \in Int /\ searches \in Int
    BY <1>2 DEF StopsAnswered, FreshLocals, TypeOK, Searches
  <2>2. /\ stopsQuery' = stopsQuery \ {c}
        /\ UNCHANGED <<searches, reg>>
        /\ \A b \in Searches \ {c} : Going(b)' = Going(b)
    BY <1>2 DEF StopsAnswered, TypeOK, Going
  <2> QED BY <2>1, <2>2 DEF FreshLocals, TypeOK, Searches
<1>3. ASSUME NEW c \in Searches, Going(c), UNCHANGED <<searches, stopsQuery>>,
             \A b \in Searches \ {c} : Going(b)' = Going(b) /\ reg'[b] = reg[b]
      PROVE  FreshLocals'
  BY <1>3 DEF FreshLocals, TypeOK
<1>4. ASSUME NEW c \in Searches, NEW t \in asleep[c], NextLine(c, t) \/ LoopEnds(c, t)
      PROVE  FreshLocals'
  <2>1. /\ Going(c) /\ UNCHANGED <<searches, stopsQuery>>
        /\ \A b \in Searches \ {c} : Going(b)' = Going(b) /\ reg'[b] = reg[b]
    BY <1>4 DEF NextLine, LoopEnds, Going, TypeOK
  <2> QED BY <1>3, <2>1
<1>5. ASSUME NEW c \in Searches, NEW q \in pending[c],
             CourseAnswered(c, q) \/ CourseLost(c, q)
      PROVE  FreshLocals'
  <2>1. /\ Going(c) /\ UNCHANGED <<searches, stopsQuery>>
        /\ \A b \in Searches \ {c} : Going(b)' = Going(b) /\ reg'[b] = reg[b]
    BY <1>5 DEF CourseAnswered, CourseLost, Going, TypeOK
  <2> QED BY <1>3, <2>1
<1>6. ASSUME NEW c \in Searches, StopsLost(c) PROVE FreshLocals'
  BY <1>6 DEF StopsLost, FreshLocals, TypeOK, Going
<1>7. CASE dispose \/ UNCHANGED vars
  BY <1>7 DEF dispose, vars, picks, locals, FreshLocals, Going
<1> QED BY <1>1, <1>2, <1>4, <1>5, <1>6, <1>7 DEF Next, User, Background, Loss

\* All that is asked when a loop goes on to its next line is that line.
THEOREM OneLineStep ==
  ASSUME Lag = 0, TypeOK, OneLineAtATime, [Next]_vars
  PROVE  OneLineAtATime'
<1>1. ASSUME UNCHANGED <<asleep, pending>> PROVE OneLineAtATime'
  BY <1>1 DEF OneLineAtATime
<1>2. ASSUME NEW s \in Stops, PickFrom(s) \/ PickTo(s) PROVE OneLineAtATime'
  BY <1>1, <1>2 DEF PickFrom, PickTo, calculateLines
<1>3. ASSUME NEW c \in Searches, StopsAnswered(c) PROVE OneLineAtATime'
  <2>1. PICK loops \in SUBSET Docs :
          /\ pending' = [pending EXCEPT ![c] = loops \X {1} \X Kierunki]
          /\ asleep' = [asleep EXCEPT ![c] = loops \X {2}]
    BY <1>3, StopsAnsweredLists
  <2>2. /\ \A q \in pending'[c] : q[2] = 1
        /\ \A t \in asleep'[c] : t[2] = 2
        /\ \A b \in Searches \ {c} : pending'[b] = pending[b] /\ asleep'[b] = asleep[b]
    BY <2>1 DEF TypeOK
  <2> QED BY <2>2 DEF OneLineAtATime
<1>4. ASSUME NEW c \in Searches, NEW t \in asleep[c], NextLine(c, t)
      PROVE  OneLineAtATime'
  <2>1. /\ pending' = [pending EXCEPT ![c] = @ \cup ({t[1]} \X {t[2]} \X Kierunki)]
        /\ asleep' = [asleep EXCEPT ![c] = (@ \ {t}) \cup {Advanced(t)}]
    BY <1>4 DEF NextLine
  <2>2. /\ \A u \in asleep[c] : u[2] \in Nat /\ t[2] <= u[2]
        /\ \A q \in pending[c] : q[2] \in Nat /\ t[2] <= q[2]
    <3>1. /\ \A u \in asleep[c] : t[2] < u[2] \/ (t[2] = u[2] /\ t[1] <= u[1])
          /\ \A q \in pending[c] : t[2] <= q[2] + Lag
      BY <1>4 DEF NextLine, Wake, FirstToWake
    <3>2. /\ \A u \in asleep[c] : u[2] \in Nat
          /\ \A q \in pending[c] : q[2] \in Nat
      BY DEF TypeOK
    <3> QED BY <3>1, <3>2
  <2>3. \A q \in pending[c] : q[2] = t[2]
    BY <2>2 DEF OneLineAtATime
  <2>4. \A q \in pending'[c] : q[2] = t[2]
    BY <2>1, <2>3 DEF TypeOK
  <2>5. \A u \in asleep'[c] : t[2] <= u[2]
    BY <2>1, <2>2 DEF Advanced, TypeOK
  <2>6. \A b \in Searches \ {c} : pending'[b] = pending[b] /\ asleep'[b] = asleep[b]
    BY <2>1 DEF TypeOK
  <2> QED BY <2>4, <2>5, <2>6 DEF OneLineAtATime
<1>5. ASSUME \A c \in Searches : pending'[c] \subseteq pending[c] /\ asleep'[c] \subseteq asleep[c]
      PROVE  OneLineAtATime'
  BY <1>5 DEF OneLineAtATime
<1>6. ASSUME NEW c \in Searches, NEW t \in asleep[c], LoopEnds(c, t)
      PROVE  OneLineAtATime'
  BY <1>5, <1>6 DEF LoopEnds, TypeOK
<1>7. ASSUME NEW c \in Searches, NEW q \in pending[c],
             CourseAnswered(c, q) \/ CourseLost(c, q)
      PROVE  OneLineAtATime'
  BY <1>5, <1>7 DEF CourseAnswered, CourseLost, TypeOK
<1>8. ASSUME NEW c \in Searches, StopsLost(c) PROVE OneLineAtATime'
  BY <1>1, <1>8 DEF StopsLost
<1>9. CASE dispose \/ UNCHANGED vars
  BY <1>1, <1>9 DEF dispose, vars, locals
<1> QED BY <1>2, <1>3, <1>4, <1>6, <1>7, <1>8, <1>9 DEF Next, User, Background, Loss

THEOREM RegistersStep ==
  ASSUME UserWaits, TypeOK, FreshLocals, OneLineAtATime, OneLineAtATime',
         RegistersOfLine, [Next]_vars
  PROVE  RegistersOfLine'
<1>1. ASSUME NEW s \in Stops, PickFrom(s) \/ PickTo(s) PROVE RegistersOfLine'
  BY <1>1, PickClears DEF RegistersOfLine, Going
<1>2. ASSUME NEW b \in Searches, NEW p \in pending'[b], NEW line,
             C'[b][p[2]] = line, reg'[b] = Cleared
      PROVE  FromCalls(C[b][p[2]], reg[b])'
  BY <1>2 DEF FromCalls, Cleared
<1>10. ASSUME NEW b \in Searches, NEW p \in pending[b],
             UNCHANGED <<id1, id2>>, C'[b] = C[b], reg'[b] = reg[b]
      PROVE  FromCalls(C[b][p[2]], reg[b])'
  BY <1>10 DEF RegistersOfLine, FromCalls
<1>3. ASSUME NEW c \in Searches, StopsAnswered(c) PROVE RegistersOfLine'
  <2>1. /\ UNCHANGED <<id1, id2, reg>>
        /\ \A b \in Searches \ {c} : C'[b] = C[b] /\ pending'[b] = pending[b]
    BY <1>3, StopsAnsweredLists DEF StopsAnswered, TypeOK, picks
  <2>2. reg[c] = Cleared
    BY <1>3 DEF StopsAnswered, FreshLocals
  <2> SUFFICES ASSUME NEW b \in Searches, NEW p \in pending'[b]
               PROVE  FromCalls(C[b][p[2]], reg[b])'
    BY DEF RegistersOfLine
  <2>3. CASE b = c
    BY <1>2, <2>1, <2>2, <2>3
  <2>4. CASE b # c
    BY <1>10, <2>1, <2>4
  <2> QED BY <2>3, <2>4
<1>4. ASSUME NEW c \in Searches, NEW t \in asleep[c], NextLine(c, t)
      PROVE  RegistersOfLine'
  <2>1. /\ UNCHANGED <<id1, id2, C>> /\ reg'[c] = Cleared
        /\ \A b \in Searches \ {c} : reg'[b] = reg[b] /\ pending'[b] = pending[b]
    BY <1>4 DEF NextLine, Reset, TypeOK, picks
  <2> SUFFICES ASSUME NEW b \in Searches, NEW p \in pending'[b]
               PROVE  FromCalls(C[b][p[2]], reg[b])'
    BY DEF RegistersOfLine
  <2>2. CASE b = c
    BY <1>2, <2>1, <2>2
  <2>3. CASE b # c
    BY <1>10, <2>1, <2>3
  <2> QED BY <2>2, <2>3
<1>5. ASSUME NEW c \in Searches, NEW q \in pending[c], CourseAnswered(c, q)
      PROVE  RegistersOfLine'
  <2> DEFINE line == C[c][q[2]]
             n == Len(course[line][q[3]])
             r == After(reg[c], course[line][q[3]], q[3], n)
  <2>1. line \in Lines /\ q[3] \in Kierunki /\ reg[c] \in Registers
    BY DEF TypeOK
  <2>2. n \in 0..n
    BY <2>1, CourseAssumption
  <2>3. FromCalls(line, reg[c])
    BY DEF RegistersOfLine
  <2>4. FromCalls(line, r)
    BY <2>1, <2>2, <2>3, AfterFromCalls
  <2>5. /\ UNCHANGED <<id1, id2, C>> /\ reg' = [reg EXCEPT ![c] = r]
        /\ pending' = [pending EXCEPT ![c] = @ \ {q}]
    BY <1>5 DEF CourseAnswered, picks
  <2>6. \A p \in pending'[c] : C'[c][p[2]] = line
    BY <2>5 DEF OneLineAtATime, TypeOK
  <2> SUFFICES ASSUME NEW b \in Searches, NEW p \in pending'[b]
               PROVE  FromCalls(C[b][p[2]], reg[b])'
    BY DEF RegistersOfLine
  <2>7. CASE b = c
    <3>1. C'[b][p[2]] = line /\ reg'[b] = r
      BY <2>5, <2>6, <2>7 DEF TypeOK
    <3> HIDE DEF line, r
    <3> QED BY <2>4, <2>5, <3>1 DEF FromCalls
  <2>8. CASE b # c
    <3>1. p \in pending[b] /\ reg'[b] = reg[b]
      BY <2>5, <2>8 DEF TypeOK
    <3> QED BY <1>10, <2>5, <3>1
  <2> QED BY <2>7, <2>8
<1>6. ASSUME UNCHANGED <<id1, id2, C, reg>>,
             \A c \in Searches : pending'[c] \subseteq pending[c]
      PROVE  RegistersOfLine'
  BY <1>6 DEF RegistersOfLine, FromCalls
<1>7. ASSUME NEW c \in Searches, NEW t \in asleep[c], LoopEnds(c, t)
      PROVE  RegistersOfLine'
  BY <1>6, <1>7 DEF LoopEnds, picks
<1>8. ASSUME NEW c \in Searches, StopsLost(c) \/ \E q \in pending[c] : CourseLost(c, q)
      PROVE  RegistersOfLine'
  BY <1>6, <1>8 DEF StopsLost, CourseLost, picks, TypeOK
<1>9. CASE dispose \/ UNCHANGED vars
  BY <1>6, <1>9 DEF dispose, vars, picks, locals
<1> QED BY <1>1, <1>3, <1>4, <1>5, <1>7, <1>8, <1>9 DEF Next, User, Background, Loss

\* The test lets a line in on the strength of two calls of its course.
LEMMA MatchIsDirect ==
  ASSUME NEW line \in Common(id1, id2), NEW r \in Registers, FromCalls(line, r), Matches(r)
  PROVE  line \in DirectLines(id1, id2)
<1>1. r.kierunek1 \in Kierunki /\ r.kierunek2 = r.kierunek1 /\ r.indeks1 \in Nat
  BY DEF Matches, Registers
<1>2. RunsInOrder(line, r.kierunek1, id1, id2)
  BY <1>1 DEF Matches, FromCalls, RunsInOrder, Kierunki
<1> QED BY <1>1, <1>2 DEF DirectLines

\* An answer adds nothing, or one direct line.
LEMMA AnswerAddsDirect ==
  ASSUME TypeOK, SearchesForPicks, RegistersOfLine,
         NEW c \in Searches, NEW q \in pending[c], CourseAnswered(c, q)
  PROVE  /\ Picked
         /\ UNCHANGED <<mounted, id1, id2>>
         /\ \/ D' = D
            \/ \E line \in DirectLines(id1, id2) :
                  line \in Lines \ Shown /\ D' = [D EXCEPT ![line] = 1]
<1> DEFINE line == C[c][q[2]]
           calls == course[line][q[3]]
<1>1. /\ line \in Lines /\ q[3] \in Kierunki /\ reg[c] \in Registers
      /\ calls \in Seq(Call) /\ D \in [Lines -> Nat]
  BY CourseAssumption DEF TypeOK
<1>2. Picked /\ line \in Common(id1, id2)
  BY DEF SearchesForPicks, Going, TypeOK
<1>3. ASSUME NEW n \in 1..Len(calls), Matches(After(reg[c], calls, q[3], n))
      PROVE  line \in DirectLines(id1, id2)
  <2>1. n \in 0..Len(calls) /\ FromCalls(line, reg[c])
    BY <1>1 DEF RegistersOfLine
  <2>2. /\ After(reg[c], calls, q[3], n) \in Registers
        /\ FromCalls(line, After(reg[c], calls, q[3], n))
    BY <1>1, <2>1, AfterType, AfterFromCalls
  <2> HIDE DEF line, calls
  <2> QED BY <1>2, <1>3, <2>2, MatchIsDirect
<1>4. D' = D \/ (line \in DirectLines(id1, id2) /\ D' = Including(line))
  BY <1>3 DEF CourseAnswered
<1>5. Including(line) = D \/ (line \notin Shown /\ Including(line) = [D EXCEPT ![line] = 1])
  <2> HIDE DEF line
  <2>1. CASE D[line] = 0
    <3>1. [D EXCEPT ![line] = @ + 1] = [D EXCEPT ![line] = 1]
      BY <2>1
    <3> QED BY <2>1, <3>1 DEF Including, Shown
  <2>2. CASE D[line] # 0
    BY <2>2 DEF Including
  <2> QED BY <2>1, <2>2
<1>6. UNCHANGED <<mounted, id1, id2>>
  BY DEF CourseAnswered, picks
<1> HIDE DEF line
<1> QED BY <1>1, <1>2, <1>4, <1>5, <1>6

THEOREM DirectStep ==
  ASSUME UserWaits, TypeOK, SearchesForPicks, RegistersOfLine, ShownIsDirect, [Next]_vars
  PROVE  ShownIsDirect'
<1>1. ASSUME NEW s \in Stops, PickFrom(s) \/ PickTo(s) PROVE ShownIsDirect'
  BY <1>1, PickClears DEF ShownIsDirect
<1>2. ASSUME UNCHANGED <<id1, id2, D>> PROVE ShownIsDirect'
  BY <1>2 DEF ShownIsDirect, Shown, Picked
<1>3. ASSUME NEW c \in Searches, NEW q \in pending[c], CourseAnswered(c, q)
      PROVE  ShownIsDirect'
  <2>1. CASE D' = D
    BY <1>2, <1>3, <2>1, AnswerAddsDirect
  <2>2. ASSUME NEW line \in DirectLines(id1, id2), D' = [D EXCEPT ![line] = 1]
        PROVE  ShownIsDirect'
    <3>1. Shown' \subseteq Shown \cup {line}
      BY <2>2 DEF Shown, TypeOK
    <3> QED BY <1>3, <2>2, <3>1, AnswerAddsDirect DEF ShownIsDirect, Picked
  <2> QED BY <1>3, <2>1, <2>2, AnswerAddsDirect
<1>4. ASSUME NEW c \in Searches,
             \/ StopsAnswered(c) \/ StopsLost(c)
             \/ \E t \in asleep[c] : NextLine(c, t) \/ LoopEnds(c, t)
             \/ \E q \in pending[c] : CourseLost(c, q)
      PROVE  ShownIsDirect'
  BY <1>2, <1>4 DEF StopsAnswered, StopsLost, NextLine, LoopEnds, CourseLost, picks
<1>5. CASE dispose \/ UNCHANGED vars
  BY <1>2, <1>5 DEF dispose, vars, picks
<1> QED BY <1>1, <1>3, <1>4, <1>5 DEF Next, User, Background, Loss

THEOREM DirectInvariant ==
  ASSUME UserWaits, Lag = 0
  PROVE  Spec => []DirectInv
<1>1. Init => DirectInv
  <2>1. Init => TypeOK
    BY TypeInit
  <2> QED BY <2>1 DEF Init, NoLines, SearchesForPicks, ShownServesBoth, FreshLocals, Searches,
                      OneLineAtATime, RegistersOfLine, ShownIsDirect, Shown, Going, DirectInv
<1>2. DirectInv /\ [Next]_vars => DirectInv'
  <2> SUFFICES ASSUME DirectInv, [Next]_vars PROVE DirectInv'
    OBVIOUS
  <2>0. /\ TypeOK /\ SearchesForPicks /\ ShownServesBoth /\ FreshLocals
        /\ OneLineAtATime /\ RegistersOfLine /\ ShownIsDirect
    BY DEF DirectInv
  <2>1. TypeOK'
    BY <2>0, TypeStep
  <2>2. SearchesForPicks' /\ ShownServesBoth'
    BY <2>0, ServesStep
  <2>3. FreshLocals' /\ OneLineAtATime'
    BY <2>0, FreshStep, OneLineStep
  <2>4. RegistersOfLine'
    BY <2>0, <2>3, RegistersStep
  <2>5. ShownIsDirect'
    BY <2>0, DirectStep
  <2> QED BY <2>1, <2>2, <2>3, <2>4, <2>5 DEF DirectInv
<1> QED BY <1>1, <1>2, PTL DEF Spec

THEOREM PlannerShownIsDirect ==
  ASSUME UserWaits, Lag = 0
  PROVE  Spec => []ShownIsDirect
<1>1. DirectInv => ShownIsDirect
  BY DEF DirectInv
<1> QED BY <1>1, DirectInvariant, PTL

\* Under the same two assumptions every step of the page is one the abstract
\* specification allows, or one it does not see (its liveness is left to TLC).
THEOREM PlannerImplementsRouteSearch ==
  ASSUME UserWaits, Lag = 0
  PROVE  Spec => Promised!Init /\ [][Promised!Next]_(Promised!vars)
<1>1. Init => Promised!Init
  BY DEF Init, NoLines, Shown, Promised!Init
<1>2. DirectInv /\ [Next]_vars => [Promised!Next]_(Promised!vars)
  <2> SUFFICES ASSUME DirectInv, [Next]_vars PROVE [Promised!Next]_(Promised!vars)
    OBVIOUS
  <2>0. TypeOK /\ SearchesForPicks /\ RegistersOfLine
    BY DEF DirectInv
  <2>1. ASSUME NEW s \in Stops, PickFrom(s) \/ PickTo(s) PROVE Promised!Pick
    <3>1. Shown' = {}
      BY <2>1, PickClears
    <3>2. /\ mounted /\ mounted' = mounted
          /\ \/ id1' = s /\ id2' = id2
             \/ id1' = id1 /\ id2' = s
      BY <2>1 DEF PickFrom, PickTo
    <3> QED BY <3>1, <3>2 DEF Promised!Pick
  <2>2. ASSUME UNCHANGED <<mounted, id1, id2, D>> PROVE UNCHANGED Promised!vars
    BY <2>2 DEF Promised!vars, Shown
  <2>3. ASSUME NEW c \in Searches, NEW q \in pending[c], CourseAnswered(c, q)
        PROVE  [Promised!Next]_(Promised!vars)
    <3>1. CASE D' = D
      BY <2>0, <2>2, <2>3, <3>1, AnswerAddsDirect
    <3>2. ASSUME NEW line \in DirectLines(id1, id2),
                 line \in Lines \ Shown, D' = [D EXCEPT ![line] = 1]
          PROVE  Promised!Reveal
      <4>1. Shown' = Shown \cup {line}
        BY <2>0, <3>2 DEF Shown, TypeOK
      <4>2. Picked /\ UNCHANGED <<mounted, id1, id2>>
        BY <2>0, <2>3, AnswerAddsDirect
      <4>3. line \in Promised!DirectLines(id1, id2) \ Shown
        BY <3>2 DEF Promised!DirectLines, Promised!Common, Promised!RunsInOrder,
               Promised!Kierunki, DirectLines, Common, RunsInOrder, Kierunki
      <4> QED BY <4>1, <4>2, <4>3 DEF Promised!Reveal, Promised!Chosen, Picked
    <3> QED BY <2>0, <2>3, <3>1, <3>2, AnswerAddsDirect DEF Promised!Next
  <2>4. ASSUME NEW c \in Searches,
               \/ StopsAnswered(c) \/ StopsLost(c)
               \/ \E t \in asleep[c] : NextLine(c, t) \/ LoopEnds(c, t)
               \/ \E q \in pending[c] : CourseLost(c, q)
        PROVE  UNCHANGED Promised!vars
    BY <2>2, <2>4 DEF StopsAnswered, StopsLost, NextLine, LoopEnds, CourseLost, picks
  <2>5. CASE dispose
    BY <2>5 DEF dispose, Shown, Promised!Leave, Promised!Next
  <2>6. CASE UNCHANGED vars
    BY <2>2, <2>6 DEF vars, picks
  <2> QED BY <2>1, <2>3, <2>4, <2>5, <2>6 DEF Next, User, Background, Loss, Promised!Next
<1> QED BY <1>1, <1>2, DirectInvariant, PTL DEF Spec

-----------------------------------------------------------------------------
(***************************************************************************)
(* If the user does not wait, the latest search still adds direct lines    *)
(* only: a pick that could disturb it starts another one.                  *)
(***************************************************************************)

\* A pick leaves nothing of the latest search: it is a new one, or there is none.
LEMMA PickIsFresh ==
  ASSUME TypeOK, FreshLocals, LatestForPicks, NEW s \in Stops, PickFrom(s) \/ PickTo(s)
  PROVE  /\ searches' > 0 => Picked'
         /\ \A c \in Searches : c = searches' => ~Going(c)'
<1>1. s # NoStop /\ searches \in Nat
  BY PlannerAssumption DEF TypeOK
<1>2. /\ UNCHANGED <<asleep, pending>>
      /\ \/ /\ ~Picked'
            /\ searches' = searches
         \/ /\ Picked'
            /\ searches' = searches + 1
  BY DEF PickFrom, PickTo, calculateLines, Picked
<1>3. CASE ~Picked' /\ searches' = searches
  <2>1. ~Picked
    BY <1>1, <1>3 DEF PickFrom, PickTo, Picked
  <2>2. searches = 0
    BY <1>1, <2>1 DEF LatestForPicks
  <2> QED BY <1>3, <2>2 DEF Searches
<1>4. CASE Picked' /\ searches' = searches + 1
  <2>1. \A c \in Searches : c = searches + 1 => ~Going(c)
    BY <1>1 DEF FreshLocals
  <2> QED BY <1>2, <1>4, <2>1 DEF Going
<1> QED BY <1>2, <1>3, <1>4

THEOREM LatestForPicksStep ==
  ASSUME TypeOK, FreshLocals, LatestForPicks, [Next]_vars
  PROVE  LatestForPicks'
<1>1. ASSUME NEW s \in Stops, PickFrom(s) \/ PickTo(s) PROVE LatestForPicks'
  BY <1>1, PickIsFresh DEF LatestForPicks
<1>2. ASSUME NEW c \in Searches, StopsAnswered(c) PROVE LatestForPicks'
  <2>1. Picked /\ UNCHANGED <<id1, id2, searches>>
    BY <1>2 DEF StopsAnswered, TypeOK, picks
  <2>2. \A i \in DOMAIN C'[c] : C'[c][i] \in CommonLines
    BY <1>2, StopsAnsweredLists
  <2>3. \A b \in Searches \ {c} : C'[b] = C[b] /\ Going(b)' = Going(b)
    BY <1>2 DEF StopsAnswered, TypeOK, Going
  <2> QED BY <2>1, <2>2, <2>3 DEF LatestForPicks, CommonLines, Picked
<1>3. ASSUME UNCHANGED <<id1, id2, searches, C>>, \A c \in Searches : Going(c)' => Going(c)
      PROVE  LatestForPicks'
  BY <1>3 DEF LatestForPicks, Picked
<1>4. ASSUME NEW c \in Searches, NEW q \in pending[c],
             CourseAnswered(c, q) \/ CourseLost(c, q)
      PROVE  LatestForPicks'
  <2>1. \A b \in Searches : Going(b)' => Going(b)
    BY <1>4 DEF CourseAnswered, CourseLost, Going, TypeOK
  <2> QED BY <1>3, <1>4, <2>1 DEF CourseAnswered, CourseLost, picks
<1>5. ASSUME NEW c \in Searches, NEW t \in asleep[c], NextLine(c, t) \/ LoopEnds(c, t)
      PROVE  LatestForPicks'
  <2>1. \A b \in Searches : Going(b)' => Going(b)
    BY <1>5 DEF NextLine, LoopEnds, Going, TypeOK
  <2> QED BY <1>3, <1>5, <2>1 DEF NextLine, LoopEnds, picks
<1>6. ASSUME NEW c \in Searches, StopsLost(c) PROVE LatestForPicks'
  BY <1>3, <1>6 DEF StopsLost, picks, Going
<1>7. CASE dispose \/ UNCHANGED vars
  BY <1>3, <1>7 DEF dispose, vars, picks, locals, Going
<1> QED BY <1>1, <1>2, <1>4, <1>5, <1>6, <1>7 DEF Next, User, Background, Loss

THEOREM LatestRegistersStep ==
  ASSUME TypeOK, FreshLocals, OneLineAtATime, LatestForPicks, LatestRegisters, [Next]_vars
  PROVE  LatestRegisters'
<1>1. ASSUME NEW s \in Stops, PickFrom(s) \/ PickTo(s) PROVE LatestRegisters'
  BY <1>1, PickIsFresh DEF LatestRegisters, Going
<1>2. ASSUME NEW b \in Searches, NEW p \in pending'[b], reg'[b] = Cleared
      PROVE  FromCalls(C[b][p[2]], reg[b])'
  BY <1>2 DEF FromCalls, Cleared
<1>3. ASSUME UNCHANGED <<id1, id2, searches>>, NEW c \in Searches,
             \A b \in Searches \ {c} :
                C'[b] = C[b] /\ reg'[b] = reg[b] /\ pending'[b] = pending[b],
             c = searches => \A p \in pending'[c] : FromCalls(C[c][p[2]], reg[c])'
      PROVE  LatestRegisters'
  <2> SUFFICES ASSUME NEW b \in Searches, b = searches, NEW p \in pending'[b]
               PROVE  FromCalls(C[b][p[2]], reg[b])'
    BY <1>3 DEF LatestRegisters
  <2>1. CASE b = c
    BY <1>3, <2>1
  <2>2. CASE b # c
    <3>1. C'[b] = C[b] /\ reg'[b] = reg[b] /\ pending'[b] = pending[b]
      BY <1>3, <2>2
    <3>2. FromCalls(C[b][p[2]], reg[b])
      BY <3>1 DEF LatestRegisters
    <3>3. id1' = id1 /\ id2' = id2
      BY <1>3
    <3>4. C'[b][p[2]] = C[b][p[2]] /\ reg'[b] = reg[b]
      BY <3>1
    <3> QED BY <3>2, <3>3, <3>4, ZenonT(40) DEF FromCalls
  <2> QED BY <2>1, <2>2
<1>4. ASSUME NEW c \in Searches, StopsAnswered(c) PROVE LatestRegisters'
  <2>1. /\ UNCHANGED <<id1, id2, searches, reg>>
        /\ \A b \in Searches \ {c} : C'[b] = C[b] /\ pending'[b] = pending[b]
    BY <1>4, StopsAnsweredLists DEF StopsAnswered, TypeOK, picks
  <2>2. reg[c] = Cleared
    BY <1>4 DEF StopsAnswered, FreshLocals
  <2> QED BY <1>2, <1>3, <2>1, <2>2
<1>5. ASSUME NEW c \in Searches, NEW t \in asleep[c], NextLine(c, t) PROVE LatestRegisters'
  <2>1. /\ UNCHANGED <<id1, id2, searches, C>> /\ reg'[c] = Cleared
        /\ \A b \in Searches \ {c} : reg'[b] = reg[b] /\ pending'[b] = pending[b]
    BY <1>5 DEF NextLine, Reset, TypeOK, picks
  <2> QED BY <1>2, <1>3, <2>1
<1>6. ASSUME NEW c \in Searches, NEW q \in pending[c], CourseAnswered(c, q)
      PROVE  LatestRegisters'
  <2> DEFINE line == C[c][q[2]]
             n == Len(course[line][q[3]])
             r == After(reg[c], course[line][q[3]], q[3], n)
  <2>1. line \in Lines /\ q[3] \in Kierunki /\ reg[c] \in Registers
    BY DEF TypeOK
  <2>2. n \in 0..n
    BY <2>1, CourseAssumption
  <2>3. c = searches => FromCalls(line, r)
    BY <2>1, <2>2, AfterFromCalls DEF LatestRegisters
  <2>4. /\ UNCHANGED <<id1, id2, searches, C>> /\ reg' = [reg EXCEPT ![c] = r]
        /\ pending' = [pending EXCEPT ![c] = @ \ {q}]
    BY <1>6 DEF CourseAnswered, picks
  <2>5. /\ \A p \in pending'[c] : C'[c][p[2]] = line
        /\ reg'[c] = r
        /\ \A b \in Searches \ {c} : reg'[b] = reg[b] /\ pending'[b] = pending[b]
    BY <2>4 DEF OneLineAtATime, TypeOK
  <2> HIDE DEF line, r
  <2>6. c = searches => \A p \in pending'[c] : FromCalls(C[c][p[2]], reg[c])'
    BY <2>3, <2>4, <2>5 DEF FromCalls
  <2> QED BY <1>3, <2>4, <2>5, <2>6
<1>7. ASSUME UNCHANGED <<id1, id2, searches, C, reg>>,
             \A c \in Searches : pending'[c] \subseteq pending[c]
      PROVE  LatestRegisters'
  BY <1>7 DEF LatestRegisters, FromCalls
<1>8. ASSUME NEW c \in Searches, NEW t \in asleep[c], LoopEnds(c, t)
      PROVE  LatestRegisters'
  BY <1>7, <1>8 DEF LoopEnds, picks
<1>9. ASSUME NEW c \in Searches, StopsLost(c) \/ \E q \in pending[c] : CourseLost(c, q)
      PROVE  LatestRegisters'
  BY <1>7, <1>9 DEF StopsLost, CourseLost, picks, TypeOK
<1>10. CASE dispose \/ UNCHANGED vars
  BY <1>7, <1>10 DEF dispose, vars, picks, locals
<1> QED BY <1>1, <1>4, <1>5, <1>6, <1>8, <1>9, <1>10 DEF Next, User, Background, Loss

THEOREM LatestInvariant ==
  ASSUME Lag = 0
  PROVE  Spec => []LatestInv
<1>1. Init => LatestInv
  <2>1. Init => TypeOK
    BY TypeInit
  <2> QED BY <2>1 DEF Init, LatestInv, FreshLocals, OneLineAtATime, LatestForPicks,
                      LatestRegisters, Going, Searches
<1>2. LatestInv /\ [Next]_vars => LatestInv'
  <2> SUFFICES ASSUME LatestInv, [Next]_vars PROVE LatestInv'
    OBVIOUS
  <2>0. TypeOK /\ FreshLocals /\ OneLineAtATime /\ LatestForPicks /\ LatestRegisters
    BY DEF LatestInv
  <2>1. TypeOK' /\ FreshLocals' /\ OneLineAtATime'
    BY <2>0, TypeStep, FreshStep, OneLineStep
  <2>2. LatestForPicks' /\ LatestRegisters'
    BY <2>0, LatestForPicksStep, LatestRegistersStep
  <2> QED BY <2>1, <2>2 DEF LatestInv
<1> QED BY <1>1, <1>2, PTL DEF Spec

\* A line the latest search adds goes from the stop under 'Z' to the stop under 'DO',
\* whether or not other searches are running.
THEOREM PlannerLatestAddsDirect ==
  ASSUME Lag = 0
  PROVE  Spec => LatestAddsDirect
<1>1. LatestInv /\ [Next]_vars =>
        [\A c \in Searches :
           c = searches /\ pending'[c] # pending[c] =>
              \A line \in Lines : D'[line] > D[line] => line \in DirectLines(id1, id2)]_vars
  <2> SUFFICES ASSUME LatestInv, Next,
                      NEW c \in Searches, c = searches, pending'[c] # pending[c],
                      NEW line \in Lines, D'[line] > D[line]
               PROVE  line \in DirectLines(id1, id2)
    OBVIOUS
  <2>0. /\ TypeOK /\ LatestForPicks /\ LatestRegisters
        /\ D[line] \in Nat
    BY DEF LatestInv, TypeOK
  <2>1. D' # D /\ ~(D[line] > D[line])
    BY <2>0
  <2>2. ~(\E s \in Stops : PickFrom(s) \/ PickTo(s))
    BY <2>0, <2>1 DEF PickFrom, PickTo, calculateLines, NoLines
  <2>3. PICK q \in pending[c] : CourseAnswered(c, q)
    <3>1. PICK b \in Searches : \E q \in pending[b] : CourseAnswered(b, q)
      BY <2>1, <2>2 DEF Next, User, Background, Loss, dispose, StopsAnswered, StopsLost,
             NextLine, LoopEnds, CourseLost
    <3>2. b = c
      BY <2>0, <3>1 DEF CourseAnswered, TypeOK
    <3> QED BY <3>1, <3>2
  <2> DEFINE calls == course[line][q[3]]
  <2>4. line = C[c][q[2]] /\ \E n \in 1..Len(calls) : Matches(After(reg[c], calls, q[3], n))
    <3>1. C[c][q[2]] \in Lines
      BY <2>0, <2>3 DEF TypeOK
    <3>2. D' = Including(C[c][q[2]]) /\ \E n \in 1..Len(course[C[c][q[2]]][q[3]]) :
             Matches(After(reg[c], course[C[c][q[2]]][q[3]], q[3], n))
      BY <2>1, <2>3 DEF CourseAnswered
    <3>3. line = C[c][q[2]]
      BY <2>0, <2>1, <3>1, <3>2 DEF Including, TypeOK
    <3> QED BY <3>2, <3>3
  <2>5. PICK n \in 1..Len(calls) : Matches(After(reg[c], calls, q[3], n))
    BY <2>4
  <2>6. /\ q[3] \in Kierunki /\ reg[c] \in Registers /\ n \in 0..Len(calls)
        /\ calls \in Seq(Call)
    BY <2>0, <2>3, CourseAssumption DEF TypeOK
  <2>7. FromCalls(line, reg[c]) /\ line \in Common(id1, id2)
    BY <2>0, <2>3, <2>4 DEF LatestForPicks, LatestRegisters, Going, TypeOK
  <2>8. /\ After(reg[c], calls, q[3], n) \in Registers
        /\ FromCalls(line, After(reg[c], calls, q[3], n))
    BY <2>6, <2>7, AfterType, AfterFromCalls
  <2> HIDE DEF calls
  <2> QED BY <2>5, <2>7, <2>8, MatchIsDirect
<1> QED BY <1>1, LatestInvariant, PTL DEF Spec, LatestAddsDirect

-----------------------------------------------------------------------------
(*****************************************************************************)
(* Each step of a search uses up some of what is left to do, and while there *)
(* is something left some step is due.                                     *)
(*****************************************************************************)
\* A step of a loop, in the terms the proofs below use.
LEMMA NextLineFacts ==
  ASSUME TypeOK, NEW c \in Searches, NEW t \in asleep[c], NextLine(c, t)
  PROVE  /\ t \in Docs \X Nat /\ t[2] \in DOMAIN C[c] /\ t[2] \in 1..Len(C[c])
         /\ \A u \in asleep[c] : u \in Docs \X Nat /\ t[2] <= u[2]
         /\ \A u \in asleep[c] : u[1] = t[1] /\ u[2] = t[2] => u = t
         /\ UNCHANGED <<mounted, id1, id2, D, searches, stopsQuery, C>>
         /\ pending' = [pending EXCEPT ![c] = @ \cup ({t[1]} \X {t[2]} \X Kierunki)]
         /\ asleep' = [asleep EXCEPT ![c] = (@ \ {t}) \cup {<<t[1], t[2] + 1>>}]
<1>1. t \in Docs \X Nat /\ \A u \in asleep[c] : u \in Docs \X Nat
  BY DEF TypeOK
<1>2. C[c] \in Seq(Lines)
  BY DEF TypeOK
<1>3. t[2] \in DOMAIN C[c] /\ t[2] \in 1..Len(C[c])
  BY <1>2 DEF NextLine, HasLine
<1>4. \A u \in asleep[c] : t[2] <= u[2]
  <2>1. \A u \in asleep[c] : t[2] < u[2] \/ (t[2] = u[2] /\ t[1] <= u[1])
    BY DEF NextLine, Wake, FirstToWake
  <2> QED BY <1>1, <2>1
<1>5. \A u \in asleep[c] : u[1] = t[1] /\ u[2] = t[2] => u = t
  BY <1>1
<1> QED BY <1>1, <1>3, <1>4, <1>5 DEF NextLine, Advanced, picks

\* What the loops and the answers of a search leave alone.
LEMMA LoopEndsFacts ==
  ASSUME TypeOK, NEW c \in Searches, NEW t \in asleep[c], LoopEnds(c, t)
  PROVE  /\ t \in Docs \X Nat /\ t[2] \notin 1..Len(C[c])
         /\ UNCHANGED <<mounted, id1, id2, D, searches, stopsQuery, C, pending>>
         /\ asleep' = [asleep EXCEPT ![c] = @ \ {t}]
<1>1. t \in Docs \X Nat /\ C[c] \in Seq(Lines)
  BY DEF TypeOK
<1> QED BY <1>1 DEF LoopEnds, HasLine, picks

\* The list of a search that has just been answered has a line if a loop starts.
LEMMA ListsGrow ==
  ASSUME TypeOK, NEW c \in Searches, StopsAnswered(c)
  PROVE  \E loops \in SUBSET Docs :
            /\ pending'[c] = loops \X {1} \X Kierunki
            /\ asleep'[c] = loops \X {2}
            /\ loops # {} => 1 <= Len(C'[c])
            /\ Len(C'[c]) \in Nat
            /\ \A b \in Searches \ {c} :
                  pending'[b] = pending[b] /\ asleep'[b] = asleep[b] /\ C'[b] = C[b]
<1>1. /\ C' \in [Searches -> Seq(Lines)]
      /\ \A b \in Searches \ {c} : C'[b] = C[b]
  BY StopsAnsweredLists
<1>2. PICK loops \in SUBSET Docs :
               /\ pending' = [pending EXCEPT ![c] = loops \X {1} \X Kierunki]
               /\ asleep' = [asleep EXCEPT ![c] = loops \X {2}]
               /\ loops # {} => 1 \in DOMAIN C'[c]
  BY StopsAnsweredLists
<1>3. C'[c] \in Seq(Lines)
  BY <1>1
<1>4. Len(C'[c]) \in Nat /\ (loops # {} => 1 <= Len(C'[c]))
  BY <1>2, <1>3
<1>5. pending'[c] = loops \X {1} \X Kierunki /\ asleep'[c] = loops \X {2}
  BY <1>2 DEF TypeOK
<1>6. \A b \in Searches \ {c} : pending'[b] = pending[b] /\ asleep'[b] = asleep[b]
  BY <1>2 DEF TypeOK
<1> QED BY <1>1, <1>4, <1>5, <1>6

\* A loop never runs off the list and never falls back behind what it has asked.
THEOREM LoopsInListStep ==
  ASSUME TypeOK, LoopsInList, [Next]_vars
  PROVE  LoopsInList'
<1>1. ASSUME UNCHANGED C,
             \A c \in Searches : asleep'[c] \subseteq asleep[c] /\ pending'[c] \subseteq pending[c]
      PROVE  LoopsInList'
  BY <1>1 DEF LoopsInList
<1>2. ASSUME NEW s \in Stops, PickFrom(s) \/ PickTo(s) PROVE LoopsInList'
  BY <1>1, <1>2 DEF PickFrom, PickTo, calculateLines
<1>3. ASSUME NEW c \in Searches, StopsAnswered(c) PROVE LoopsInList'
  <2>1. PICK loops \in SUBSET Docs :
            /\ pending'[c] = loops \X {1} \X Kierunki
            /\ asleep'[c] = loops \X {2}
            /\ loops # {} => 1 <= Len(C'[c])
            /\ Len(C'[c]) \in Nat
            /\ \A b \in Searches \ {c} :
                  pending'[b] = pending[b] /\ asleep'[b] = asleep[b] /\ C'[b] = C[b]
    BY <1>3, ListsGrow
  <2>2. ASSUME NEW t \in asleep'[c]
        PROVE  /\ t[2] \in 1..(Len(C'[c]) + 1)
               /\ \A q \in pending'[c] : q[1] = t[1] => q[2] < t[2]
    <3>1. t[2] = 2 /\ loops # {}
      BY <2>1
    <3>2. \A q \in pending'[c] : q[2] = 1
      BY <2>1
    <3> QED BY <2>1, <3>1, <3>2
  <2>3. ASSUME NEW b \in Searches \ {c}, NEW t \in asleep'[b]
        PROVE  /\ t[2] \in 1..(Len(C'[b]) + 1)
               /\ \A q \in pending'[b] : q[1] = t[1] => q[2] < t[2]
    BY <2>1, <2>3 DEF LoopsInList
  <2> QED BY <2>2, <2>3 DEF LoopsInList
<1>4. ASSUME NEW c \in Searches, NEW t \in asleep[c], NextLine(c, t) PROVE LoopsInList'
  <2>1. /\ t \in Docs \X Nat /\ t[2] \in 1..Len(C[c])
        /\ \A u \in asleep[c] : u \in Docs \X Nat /\ t[2] <= u[2]
        /\ \A u \in asleep[c] : u[1] = t[1] /\ u[2] = t[2] => u = t
        /\ UNCHANGED C
        /\ pending' = [pending EXCEPT ![c] = @ \cup ({t[1]} \X {t[2]} \X Kierunki)]
        /\ asleep' = [asleep EXCEPT ![c] = (@ \ {t}) \cup {<<t[1], t[2] + 1>>}]
    BY <1>4, NextLineFacts
  <2>2. /\ pending'[c] = pending[c] \cup ({t[1]} \X {t[2]} \X Kierunki)
        /\ asleep'[c] = (asleep[c] \ {t}) \cup {<<t[1], t[2] + 1>>}
    BY <2>1 DEF TypeOK
  <2>3. /\ \A u \in asleep[c] : u[2] \in 1..(Len(C[c]) + 1)
        /\ \A u \in asleep[c] : \A q \in pending[c] : q[1] = u[1] => q[2] < u[2]
    BY DEF LoopsInList
  <2>4. C[c] \in Seq(Lines) /\ Len(C[c]) \in Nat /\ \A q \in pending[c] : q[2] \in Nat
    BY DEF TypeOK
  <2>5. ASSUME NEW u \in asleep'[c]
        PROVE  u[2] \in 1..(Len(C[c]) + 1)
    <3>1. CASE u = <<t[1], t[2] + 1>>
      BY <2>1, <2>4, <3>1
    <3>2. CASE u \in asleep[c]
      BY <2>3, <3>2
    <3> QED BY <2>2, <3>1, <3>2
  <2>6. ASSUME NEW u \in asleep'[c], NEW q \in pending'[c], q[1] = u[1]
        PROVE  q[2] < u[2]
    <3>1. CASE u = <<t[1], t[2] + 1>>
      <4>1. CASE q \in pending[c]
        BY <2>1, <2>3, <2>4, <2>6, <3>1, <4>1
      <4>2. CASE q \in {t[1]} \X {t[2]} \X Kierunki
        BY <2>1, <3>1, <4>2
      <4> QED BY <2>2, <4>1, <4>2
    <3>2. CASE u \in asleep[c] /\ u # t
      <4>1. CASE q \in pending[c]
        BY <2>3, <2>6, <3>2, <4>1
      <4>2. CASE q \in {t[1]} \X {t[2]} \X Kierunki
        <5>1. q[1] = t[1] /\ q[2] = t[2]
          BY <4>2
        <5>2. u[1] = t[1] /\ u[2] # t[2]
          BY <2>1, <2>6, <3>2, <5>1
        <5> QED BY <2>1, <3>2, <5>1, <5>2
      <4> QED BY <2>2, <4>1, <4>2
    <3> QED BY <2>2, <3>1, <3>2
  <2>7. \A b \in Searches \ {c} : asleep'[b] = asleep[b] /\ pending'[b] = pending[b]
    BY <2>1 DEF TypeOK
  <2>8. ASSUME NEW b \in Searches, NEW u \in asleep'[b]
        PROVE  /\ u[2] \in 1..(Len(C'[b]) + 1)
               /\ \A q \in pending'[b] : q[1] = u[1] => q[2] < u[2]
    <3>1. CASE b = c
      BY <2>1, <2>5, <2>6, <2>8, <3>1
    <3>2. CASE b # c
      BY <2>1, <2>7, <2>8, <3>2 DEF LoopsInList
    <3> QED BY <3>1, <3>2
  <2> QED BY <2>8 DEF LoopsInList
<1>5. ASSUME NEW c \in Searches, NEW t \in asleep[c], LoopEnds(c, t) PROVE LoopsInList'
  <2>1. UNCHANGED <<C, pending>> /\ asleep' = [asleep EXCEPT ![c] = @ \ {t}]
    BY <1>5, LoopEndsFacts
  <2> QED BY <1>1, <2>1 DEF TypeOK
<1>6. ASSUME NEW c \in Searches, NEW q \in pending[c],
             CourseAnswered(c, q) \/ CourseLost(c, q)
      PROVE  LoopsInList'
  BY <1>1, <1>6 DEF CourseAnswered, CourseLost, TypeOK
<1>7. ASSUME NEW c \in Searches, StopsLost(c) PROVE LoopsInList'
  BY <1>1, <1>7 DEF StopsLost
<1>8. CASE dispose \/ UNCHANGED vars
  BY <1>1, <1>8 DEF dispose, vars, locals
<1> QED BY <1>2, <1>3, <1>4, <1>5, <1>6, <1>7, <1>8 DEF Next, User, Background, Loss

\* What is left to do is a finite set, so it cannot be used up for ever.
LEMMA WorkIsFinite ==
  ASSUME TypeOK, NEW c \in Searches
  PROVE  IsFiniteSet(WorkLeft(c))
<1> DEFINE W == Docs \X (1..(Len(C[c]) + 1)) \X (0..2)
<1>1. C[c] \in Seq(Lines) /\ Len(C[c]) \in Nat /\ Len(StopDocs) \in Nat
  BY StopDocsAssumption DEF TypeOK
<1>2. IsFiniteSet(Docs) /\ IsFiniteSet(1..(Len(C[c]) + 1)) /\ IsFiniteSet(0..2)
  <2>1. \A n \in Nat : n \in Int /\ n + 1 \in Int
    OBVIOUS
  <2>2. IsFiniteSet(1..(Len(C[c]) + 1))
    BY <1>1, <2>1, FS_Interval
  <2>3. IsFiniteSet(Docs)
    BY <1>1, FS_Interval DEF Docs
  <2>4. IsFiniteSet(0..2)
    <3>1. 0 \in Int /\ 2 \in Int
      OBVIOUS
    <3> QED BY <3>1, FS_Interval
  <2> QED BY <2>2, <2>3, <2>4
<1>3. IsFiniteSet(W)
  <2> DEFINE I == 1..(Len(C[c]) + 1)
             f == [w \in (Docs \X I) \X (0..2) |-> <<w[1][1], w[1][2], w[2]>>]
  <2>1. IsFiniteSet((Docs \X I) \X (0..2))
    BY <1>2, FS_Product
  <2>2. f \in Surjection((Docs \X I) \X (0..2), W)
    <3>1. \A w \in (Docs \X I) \X (0..2) : f[w] \in W
      OBVIOUS
    <3>2. \A x \in W : \E w \in (Docs \X I) \X (0..2) : f[w] = x
      <4> TAKE x \in W
      <4> WITNESS <<<<x[1], x[2]>>, x[3]>> \in (Docs \X I) \X (0..2)
      <4> QED OBVIOUS
    <3> QED BY <3>1, <3>2 DEF Surjection
  <2> HIDE DEF f, I, W
  <2> QED BY <2>1, <2>2, FS_Surjection
<1>4. WorkLeft(c) \subseteq W
  BY DEF WorkLeft
<1> HIDE DEF W
<1> QED BY <1>3, <1>4, FS_Subset

\* Every step of a search, and every loss, takes something off what is left to do.
THEOREM WorkStep ==
  ASSUME TypeOK, LoopsInList, Background \/ Loss
  PROVE  \/ stopsQuery' \subseteq stopsQuery /\ stopsQuery' # stopsQuery
         \/ /\ stopsQuery' = stopsQuery
            /\ \A c \in Searches : WorkLeft(c)' \subseteq WorkLeft(c)
            /\ \E c \in Searches : WorkLeft(c)' # WorkLeft(c)
<1> DEFINE Less == \/ stopsQuery' \subseteq stopsQuery /\ stopsQuery' # stopsQuery
                   \/ /\ stopsQuery' = stopsQuery
                      /\ \A c \in Searches : WorkLeft(c)' \subseteq WorkLeft(c)
                      /\ \E c \in Searches : WorkLeft(c)' # WorkLeft(c)
<1>1. ASSUME NEW c \in Searches, StopsAnswered(c) \/ StopsLost(c) PROVE Less
  <2>1. c \in stopsQuery /\ stopsQuery' = stopsQuery \ {c}
    BY <1>1 DEF StopsAnswered, StopsLost
  <2> QED BY <2>1
<1>2. ASSUME UNCHANGED <<stopsQuery, C>>, NEW c \in Searches,
             NEW w \in WorkLeft(c), w \notin WorkLeft(c)',
             WorkLeft(c)' \subseteq WorkLeft(c),
             \A b \in Searches \ {c} : asleep'[b] = asleep[b] /\ pending'[b] = pending[b]
      PROVE  Less
  <2>1. ASSUME NEW b \in Searches \ {c} PROVE WorkLeft(b)' = WorkLeft(b)
    BY <1>2, <2>1 DEF WorkLeft
  <2>2. WorkLeft(c)' # WorkLeft(c)
    BY <1>2
  <2> QED BY <1>2, <2>1, <2>2
<1>3. ASSUME NEW c \in Searches, NEW t \in asleep[c], NextLine(c, t) PROVE Less
  <2>1. /\ t \in Docs \X Nat /\ t[2] \in 1..Len(C[c])
        /\ \A u \in asleep[c] : u \in Docs \X Nat /\ t[2] <= u[2]
        /\ \A u \in asleep[c] : u[1] = t[1] /\ u[2] = t[2] => u = t
        /\ UNCHANGED <<stopsQuery, C>>
        /\ pending' = [pending EXCEPT ![c] = @ \cup ({t[1]} \X {t[2]} \X Kierunki)]
        /\ asleep' = [asleep EXCEPT ![c] = (@ \ {t}) \cup {<<t[1], t[2] + 1>>}]
    BY <1>3, NextLineFacts
  <2>2. /\ pending'[c] = pending[c] \cup ({t[1]} \X {t[2]} \X Kierunki)
        /\ asleep'[c] = (asleep[c] \ {t}) \cup {<<t[1], t[2] + 1>>}
        /\ \A b \in Searches \ {c} : asleep'[b] = asleep[b] /\ pending'[b] = pending[b]
    BY <2>1 DEF TypeOK
  <2>3. C[c] \in Seq(Lines) /\ Len(C[c]) \in Nat
    BY DEF TypeOK
  <2>4. ASSUME NEW v \in WorkLeft(c)' PROVE v \in WorkLeft(c)
    <3>1. v \in Docs \X (1..(Len(C[c]) + 1)) \X (0..2)
      BY <2>1 DEF WorkLeft
    <3>2. v \in pending'[c] \/ \E u \in asleep'[c] : u[1] = v[1] /\ u[2] <= v[2]
      BY DEF WorkLeft
    <3>3. CASE v \in pending[c]
      BY <3>1, <3>3 DEF WorkLeft
    <3>4. CASE v \in {t[1]} \X {t[2]} \X Kierunki
      <4>1. t[1] = v[1] /\ t[2] <= v[2]
        BY <2>1, <3>4
      <4> QED BY <3>1, <4>1 DEF WorkLeft
    <3>5. ASSUME NEW u \in asleep'[c], u[1] = v[1], u[2] <= v[2] PROVE v \in WorkLeft(c)
      <4>1. CASE u \in asleep[c]
        BY <3>1, <3>5, <4>1 DEF WorkLeft
      <4>2. CASE u = <<t[1], t[2] + 1>>
        <5>1. t[1] = v[1] /\ t[2] <= v[2]
          BY <2>1, <3>1, <3>5, <4>2
        <5> QED BY <3>1, <5>1 DEF WorkLeft
      <4> QED BY <2>2, <3>5, <4>1, <4>2
    <3> QED BY <2>2, <3>2, <3>3, <3>4, <3>5
  <2> DEFINE w == <<t[1], t[2], 0>>
  <2>5. w \in Docs \X (1..(Len(C[c]) + 1)) \X (0..2)
    BY <2>1, <2>3
  <2>6. w \in WorkLeft(c)
    BY <2>1, <2>5 DEF WorkLeft
  <2>7. w \notin WorkLeft(c)'
    <3>1. w \notin pending'[c]
      <4>1. \A q \in pending'[c] : q[3] \in Kierunki
        BY <2>2 DEF TypeOK
      <4> QED BY <4>1 DEF Kierunki
    <3>2. ASSUME NEW u \in asleep'[c], u[1] = w[1], u[2] <= w[2] PROVE FALSE
      <4>1. CASE u = <<t[1], t[2] + 1>>
        BY <2>1, <3>2, <4>1
      <4>2. CASE u \in asleep[c] /\ u # t
        <5>1. u[2] \in Nat /\ t[2] \in Nat /\ t[2] <= u[2] /\ u[2] <= t[2]
          BY <2>1, <3>2, <4>2
        <5>2. u[1] = t[1]
          BY <3>2
        <5> QED BY <2>1, <4>2, <5>1, <5>2
      <4> QED BY <2>2, <3>2, <4>1, <4>2
    <3> HIDE DEF w
    <3> QED BY <3>1, <3>2 DEF WorkLeft
  <2> HIDE DEF w, Less
  <2> QED BY <1>2, <2>1, <2>2, <2>4, <2>6, <2>7
<1>4. ASSUME NEW c \in Searches, NEW t \in asleep[c], LoopEnds(c, t) PROVE Less
  <2>1. /\ t \in Docs \X Nat /\ t[2] \notin 1..Len(C[c])
        /\ UNCHANGED <<stopsQuery, C, pending>>
        /\ asleep' = [asleep EXCEPT ![c] = @ \ {t}]
    BY <1>4, LoopEndsFacts
  <2>2. /\ asleep'[c] = asleep[c] \ {t}
        /\ \A b \in Searches \ {c} : asleep'[b] = asleep[b] /\ pending'[b] = pending[b]
    BY <2>1 DEF TypeOK
  <2>3. C[c] \in Seq(Lines) /\ Len(C[c]) \in Nat /\ \A u \in asleep[c] : u \in Docs \X Nat
    BY DEF TypeOK
  <2>4. \A u \in asleep[c] : u[2] \in 1..(Len(C[c]) + 1)
    BY DEF LoopsInList
  <2>5. t[2] = Len(C[c]) + 1 /\ \A u \in asleep[c] : u[2] <= Len(C[c]) + 1
    BY <2>1, <2>3, <2>4
  <2>6. WorkLeft(c)' \subseteq WorkLeft(c)
    BY <2>1, <2>2 DEF WorkLeft
  <2>7. Wake(c, t)
    BY <1>4 DEF LoopEnds
  <2>8. \A u \in asleep[c] : t[2] <= u[2]
    <3>1. \A u \in asleep[c] : t[2] < u[2] \/ (t[2] = u[2] /\ t[1] <= u[1])
      BY <2>7 DEF Wake, FirstToWake
    <3> QED BY <2>1, <2>3, <3>1
  <2> DEFINE w == <<t[1], t[2], 0>>
  <2>9. w \in WorkLeft(c)
    <3>1. w \in Docs \X (1..(Len(C[c]) + 1)) \X (0..2)
      BY <2>1, <2>3, <2>5
    <3> QED BY <2>1, <3>1 DEF WorkLeft
  <2>10. w \notin WorkLeft(c)'
    <3>1. w \notin pending'[c]
      <4>1. \A q \in pending'[c] : q[3] \in Kierunki
        BY <2>1 DEF TypeOK
      <4> QED BY <4>1 DEF Kierunki
    <3>2. ASSUME NEW u \in asleep'[c], u[1] = w[1], u[2] <= w[2] PROVE FALSE
      <4>1. u \in asleep[c] /\ u # t
        BY <2>2
      <4>2. u[1] = t[1] /\ u[2] = t[2]
        BY <2>1, <2>3, <2>8, <3>2, <4>1
      <4> QED BY <2>1, <2>3, <4>1, <4>2
    <3> HIDE DEF w
    <3> QED BY <3>1, <3>2 DEF WorkLeft
  <2> HIDE DEF w, Less
  <2> QED BY <1>2, <2>1, <2>2, <2>6, <2>9, <2>10
<1>5. ASSUME NEW c \in Searches, NEW q \in pending[c],
             CourseAnswered(c, q) \/ CourseLost(c, q)
      PROVE  Less
  <2>1. /\ UNCHANGED <<stopsQuery, C, asleep>>
        /\ pending' = [pending EXCEPT ![c] = @ \ {q}]
    BY <1>5 DEF CourseAnswered, CourseLost
  <2>2. /\ pending'[c] = pending[c] \ {q}
        /\ \A b \in Searches \ {c} : asleep'[b] = asleep[b] /\ pending'[b] = pending[b]
    BY <2>1 DEF TypeOK
  <2>3. WorkLeft(c)' \subseteq WorkLeft(c)
    BY <2>1, <2>2 DEF WorkLeft
  <2>4. /\ q \in Docs \X Nat \X Kierunki /\ q[2] \in 1..Len(C[c])
        /\ C[c] \in Seq(Lines) /\ Len(C[c]) \in Nat
        /\ \A u \in asleep[c] : u \in Docs \X Nat
    BY DEF TypeOK
  <2>5. q \in WorkLeft(c)
    <3>1. q \in Docs \X (1..(Len(C[c]) + 1)) \X (0..2)
      BY <2>4 DEF Kierunki
    <3> QED BY <3>1 DEF WorkLeft
  <2>6. q \notin WorkLeft(c)'
    <3>1. \A u \in asleep[c] : u[1] = q[1] => q[2] < u[2]
      BY DEF LoopsInList
    <3>2. ~ \E u \in asleep'[c] : u[1] = q[1] /\ u[2] <= q[2]
      BY <2>1, <2>4, <3>1
    <3> QED BY <2>2, <3>2 DEF WorkLeft
  <2> HIDE DEF Less
  <2> QED BY <1>2, <2>1, <2>2, <2>3, <2>5, <2>6
<1> HIDE DEF Less
<1>6. Less
  BY <1>1, <1>3, <1>4, <1>5 DEF Background, Loss
<1> QED BY <1>6 DEF Less

\* Whatever is answered, lost or slept through, less is left to do.
THEOREM PlannerWorkIsUsedUp == Spec => WorkIsUsedUp
<1>1. Init => LoopsInList
  BY DEF Init, LoopsInList
<1>2. TypeOK /\ LoopsInList /\ [Next]_vars => LoopsInList'
  BY LoopsInListStep
<1>3. TypeOK /\ LoopsInList /\ [Next]_vars =>
        [Background \/ Loss =>
           \/ stopsQuery' \subseteq stopsQuery /\ stopsQuery' # stopsQuery
           \/ /\ stopsQuery' = stopsQuery
              /\ \A c \in Searches : WorkLeft(c)' \subseteq WorkLeft(c)
              /\ \E c \in Searches : WorkLeft(c)' # WorkLeft(c)]_vars
  BY WorkStep
<1> QED BY <1>1, <1>2, <1>3, TypeCorrect, PTL DEF Spec, WorkIsUsedUp

\* A set of numbers has a least one (the loop whose timer fires first exists).
LEMMA LeastNumber ==
  ASSUME NEW T \in SUBSET Nat, T # {}
  PROVE  \E m \in T : \A k \in T : m <= k
<1> DEFINE R == OpToRel(<, Nat)
<1>1. IsWellFoundedOn(R, Nat)
  BY NatLessThanWellFounded
<1> HIDE DEF R
<1>2. PICK m \in T : \A k \in T : <<k, m>> \notin R
  BY <1>1, WFMin
<1>3. ASSUME NEW k \in T PROVE m <= k
  <2>1. k \in Nat /\ m \in Nat /\ ~(k < m)
    BY <1>2 DEF R, OpToRel
  <2> QED BY <2>1
<1> QED BY <1>3

\* While a search is not over there is an answer to take or a loop whose turn it
\* is: loops never wait for one another in a ring, though only the first to wake
\* may go on, and none while an older answer is missing.
THEOREM PlannerNeverStuck ==
  ASSUME TypeOK, ~Idle
  PROVE  \E c \in Searches : \/ c \in stopsQuery /\ Listings(CommonLines) # {}
                             \/ pending[c] # {}
                             \/ \E t \in asleep[c] : Wake(c, t)
<1>1. ASSUME NEW c \in stopsQuery
      PROVE  c \in Searches /\ Listings(CommonLines) # {}
  <2>1. CommonLines \in SUBSET Lines
    BY <1>1, LinieAssumption DEF TypeOK, Picked, CommonLines, Common
  <2>2. IsFiniteSet(CommonLines)
    BY <2>1, LinesAssumption, FS_Subset
  <2> DEFINE k == Cardinality(CommonLines)
  <2>3. k \in Nat /\ ExistsBijection(1..k, CommonLines)
    BY <2>2, FS_CardinalityType
  <2> HIDE DEF k
  <2>4. PICK s \in Bijection(1..k, CommonLines) : TRUE
    BY <2>3 DEF ExistsBijection
  <2>5. s \in [1..k -> CommonLines] /\ \A x \in CommonLines : \E n \in 1..k : s[n] = x
    BY <2>4 DEF Bijection, Surjection
  <2>6. s \in Listings(CommonLines)
    BY <2>5 DEF Listings, k
  <2> QED BY <1>1, <2>6 DEF TypeOK
<1>2. ASSUME NEW c \in Searches, pending[c] = {}, asleep[c] # {}
      PROVE  \E t \in asleep[c] : Wake(c, t)
  <2>1. \A t \in asleep[c] : t \in Docs \X Nat /\ t[1] \in Nat /\ t[2] \in Nat
    BY DEF TypeOK, Docs
  <2> DEFINE I == {t[2] : t \in asleep[c]}
  <2>2. PICK i \in I : \A k \in I : i <= k
    <3>1. I \in SUBSET Nat /\ I # {}
      BY <1>2, <2>1
    <3> HIDE DEF I
    <3> QED BY <3>1, LeastNumber
  <2> DEFINE T == {t[1] : t \in {u \in asleep[c] : u[2] = i}}
  <2>3. PICK d \in T : \A k \in T : d <= k
    <3>1. T \in SUBSET Nat /\ T # {}
      BY <2>1, <2>2
    <3> HIDE DEF T
    <3> QED BY <3>1, LeastNumber
  <2>4. PICK t \in asleep[c] : t[1] = d /\ t[2] = i
    BY <2>3
  <2>5. ASSUME NEW u \in asleep[c] PROVE t[2] < u[2] \/ (t[2] = u[2] /\ t[1] <= u[1])
    <3>1. i <= u[2] /\ (u[2] = i => d <= u[1])
      BY <2>2, <2>3
    <3> QED BY <2>1, <2>4, <3>1
  <2> QED BY <1>2, <2>4, <2>5 DEF Wake, FirstToWake
<1> QED BY <1>1, <1>2 DEF Idle

-----------------------------------------------------------------------------
(*****************************************************************************)
(* If no answer is lost, the page shows every line whose two ranks come    *)
(* together.                                                               *)
(*****************************************************************************)
\* A line whose two ranks come together passes the test at the later of its two
\* documents, whatever the registers held before.
LEMMA TogetherMatches ==
  ASSUME NEW line \in Lines, NEW j \in Kierunki, NEW r \in Registers,
         ReadInOrder(line, j, id1, id2)
  PROVE  \E p \in 1..Len(course[line][j]) : Matches(After(r, course[line][j], j, p))
<1> DEFINE calls == course[line][j]
           id(k) == calls[k].id
<1>1. calls \in Seq(Call) /\ j \in {1, 2}
  BY CourseAssumption DEF Kierunki
<1>2. PICK m \in DOMAIN calls, n \in DOMAIN calls :
         /\ id(m) = id1 /\ id(n) = id2 /\ id1 # id2
         /\ 0 < calls[m].l /\ calls[m].l < calls[n].l
         /\ \A k \in (m + 1)..(n - 1) : id(k) # id1
         /\ \A k \in (n + 1)..(m - 1) : id(k) # id2
  BY DEF ReadInOrder
<1> HIDE DEF calls
<1>3. /\ m \in Nat /\ n \in Nat /\ m \in 1..Len(calls) /\ n \in 1..Len(calls) /\ m # n
      /\ calls[m].l \in Nat /\ calls[n].l \in Nat
  <2>1. m \in 1..Len(calls) /\ n \in 1..Len(calls)
    BY <1>1
  <2>2. calls[m] \in Call /\ calls[n] \in Call
    BY <1>1
  <2> QED BY <1>2, <2>1, <2>2 DEF Call
<1>4. PICK p \in {m, n} : m <= p /\ n <= p
  BY <1>3
<1>5. LastCall(calls, p, id1) = m
  <2>1. m \in 1..p /\ calls[m].id = id1 /\ \A k \in (m + 1)..p : calls[k].id # id1
    BY <1>2, <1>3, <1>4
  <2>2. \A x \in 1..p : (calls[x].id = id1 /\ \A k \in (x + 1)..p : calls[k].id # id1) => x = m
    <3> SUFFICES ASSUME NEW x \in 1..p, calls[x].id = id1, x # m,
                        \A k \in (x + 1)..p : calls[k].id # id1
                 PROVE  FALSE
      OBVIOUS
    <3>1. p \in Nat /\ x \in Nat
      BY <1>3
    <3>2. CASE x < m
      BY <2>1, <3>1, <3>2, <1>3, <1>4
    <3>3. CASE m < x
      BY <2>1, <3>1, <3>3, <1>3
    <3> QED BY <3>1, <3>2, <3>3, <1>3
  <2> QED BY <2>1, <2>2 DEF LastCall
<1>6. LastCall(calls, p, id2) = n
  <2>1. n \in 1..p /\ calls[n].id = id2 /\ \A k \in (n + 1)..p : calls[k].id # id2
    BY <1>2, <1>3, <1>4
  <2>2. \A x \in 1..p : (calls[x].id = id2 /\ \A k \in (x + 1)..p : calls[k].id # id2) => x = n
    <3> SUFFICES ASSUME NEW x \in 1..p, calls[x].id = id2, x # n,
                        \A k \in (x + 1)..p : calls[k].id # id2
                 PROVE  FALSE
      OBVIOUS
    <3>1. p \in Nat /\ x \in Nat
      BY <1>3
    <3>2. CASE x < n
      BY <2>1, <3>1, <3>2, <1>3, <1>4
    <3>3. CASE n < x
      BY <2>1, <3>1, <3>3, <1>3
    <3> QED BY <3>1, <3>2, <3>3, <1>3
  <2> QED BY <2>1, <2>2 DEF LastCall
<1> DEFINE a == After(r, calls, j, p)
<1>7. /\ a.indeks1 = calls[m].l /\ a.indeks2 = calls[n].l
      /\ a.kierunek1 = j /\ a.kierunek2 = j
  <2>1. /\ \E k \in 1..p : calls[k].id = id1
        /\ \E k \in 1..p : calls[k].id = id2
    BY <1>2, <1>3, <1>4
  <2> QED BY <2>1, <1>5, <1>6 DEF After
<1>8. Matches(a)
  <2> HIDE DEF a
  <2> QED BY <1>1, <1>2, <1>3, <1>7 DEF Matches
<1>9. p \in 1..Len(calls)
  BY <1>3
<1> QED BY <1>8, <1>9 DEF calls

\* The list of a search that starts at least one loop holds every line it repeats.
LEMMA RepeatedCovers ==
  ASSUME NEW S \in SUBSET Lines, NEW s \in Listings(S), NEW times \in Nat \ {0}
  PROVE  \A x \in S : \E i \in DOMAIN Repeated(s, times) : Repeated(s, times)[i] = x
<1>1. IsFiniteSet(S) /\ Cardinality(S) \in Nat
  BY LinesAssumption, FS_Subset, FS_CardinalityType
<1> DEFINE k == Cardinality(S)
<1>2. /\ s \in [1..k -> S] /\ Len(s) = k
      /\ \A x \in S : \E n \in 1..k : s[n] = x
  BY <1>1 DEF Listings
<1>3. Repeated(s, times) = [i \in 1..(k * times) |-> s[((i - 1) % k) + 1]]
  BY <1>2 DEF Repeated
<1> HIDE DEF k
<1> SUFFICES ASSUME NEW x \in S
             PROVE  \E i \in DOMAIN Repeated(s, times) : Repeated(s, times)[i] = x
  OBVIOUS
<1>4. PICK n \in 1..k : s[n] = x
  BY <1>2
<1>5. k \in Nat /\ k # 0 /\ n - 1 \in Nat /\ n - 1 < k
  BY <1>1, <1>4 DEF k
<1>6. (n - 1) % k = n - 1
  BY <1>5
<1>7. k <= k * times
  BY <1>5
<1>8. n \in 1..(k * times)
  BY <1>5, <1>7
<1>9. Repeated(s, times)[n] = s[((n - 1) % k) + 1]
  BY <1>3, <1>8
<1>10. ((n - 1) % k) + 1 = n
  BY <1>6, <1>5
<1> QED BY <1>3, <1>4, <1>8, <1>9, <1>10

\* The steps other than a pick keep D, or let it grow.
LEMMA ShownGrows ==
  ASSUME TypeOK, NEW c \in Searches, NEW q \in pending[c], CourseAnswered(c, q)
  PROVE  Shown \subseteq Shown'
<1>1. D' = Including(C[c][q[2]]) \/ D' = D
  BY DEF CourseAnswered
<1>2. C[c][q[2]] \in Lines /\ D \in [Lines -> Nat]
  BY DEF TypeOK
<1>3. \A line \in Lines : D[line] > 0 => D'[line] > 0
  BY <1>1, <1>2 DEF Including
<1> QED BY <1>3 DEF Shown

\* An answer shows its line if the two ranks come together in its direction.
LEMMA AnswerShows ==
  ASSUME TypeOK, NEW c \in Searches, NEW q \in pending[c], CourseAnswered(c, q),
         ReadInOrder(C[c][q[2]], q[3], id1, id2)
  PROVE  C[c][q[2]] \in Shown'
<1> DEFINE line == C[c][q[2]]
           calls == course[line][q[3]]
<1>1. line \in Lines /\ q[3] \in Kierunki /\ reg[c] \in Registers
  BY DEF TypeOK
<1>2. \E n \in 1..Len(calls) : Matches(After(reg[c], calls, q[3], n))
  BY <1>1, TogetherMatches
<1>3. D' = Including(line)
  BY <1>2 DEF CourseAnswered
<1>4. D' \in [Lines -> Nat] /\ D'[line] > 0
  <2> HIDE DEF line
  <2> QED BY <1>1, <1>3 DEF Including, TypeOK
<1> QED BY <1>1, <1>4 DEF Shown

\* With the page on the screen a loop starts at the last document at the latest.
LEMMA SomeLoopStarts ==
  ASSUME TypeOK, mounted, Picked
  PROVE  Starting # {}
<1>1. PICK a \in Docs, b \in Docs : StopDocs[a] = id1 /\ StopDocs[b] = id2
  BY StopDocsAssumption DEF TypeOK, Picked, Docs
<1>2. Len(StopDocs) \in Nat
  BY StopDocsAssumption
<1> DEFINE d == Len(StopDocs)
<1>3. d \in Docs /\ a \in 1..d /\ b \in 1..d
  BY <1>1, <1>2 DEF Docs
<1>4. d \in Starting
  <2> HIDE DEF d
  <2> QED BY <1>1, <1>3 DEF Starting
<1> QED BY <1>4

\* The latest search goes through every line of the trip in both directions, for
\* any data, user and delay, as long as no answer is lost.
THEOREM LatestCoversStep ==
  ASSUME ~NetworkLoses, TypeOK, LoopsInList, LatestCovers, [Next]_vars
  PROVE  LatestCovers'
<1>0. searches \in Nat
  BY DEF TypeOK
<1>1. ASSUME NEW s \in Stops, PickFrom(s) \/ PickTo(s) PROVE LatestCovers'
  <2>1. ASSUME Picked'
        PROVE  searches' > 0 /\ searches' \in stopsQuery'
    <3>1. searches' = searches + 1 /\ stopsQuery' = stopsQuery \cup {searches + 1}
      BY <1>1, <2>1 DEF PickFrom, PickTo, calculateLines, Picked
    <3> QED BY <1>0, <3>1
  <2> QED BY <2>1 DEF LatestCovers
<1>2. CASE dispose
  BY <1>2 DEF dispose, LatestCovers
\* Whatever another search does, and as long as D only grows, nothing is forgotten.
<1>3. ASSUME UNCHANGED <<mounted, id1, id2, searches>>,
             searches \in stopsQuery' => searches \in stopsQuery,
             searches \notin stopsQuery' => searches \notin stopsQuery,
             searches > 0 => /\ C'[searches] = C[searches]
                             /\ asleep'[searches] = asleep[searches]
                             /\ pending'[searches] = pending[searches],
             Shown \subseteq Shown'
      PROVE  LatestCovers'
  BY <1>0, <1>3 DEF LatestCovers, Picked, CommonLines, ToCome, Awaited
<1>4. ASSUME NEW c \in Searches, StopsAnswered(c) PROVE LatestCovers'
  <2>1. /\ c \in stopsQuery /\ stopsQuery' = stopsQuery \ {c}
        /\ UNCHANGED <<mounted, id1, id2, searches, D>>
    BY <1>4 DEF StopsAnswered, picks
  <2>2. Picked
    BY <2>1 DEF TypeOK
  <2>3. PICK loops \in SUBSET Docs :
            /\ pending'[c] = loops \X {1} \X Kierunki
            /\ asleep'[c] = loops \X {2}
            /\ loops # {} => 1 <= Len(C'[c])
            /\ Len(C'[c]) \in Nat
            /\ \A b \in Searches \ {c} :
                  pending'[b] = pending[b] /\ asleep'[b] = asleep[b] /\ C'[b] = C[b]
    BY <1>4, ListsGrow
  <2>4. CASE searches # c
    <3>1. searches > 0 => searches \in Searches
      BY <1>0 DEF TypeOK, Searches
    <3>2. searches > 0 => /\ C'[searches] = C[searches]
                          /\ asleep'[searches] = asleep[searches]
                          /\ pending'[searches] = pending[searches]
      BY <2>3, <2>4, <3>1
    <3>3. Shown' = Shown
      BY <2>1 DEF Shown
    <3> QED BY <1>3, <2>1, <2>4, <3>2, <3>3
  <2>5. CASE searches = c /\ ~mounted
    BY <2>1, <2>5 DEF LatestCovers
  <2>6. CASE searches = c /\ mounted
    <3> DEFINE S == IF CommonLines = {} THEN {} ELSE Starting
               k == Cardinality(S)
    <3>1. CommonLines \in SUBSET Lines
      BY <2>2, LinieAssumption DEF TypeOK, Picked, CommonLines, Common
    <3>2. PICK s \in Listings(CommonLines) : C' = [C EXCEPT ![c] = Repeated(s, k)]
      BY <1>4 DEF StopsAnswered
    <3>3. /\ pending' = [pending EXCEPT ![c] = S \X {1} \X Kierunki]
          /\ asleep' = [asleep EXCEPT ![c] = S \X {2}]
      BY <1>4 DEF StopsAnswered
    <3>4. S \subseteq Docs /\ IsFiniteSet(S) /\ k \in Nat /\ (S = {} <=> k = 0)
      <4>1. S \subseteq Docs
        BY DEF Starting
      <4>2. IsFiniteSet(Docs)
        BY StopDocsAssumption, FS_Interval DEF Docs
      <4> HIDE DEF S
      <4> QED BY <4>1, <4>2, FS_Subset, FS_CardinalityType, FS_EmptySet
    <3>5. CommonLines # {} => S # {}
      BY <2>2, <2>6, SomeLoopStarts
    <3>6. ASSUME NEW line \in CommonLines
          PROVE  \E i \in DOMAIN C'[c] : C'[c][i] = line
      <4> HIDE DEF S, k
      <4>1. k \in Nat \ {0}
        BY <3>4, <3>5, <3>6
      <4>2. C'[c] = Repeated(s, k)
        BY <3>2 DEF TypeOK
      <4> QED BY <3>1, <4>1, <4>2, RepeatedCovers
    <3>7. ASSUME NEW i \in DOMAIN C'[c], NEW j \in Kierunki
          PROVE  ToCome(i)' \/ Awaited(i, j)'
      <4> HIDE DEF S, k
      <4>1. CommonLines # {}
        BY <1>4, <3>7, StopsAnsweredLists
      <4>2. PICK d \in S : d \in Docs
        BY <3>4, <3>5, <4>1
      <4>3. asleep'[c] = S \X {2} /\ pending'[c] = S \X {1} \X Kierunki
        BY <3>3 DEF TypeOK
      <4>4. i \in Nat /\ i # 0
        <5>1. C'[c] \in Seq(Lines)
          BY <1>4, StopsAnsweredLists
        <5> QED BY <5>1
      <4>5. CASE i = 1
        <5>1. <<d, 1, j>> \in pending'[c]
          BY <4>2, <4>3
        <5>2. \E q \in pending'[c] : q[2] = i /\ q[3] = j
          BY <4>5, <5>1
        <5> QED BY <2>1, <2>6, <5>2 DEF Awaited
      <4>6. CASE 2 <= i
        <5>1. <<d, 2>> \in asleep'[c]
          BY <4>2, <4>3
        <5>2. \E t \in asleep'[c] : t[2] <= i
          BY <4>6, <5>1
        <5> QED BY <2>1, <2>6, <5>2 DEF ToCome
      <4> QED BY <4>4, <4>5, <4>6
    <3> HIDE DEF S, k
    <3>8. CommonLines' = CommonLines /\ searches' = c /\ searches > 0
      BY <1>0, <2>1, <2>6 DEF CommonLines, Searches
    <3>9. \A line \in CommonLines' : \E i \in DOMAIN C'[searches'] : C'[searches'][i] = line
      BY <3>6, <3>8
    <3>10. \A i \in DOMAIN C'[searches'], j \in Kierunki : ToCome(i)' \/ Awaited(i, j)'
      BY <3>7, <3>8
    <3>11. searches' > 0
      BY <3>8, <2>6
    <3> QED BY <3>9, <3>10, <3>11 DEF LatestCovers
  <2> QED BY <2>4, <2>5, <2>6
<1>5. ASSUME NEW c \in Searches, UNCHANGED <<mounted, id1, id2, searches, stopsQuery, C>>,
             Shown \subseteq Shown',
             \A b \in Searches \ {c} : asleep'[b] = asleep[b] /\ pending'[b] = pending[b],
             c = searches => \A i \in DOMAIN C[c], j \in Kierunki :
                \/ ToCome(i) => ToCome(i)' \/ Awaited(i, j)'
             ,
             c = searches => \A i \in DOMAIN C[c], j \in Kierunki :
                \/ Awaited(i, j) => \/ Awaited(i, j)'
                                    \/ ReadInOrder(C[c][i], j, id1, id2) => C[c][i] \in Shown'
      PROVE  LatestCovers'
  <2>1. CASE c # searches
    <3>1. searches > 0 => searches \in Searches
      BY <1>0 DEF TypeOK, Searches
    <3>2. searches > 0 => /\ C'[searches] = C[searches]
                          /\ asleep'[searches] = asleep[searches]
                          /\ pending'[searches] = pending[searches]
      BY <1>5, <2>1, <3>1
    <3>3. /\ UNCHANGED <<mounted, id1, id2, searches, stopsQuery>>
          /\ Shown \subseteq Shown'
      BY <1>5
    <3> QED BY <1>3, <3>2, <3>3
  <2>2. CASE c = searches /\ mounted /\ Picked /\ searches \notin stopsQuery
    <3>1. /\ searches > 0
          /\ \A line \in CommonLines : \E i \in DOMAIN C[c] : C[c][i] = line
          /\ \A i \in DOMAIN C[c], j \in Kierunki :
                \/ ToCome(i)
                \/ Awaited(i, j)
                \/ ReadInOrder(C[c][i], j, id1, id2) => C[c][i] \in Shown
      BY <2>2 DEF LatestCovers
    <3>2. ASSUME NEW i \in DOMAIN C[c], NEW j \in Kierunki
          PROVE  \/ ToCome(i)'
                 \/ Awaited(i, j)'
                 \/ ReadInOrder(C[c][i], j, id1, id2) => C[c][i] \in Shown'
      BY <1>5, <2>2, <3>1
    <3>3. searches' = c /\ C' = C /\ id1' = id1 /\ id2' = id2 /\ CommonLines' = CommonLines
      BY <1>5, <2>2 DEF CommonLines
    <3> QED BY <3>1, <3>2, <3>3, <2>2 DEF LatestCovers
  <2>3. CASE c = searches /\ ~(mounted /\ Picked /\ searches \notin stopsQuery)
    <3>1. mounted /\ Picked => searches > 0
      BY DEF LatestCovers
    <3> QED BY <1>5, <2>3, <3>1 DEF LatestCovers, Picked
  <2> QED BY <2>1, <2>2, <2>3
<1>6. ASSUME NEW c \in Searches, NEW t \in asleep[c], NextLine(c, t) PROVE LatestCovers'
  <2>1. /\ t \in Docs \X Nat
        /\ UNCHANGED <<mounted, id1, id2, D, searches, stopsQuery, C>>
        /\ pending' = [pending EXCEPT ![c] = @ \cup ({t[1]} \X {t[2]} \X Kierunki)]
        /\ asleep' = [asleep EXCEPT ![c] = (@ \ {t}) \cup {<<t[1], t[2] + 1>>}]
    BY <1>6, NextLineFacts
  <2>2. /\ pending'[c] = pending[c] \cup ({t[1]} \X {t[2]} \X Kierunki)
        /\ asleep'[c] = (asleep[c] \ {t}) \cup {<<t[1], t[2] + 1>>}
        /\ \A b \in Searches \ {c} : asleep'[b] = asleep[b] /\ pending'[b] = pending[b]
    BY <2>1 DEF TypeOK
  <2>3. ASSUME c = searches, NEW i \in DOMAIN C[c], NEW j \in Kierunki, ToCome(i)
        PROVE  ToCome(i)' \/ Awaited(i, j)'
    <3>0. i \in Nat /\ searches' = c
      BY <2>1, <2>3 DEF TypeOK
    <3>1. PICK u \in asleep[c] : u[2] <= i
      BY <2>3 DEF ToCome
    <3>2. CASE u # t
      BY <2>2, <3>0, <3>1, <3>2 DEF ToCome
    <3>3. CASE u = t /\ t[2] = i
      <4>1. <<t[1], t[2], j>> \in pending'[c]
        BY <2>2
      <4>2. \E q \in pending'[c] : q[2] = i /\ q[3] = j
        BY <3>3, <4>1
      <4> QED BY <3>0, <4>2 DEF Awaited
    <3>4. CASE u = t /\ t[2] # i
      <4>1. t[2] + 1 <= i
        BY <2>1, <3>0, <3>1, <3>4
      <4>2. <<t[1], t[2] + 1>> \in asleep'[c]
        BY <2>2
      <4>3. \E v \in asleep'[c] : v[2] <= i
        BY <4>1, <4>2
      <4> QED BY <3>0, <4>3 DEF ToCome
    <3> QED BY <3>2, <3>3, <3>4
  <2>4. ASSUME c = searches, NEW i \in DOMAIN C[c], NEW j \in Kierunki, Awaited(i, j)
        PROVE  Awaited(i, j)'
    BY <2>1, <2>2, <2>4 DEF Awaited
  <2>5. Shown' = Shown
    BY <2>1 DEF Shown
  <2> QED BY <1>5, <2>1, <2>2, <2>3, <2>4, <2>5
<1>7. ASSUME NEW c \in Searches, NEW t \in asleep[c], LoopEnds(c, t) PROVE LatestCovers'
  <2>1. /\ t[2] \notin 1..Len(C[c])
        /\ UNCHANGED <<mounted, id1, id2, D, searches, stopsQuery, C, pending>>
        /\ asleep' = [asleep EXCEPT ![c] = @ \ {t}]
    BY <1>7, LoopEndsFacts
  <2>2. /\ asleep'[c] = asleep[c] \ {t}
        /\ \A b \in Searches \ {c} : asleep'[b] = asleep[b] /\ pending'[b] = pending[b]
    BY <2>1 DEF TypeOK
  <2>3. t[2] \in 1..(Len(C[c]) + 1)
    BY DEF LoopsInList
  <2>4. C[c] \in Seq(Lines) /\ Len(C[c]) \in Nat
    BY DEF TypeOK
  <2>5. ASSUME c = searches, NEW i \in DOMAIN C[c], NEW j \in Kierunki, ToCome(i)
        PROVE  ToCome(i)'
    <3>1. PICK u \in asleep[c] : u[2] <= i
      BY <2>5 DEF ToCome
    <3>2. i \in 1..Len(C[c])
      BY <2>4
    <3>3. u # t
      BY <2>1, <2>3, <2>4, <3>1, <3>2
    <3> QED BY <2>1, <2>2, <2>5, <3>1, <3>3 DEF ToCome
  <2>6. ASSUME c = searches, NEW i \in DOMAIN C[c], NEW j \in Kierunki, Awaited(i, j)
        PROVE  Awaited(i, j)'
    BY <2>1, <2>6 DEF Awaited
  <2>7. Shown' = Shown
    BY <2>1 DEF Shown
  <2> QED BY <1>5, <2>1, <2>2, <2>5, <2>6, <2>7
<1>8. ASSUME NEW c \in Searches, NEW p \in pending[c], CourseAnswered(c, p)
      PROVE  LatestCovers'
  <2>1. /\ UNCHANGED <<mounted, id1, id2, searches, stopsQuery, C, asleep>>
        /\ pending' = [pending EXCEPT ![c] = @ \ {p}]
    BY <1>8 DEF CourseAnswered, picks
  <2>2. /\ pending'[c] = pending[c] \ {p}
        /\ \A b \in Searches \ {c} : asleep'[b] = asleep[b] /\ pending'[b] = pending[b]
    BY <2>1 DEF TypeOK
  <2>3. Shown \subseteq Shown'
    BY <1>8, ShownGrows
  <2>4. ASSUME c = searches, NEW i \in DOMAIN C[c], NEW j \in Kierunki, ToCome(i)
        PROVE  ToCome(i)'
    BY <2>1, <2>4 DEF ToCome
  <2>5. ASSUME c = searches, NEW i \in DOMAIN C[c], NEW j \in Kierunki, Awaited(i, j)
        PROVE  \/ Awaited(i, j)'
               \/ ReadInOrder(C[c][i], j, id1, id2) => C[c][i] \in Shown'
    <3>1. PICK q \in pending[c] : q[2] = i /\ q[3] = j
      BY <2>5 DEF Awaited
    <3>2. CASE q # p
      <4>1. q \in pending'[c] /\ searches' = c
        BY <2>1, <2>2, <2>5, <3>2
      <4> QED BY <3>1, <4>1 DEF Awaited
    <3>3. CASE q = p
      BY <1>8, <3>1, <3>3, AnswerShows
    <3> QED BY <3>2, <3>3
  <2> QED BY <1>5, <2>1, <2>2, <2>3, <2>4, <2>5
<1>9. CASE UNCHANGED vars
  <2>1. Shown' = Shown
    BY <1>9 DEF vars, Shown
  <2> QED BY <1>3, <1>9, <2>1 DEF vars, picks, locals
<1> QED BY <1>1, <1>2, <1>4, <1>6, <1>7, <1>8, <1>9
        DEF Next, User, Background, Loss, StopsLost, CourseLost

\* As soon as the latest search is over the page shows every line whose ranks come
\* together, for any data, any delay and a user who does not wait: overtaken
\* searches, registers that mix lines and loops that start twice hide none.
THEOREM PlannerAllShown ==
  ASSUME ~NetworkLoses
  PROVE  Spec => []AllShownWhenOver
<1>1. Init => LoopsInList /\ LatestCovers
  BY DEF Init, LoopsInList, LatestCovers, Picked
<1>2. TypeOK /\ (LoopsInList /\ LatestCovers) /\ [Next]_vars => (LoopsInList /\ LatestCovers)'
  BY LoopsInListStep, LatestCoversStep
<1>3. TypeOK /\ LatestCovers => AllShownWhenOver
  <2> SUFFICES ASSUME TypeOK, LatestCovers, mounted, Picked,
                      \A c \in Searches : c = searches => c \notin stopsQuery /\ ~Going(c),
                      NEW line \in Common(id1, id2), ReadTogether(line, id1, id2)
               PROVE  line \in Shown
    BY DEF AllShownWhenOver
  <2>1. searches \in Searches /\ searches > 0
    BY DEF LatestCovers, TypeOK, Searches
  <2>2. searches \notin stopsQuery /\ asleep[searches] = {} /\ pending[searches] = {}
    BY <2>1 DEF Going
  <2>3. PICK i \in DOMAIN C[searches] : C[searches][i] = line
    BY <2>2 DEF LatestCovers, CommonLines
  <2>4. PICK j \in Kierunki : ReadInOrder(line, j, id1, id2)
    BY DEF ReadTogether
  <2>5. ~ToCome(i) /\ ~Awaited(i, j)
    BY <2>2 DEF ToCome, Awaited
  <2> QED BY <2>2, <2>3, <2>4, <2>5 DEF LatestCovers
<1> QED BY <1>1, <1>2, <1>3, TypeCorrect, PTL DEF Spec

\* So all that the box owes the user in the end is that the searches end.
THEOREM PlannerAllShownIfSearchesEnd ==
  ASSUME ~NetworkLoses
  PROVE  Spec /\ SearchesEnd => AllDirectShown
<1> DEFINE AllIn == mounted /\ Picked =>
              \A line \in Common(id1, id2) : ReadTogether(line, id1, id2) => line \in Shown
<1>1. AllShownWhenOver /\ Idle => AllIn
  BY DEF AllShownWhenOver, Idle, Going
<1>2. AllDirectShown <=> <>[]AllIn
  BY DEF AllDirectShown
<1> HIDE DEF AllIn
<1> QED BY <1>1, <1>2, PlannerAllShown, PTL DEF SearchesEnd

\* No course calls twice at a stop: there are no circular lines.
CallsOnce ==
  \A line \in Lines, j \in Kierunki : \A m, n \in DOMAIN course[line][j] :
     course[line][j][m].id = course[line][j][n].id => m = n

\* A line that calls once at each stop is lost by no order of its documents.
LEMMA DirectIsReadTogether ==
  ASSUME CallsOnce, NEW from \in Stops, NEW to \in Stops, NEW line \in DirectLines(from, to)
  PROVE  ReadTogether(line, from, to)
<1>1. PICK j \in Kierunki : RunsInOrder(line, j, from, to)
  BY DEF DirectLines
<1> DEFINE calls == course[line][j]
<1>2. PICK m \in DOMAIN calls, n \in DOMAIN calls :
         /\ calls[m].id = from /\ calls[n].id = to
         /\ 0 < calls[m].l /\ calls[m].l < calls[n].l
  BY <1>1 DEF RunsInOrder
<1>3. line \in Lines /\ calls \in Seq(Call)
  BY CourseAssumption, LinieAssumption DEF DirectLines, Common
<1>4. m \in 1..Len(calls) /\ n \in 1..Len(calls) /\ DOMAIN calls = 1..Len(calls)
  BY <1>3
<1>5. \A k \in DOMAIN calls : /\ calls[k].id = from => k = m
                              /\ calls[k].id = to => k = n
  BY <1>2, <1>3 DEF CallsOnce
<1>6. from # to
  <2> SUFFICES ASSUME from = to PROVE FALSE
    OBVIOUS
  <2>1. m = n
    BY <1>2, <1>5
  <2>2. calls[m] \in Call
    BY <1>3, <1>4
  <2> QED BY <1>2, <2>1, <2>2 DEF Call
<1> HIDE DEF calls
<1>7. /\ \A k \in (m + 1)..(n - 1) : calls[k].id # from
      /\ \A k \in (n + 1)..(m - 1) : calls[k].id # to
  BY <1>4, <1>5
<1>8. ReadInOrder(line, j, from, to)
  BY <1>2, <1>6, <1>7 DEF ReadInOrder, calls
<1> QED BY <1>8 DEF ReadTogether

\* Where no line is circular, a user who waits and a network in time find in the
\* box, once the search is over, the direct lines of the trip and no other.
THEOREM PlannerShowsTrip ==
  ASSUME UserWaits, Lag = 0, ~NetworkLoses, CallsOnce
  PROVE  Spec => [](mounted /\ Picked /\ Idle => Shown = DirectLines(id1, id2))
<1>1. TypeOK /\ ShownIsDirect /\ AllShownWhenOver
        => (mounted /\ Picked /\ Idle => Shown = DirectLines(id1, id2))
  <2> SUFFICES ASSUME TypeOK, ShownIsDirect, AllShownWhenOver, mounted, Picked, Idle
               PROVE  Shown = DirectLines(id1, id2)
    OBVIOUS
  <2>1. id1 \in Stops /\ id2 \in Stops
    BY DEF TypeOK, Picked
  <2>2. \A c \in Searches : c \notin stopsQuery /\ ~Going(c)
    BY DEF Idle, Going
  <2>3. ASSUME NEW line \in DirectLines(id1, id2) PROVE line \in Shown
    <3>1. ReadTogether(line, id1, id2)
      BY <2>1, DirectIsReadTogether
    <3>2. line \in Common(id1, id2)
      BY DEF DirectLines
    <3> QED BY <2>2, <3>1, <3>2 DEF AllShownWhenOver
  <2>4. Shown \subseteq DirectLines(id1, id2)
    BY DEF ShownIsDirect
  <2> QED BY <2>3, <2>4
<1>2. Spec => []ShownIsDirect
  BY PlannerShownIsDirect
<1>3. Spec => []AllShownWhenOver
  BY PlannerAllShown
<1> QED BY <1>1, <1>2, <1>3, TypeCorrect, PTL
=============================================================================
