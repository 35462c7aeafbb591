------------------------- MODULE NearestStopsProofs -------------------------
(***************************************************************************)
(* What the list of nearest stops does get right, for any number of stops. *)
(***************************************************************************)
EXTENDS NearestStops, TLAPS

THEOREM NearestTypeInit == Init => TypeOK
<1>1. 1 \in 1..(Docs + 1)
  BY NearestAssumption
<1>2. [i \in Rows |-> Blank] \in [Rows -> Names \cup {Blank}] /\ [i \in Rows |-> 0] \in [Rows -> Nat]
  OBVIOUS
<1> QED BY <1>1, <1>2 DEF Init, TypeOK

THEOREM NearestTypeStep == TypeOK /\ [Next]_vars => TypeOK'
<1> SUFFICES ASSUME TypeOK, [Next]_vars PROVE TypeOK'
  OBVIOUS
<1> USE NearestAssumption
<1>1. CASE Visit
  <2>1. /\ next \in 1..Docs /\ next' = next + 1 /\ got' \in BOOLEAN
        /\ UNCHANGED <<map, here>>
    BY <1>1 DEF Visit, TypeOK
  <2>2. map[here][next] \in Nat /\ name[next] \in Names
    BY <2>1 DEF TypeOK, Names
  <2>3. id' \in [Rows -> Names \cup {Blank}] /\ od' \in [Rows -> Nat]
    <3>1. CASE UNCHANGED <<id, od>>
      BY <3>1 DEF TypeOK
    <3>2. ASSUME NEW i \in Rows, id' = [id EXCEPT ![i] = name[next]],
                 od' = Shifted(i, map[here][next])
          PROVE  id' \in [Rows -> Names \cup {Blank}] /\ od' \in [Rows -> Nat]
      BY <2>2, <3>2 DEF Shifted, TypeOK, Rows
    <3> QED BY <1>1, <3>1, <3>2 DEF Visit
  <2> QED BY <2>1, <2>3 DEF TypeOK
<1>2. CASE nearStops
  BY <1>2 DEF nearStops, TypeOK
<1>3. CASE UNCHANGED vars
  BY <1>3 DEF vars, TypeOK
<1> QED BY <1>1, <1>2, <1>3 DEF Next

THEOREM NearestTypeCorrect == Spec => []TypeOK
BY NearestTypeInit, NearestTypeStep, PTL DEF Spec

\* No stop is in two rows.
THEOREM ListIsDistinct == Spec => []NamesDistinct
<1>1. Init => NamesDistinct
  BY DEF Init, NamesDistinct
<1>2. TypeOK /\ NamesDistinct /\ [Next]_vars => NamesDistinct'
  <2> SUFFICES ASSUME TypeOK, NamesDistinct, [Next]_vars PROVE NamesDistinct'
    OBVIOUS
  <2>1. CASE UNCHANGED id
    BY <2>1 DEF NamesDistinct
  <2>2. ASSUME NEW i \in Rows, ~IsListed(name[next]), id' = [id EXCEPT ![i] = name[next]]
        PROVE  NamesDistinct'
    BY <2>2 DEF NamesDistinct, IsListed, TypeOK
  <2> QED BY <2>1, <2>2 DEF Next, Visit, nearStops, vars
<1> QED BY <1>1, <1>2, NearestTypeCorrect, PTL DEF Spec

\* The first row changes hands only for a nearer stop.
LEMMA VisitFirstRow ==
  ASSUME TypeOK, Visit
  PROVE  \/ /\ id'[1] = id[1] /\ od'[1] = od[1]
            /\ IsListed(name[next]) \/ ~Yields(1, map[here][next])
         \/ /\ id'[1] = name[next] /\ od'[1] = map[here][next]
            /\ Yields(1, map[here][next])
<1> DEFINE o == map[here][next]
<1>1. CASE UNCHANGED <<id, od>> /\ (IsListed(name[next]) \/ \A i \in Rows : ~Yields(i, o))
  BY <1>1 DEF Rows
<1>2. ASSUME NEW i \in Rows, Takes(i, o), id' = [id EXCEPT ![i] = name[next]],
             od' = Shifted(i, o)
      PROVE  \/ id'[1] = id[1] /\ od'[1] = od[1] /\ ~Yields(1, o)
             \/ id'[1] = name[next] /\ od'[1] = o /\ Yields(1, o)
  <2>1. CASE i = 1
    BY <1>2, <2>1 DEF Takes, Shifted, TypeOK, Rows
  <2>2. CASE i # 1
    BY <1>2, <2>2 DEF Takes, Shifted, TypeOK, Rows
  <2> QED BY <2>1, <2>2
<1> QED BY <1>1, <1>2 DEF Visit

THEOREM FirstRowNeverFarther == Spec => FirstNeverFarther
<1>1. TypeOK /\ [Next]_vars => [od[1] # 0 => od'[1] <= od[1]]_vars
  <2> SUFFICES ASSUME TypeOK, Next, od[1] # 0 PROVE od'[1] <= od[1]
    BY DEF vars
  <2>1. od[1] \in Nat /\ \A p \in Spots : \A k \in 1..Docs : map[p][k] \in Nat
    BY NearestAssumption DEF TypeOK, Rows
  <2>2. CASE Visit
    <3>1. map[here][next] \in Nat
      BY <2>1, <2>2 DEF Visit, TypeOK
    <3> QED BY <2>1, <2>2, <3>1, VisitFirstRow DEF Yields
  <2>3. CASE nearStops
    BY <2>1, <2>3 DEF nearStops
  <2> QED BY <2>2, <2>3 DEF Next
<1> QED BY <1>1, NearestTypeCorrect, PTL DEF Spec, FirstNeverFarther

\* The list shows stops seen, and has no first distance as long as it has seen
\* none; an answer has been gone through if the last document has.
ListIsOfSeen ==
  /\ next > Docs => got \/ Docs = 0
  /\ \A i \in Rows : id[i] # Blank => \E k \in Seen : id[i] = name[k]
  /\ Seen = {} => od[1] = 0

\* If the phone keeps still, has no stop at its very position, and no two
\* documents share a name, the first row is the nearest stop seen.
THEOREM FirstRowIsNearest == Spec => []FirstIsNearest
<1> DEFINE Inv == ListIsOfSeen /\ FirstIsNearest
<1>1. Init => Inv
  BY NearestAssumption DEF Init, ListIsOfSeen, FirstIsNearest, Seen, Rows
<1>2. TypeOK /\ Inv /\ [Next]_vars => Inv'
  <2> SUFFICES ASSUME TypeOK, Inv, [Next]_vars PROVE Inv'
    OBVIOUS
  <2>1. CASE Visit
    <3> DEFINE o == map[here][next]
    <3>1. /\ next \in 1..Docs /\ next' = next + 1 /\ got' = (got \/ next = Docs)
          /\ UNCHANGED <<map, here>> /\ Docs \in Nat
      BY <2>1, NearestAssumption DEF Visit, TypeOK
    <3>2. Seen' = Seen \cup {next}
      BY <3>1 DEF Seen, TypeOK
    <3>3. ListIsOfSeen'
      <4>1. \A i \in Rows : id'[i] = id[i] \/ id'[i] = name[next]
        BY <2>1 DEF Visit, TypeOK
      <4>2. next' > Docs => got'
        <5>1. next' > Docs => next = Docs
          BY <3>1
        <5> QED BY <3>1, <5>1
      <4>3. Seen' # {}
        BY <3>2
      <4>4. ASSUME NEW i \in Rows, id'[i] # Blank PROVE \E k \in Seen' : id'[i] = name[k]
        <5>1. CASE id'[i] = id[i]
          BY <3>2, <4>4, <5>1 DEF ListIsOfSeen
        <5>2. CASE id'[i] = name[next]
          BY <3>2, <5>2
        <5> QED BY <4>1, <5>1, <5>2
      <4> QED BY <4>2, <4>3, <4>4 DEF ListIsOfSeen
    <3>4. ASSUME Still, Tidy' PROVE FirstIsNearest'
      <4>1. Tidy /\ o > 0 /\ o \in Nat /\ od[1] \in Nat
        <5>1. Tidy
          BY <3>1, <3>4 DEF Tidy, NoneAtPhone
        <5>2. o > 0
          BY <3>1, <5>1 DEF Tidy, NoneAtPhone, TypeOK
        <5>3. o \in Nat
          BY <3>1, NearestAssumption DEF TypeOK
        <5> QED BY <5>1, <5>2, <5>3 DEF TypeOK, Rows
      <4>2. CASE Seen = {}
        <5>1. od[1] = 0 /\ ~IsListed(name[next]) /\ Seen' = {next}
          BY <3>1, <3>2, <4>2, NearestAssumption DEF ListIsOfSeen, IsListed
        <5>2. id'[1] = name[next] /\ od'[1] = o
          BY <2>1, <5>1, VisitFirstRow DEF Yields
        <5> QED BY <3>1, <4>1, <5>1, <5>2 DEF FirstIsNearest
      <4>3. CASE Seen # {}
        <5>1. PICK k \in Seen : /\ id[1] = name[k] /\ od[1] = map[here][k]
                                /\ \A m \in Seen : od[1] <= map[here][m]
          BY <3>4, <4>1, <4>3 DEF FirstIsNearest
        <5>2. k \in 1..Docs /\ Seen \subseteq 1..Docs
          BY <3>1 DEF Seen, TypeOK
        <5>3. od[1] > 0
          BY <3>1, <4>1, <5>1, <5>2 DEF Tidy, NoneAtPhone, TypeOK
        <5>4. CASE /\ id'[1] = id[1] /\ od'[1] = od[1]
                   /\ IsListed(name[next]) \/ ~Yields(1, o)
          <6>1. CASE IsListed(name[next])
            <7>1. PICK s \in Seen : name[next] = name[s]
              BY <3>1, <6>1, NearestAssumption DEF IsListed, ListIsOfSeen
            <7>2. next = s
              BY <3>1, <4>1, <5>2, <7>1 DEF Tidy, NoneAtPhone
            <7> QED BY <3>1, <3>2, <5>1, <5>4, <7>1, <7>2 DEF FirstIsNearest
          <6>2. CASE ~Yields(1, o)
            <7>1. od[1] <= o
              BY <4>1, <6>2 DEF Yields
            <7> QED BY <3>1, <3>2, <5>1, <5>4, <7>1 DEF FirstIsNearest
          <6> QED BY <5>4, <6>1, <6>2
        <5>5. CASE id'[1] = name[next] /\ od'[1] = o /\ Yields(1, o)
          <6>1. o <= od[1]
            BY <4>1, <5>3, <5>5 DEF Yields
          <6>2. \A m \in Seen : o <= map[here][m]
            <7>1. \A m \in Seen : map[here][m] \in Nat
              <8>1. map \in [Spots -> [1..Docs -> Nat]] /\ here \in Spots
                BY NearestAssumption DEF TypeOK
              <8>2. map[here] \in [1..Docs -> Nat]
                BY <8>1
              <8> QED BY <5>2, <8>2
            <7> QED BY <4>1, <5>1, <6>1, <7>1
          <6> QED BY <3>1, <3>2, <4>1, <5>5, <6>2 DEF FirstIsNearest
        <5> QED BY <2>1, <5>4, <5>5, VisitFirstRow
      <4> QED BY <4>2, <4>3
    <3>5. ~Still \/ ~Tidy' => FirstIsNearest'
      BY <3>1 DEF FirstIsNearest, Still
    <3> QED BY <3>3, <3>4, <3>5
  <2>2. CASE nearStops
    <3>1. Seen' = Seen /\ (next' > Docs => got' \/ Docs = 0)
      BY <2>2, NearestAssumption DEF nearStops, Seen, TypeOK, ListIsOfSeen
    <3>2. Still => map[here'] = map[here]
      BY <2>2 DEF nearStops, Still, TypeOK
    <3>3. UNCHANGED <<map, id, od>>
      BY <2>2 DEF nearStops
    <3> QED BY <3>1, <3>2, <3>3 DEF ListIsOfSeen, FirstIsNearest, Still, Tidy, NoneAtPhone
  <2>3. CASE UNCHANGED vars
    BY <2>3 DEF vars, ListIsOfSeen, FirstIsNearest, Still, Tidy, NoneAtPhone, Seen
  <2> QED BY <2>1, <2>2, <2>3 DEF Next
<1>3. Inv => FirstIsNearest
  OBVIOUS
<1> HIDE DEF Inv
<1> QED BY <1>1, <1>2, <1>3, NearestTypeCorrect, PTL DEF Spec

\* What an exchange leaves in each row.
LEMMA Exchanged ==
  ASSUME NEW s \in [Rows -> Nat], NEW h \in 2..4
  PROVE  /\ Exchange(s, h) \in [Rows -> Nat]
         /\ \A k \in Rows : Exchange(s, h)[k] =
              IF k = h THEN s[h - 1] ELSE IF k = h - 1 THEN s[h] ELSE s[k]
<1>1. h \in Rows /\ h - 1 \in Rows /\ h # h - 1
  BY DEF Rows
<1> DEFINE t == [s EXCEPT ![h] = s[h - 1]]
<1>2. t \in [Rows -> Nat] /\ \A k \in Rows : t[k] = IF k = h THEN s[h - 1] ELSE s[k]
  BY <1>1
<1>3. Exchange(s, h) = [t EXCEPT ![h - 1] = s[h]]
  BY DEF Exchange
<1> HIDE DEF t
<1> QED BY <1>1, <1>2, <1>3

\* The inner loops of the code, which make at most two exchanges, one for each row
\* from i + 2 on, move the distances as Shifted says.
LEMMA LoopIsShift ==
  ASSUME od \in [Rows -> Nat], NEW i \in Rows, NEW x \in Nat
  PROVE  Shifted(i, x) = LoopShift(od, i, x)
<1> DEFINE a == [od EXCEPT ![i] = x]
           b == IF i # 4 THEN [a EXCEPT ![i + 1] = od[i]] ELSE a
           c == IF i + 2 <= 4 THEN Exchange(b, i + 2) ELSE b
           d == IF i + 3 <= 4 THEN Exchange(c, i + 3) ELSE c
<1>1. LoopShift(od, i, x) = d
  BY DEF LoopShift
<1>2. a \in [Rows -> Nat] /\ \A k \in Rows : a[k] = IF k = i THEN x ELSE od[k]
  OBVIOUS
<1>3. /\ b \in [Rows -> Nat]
      /\ \A k \in Rows : b[k] = IF k = i + 1 THEN od[i] ELSE a[k]
  <2> HIDE DEF a
  <2> QED BY <1>2 DEF Rows
<1>4. /\ c \in [Rows -> Nat]
      /\ \A k \in Rows : c[k] = IF k = i + 2 THEN b[k - 1]
                                ELSE IF k = i + 1 /\ k < 4 THEN b[k + 1] ELSE b[k]
  <2> HIDE DEF b
  <2>1. CASE i + 2 <= 4
    <3>1. i + 2 \in 2..4 /\ c = Exchange(b, i + 2)
      BY <2>1 DEF Rows
    <3> HIDE DEF c
    <3> QED BY <1>3, <2>1, <3>1, Exchanged DEF Rows
  <2>2. CASE ~(i + 2 <= 4)
    BY <1>3, <2>2 DEF Rows
  <2> QED BY <2>1, <2>2
<1>5. /\ d \in [Rows -> Nat]
      /\ \A k \in Rows : d[k] = IF k = i + 3 THEN c[k - 1]
                                ELSE IF k = i + 2 /\ k < 4 THEN c[k + 1] ELSE c[k]
  <2> HIDE DEF c
  <2>1. CASE i + 3 <= 4
    <3>1. i + 3 \in 2..4 /\ d = Exchange(c, i + 3)
      BY <2>1 DEF Rows
    <3> HIDE DEF d
    <3> QED BY <1>4, <2>1, <3>1, Exchanged DEF Rows
  <2>2. CASE ~(i + 3 <= 4)
    BY <1>4, <2>2 DEF Rows
  <2> QED BY <2>1, <2>2
<1> HIDE DEF a, b, c, d
<1>6. ASSUME NEW k \in Rows PROVE Shifted(i, x)[k] = d[k]
  <2>1. CASE i = 1
    BY <1>2, <1>3, <1>4, <1>5, <2>1 DEF Shifted, Rows
  <2>2. CASE i = 2
    BY <1>2, <1>3, <1>4, <1>5, <2>2 DEF Shifted, Rows
  <2>3. CASE i = 3
    BY <1>2, <1>3, <1>4, <1>5, <2>3 DEF Shifted, Rows
  <2>4. CASE i = 4
    BY <1>2, <1>3, <1>4, <1>5, <2>4 DEF Shifted, Rows
  <2> QED BY <2>1, <2>2, <2>3, <2>4 DEF Rows
<1>7. Shifted(i, x) = [k \in Rows |-> Shifted(i, x)[k]]
  BY DEF Shifted
<1> QED BY <1>1, <1>5, <1>6, <1>7

\* Shifted stands for the inner loops of the code, whatever the rows hold.
THEOREM ShiftStandsForTheLoop == Spec => []ShiftIsTheLoop
<1>1. TypeOK => ShiftIsTheLoop
  <2> SUFFICES ASSUME TypeOK, NEW i \in Rows, NEW k \in 1..Docs
               PROVE  Shifted(i, map[here][k]) = LoopShift(od, i, map[here][k])
    BY DEF ShiftIsTheLoop
  <2>1. map[here][k] \in Nat
    BY NearestAssumption DEF TypeOK
  <2> QED BY <2>1, LoopIsShift DEF TypeOK
<1> QED BY <1>1, NearestTypeCorrect, PTL

\* The distances s are nearer than t: less in the first row in which they differ.  No
\* distance (0) is more than any.
Nearer(s, t) ==
  \E i \in Rows :
     /\ \A h \in Rows : h < i => s[h] = t[h]
     /\ s[i] > 0
     /\ t[i] = 0 \/ s[i] < t[i]

\* Away from the stops, however the phone moves, each change of the names makes the
\* distances of the rows nearer, row by row from the first; so there is no endless
\* row of changes.  It is the variant of RowsSettle.
THEOREM NearestRowsGetNearer ==
  Spec => [][NoneAtPhone /\ id' # id => Nearer(od', od)]_vars
<1>1. TypeOK /\ [Next]_vars => [NoneAtPhone /\ id' # id => Nearer(od', od)]_vars
  <2> SUFFICES ASSUME TypeOK, Visit, NoneAtPhone, id' # id PROVE Nearer(od', od)
    BY DEF Next, nearStops, vars
  <2> DEFINE o == map[here][next]
  <2>1. o \in Nat /\ o > 0
    BY NearestAssumption DEF TypeOK, Visit, NoneAtPhone
  <2>2. PICK i \in Rows : Takes(i, o) /\ od' = Shifted(i, o)
    BY DEF Visit
  <2>3. \A h \in Rows : h < i => od'[h] = od[h]
    BY <2>2 DEF Shifted
  <2>4. od'[i] = o
    BY <2>2 DEF Shifted, Rows
  <2>5. od[i] = 0 \/ o < od[i]
    BY <2>2 DEF Takes, Yields
  <2> HIDE DEF o
  <2> QED BY <2>1, <2>3, <2>4, <2>5 DEF Nearer
<1> QED BY <1>1, NearestTypeCorrect, PTL DEF Spec
=============================================================================
