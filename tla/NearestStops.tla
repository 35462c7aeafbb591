---------------------------- MODULE NearestStops ----------------------------
(***************************************************************************)
(* The list of the page 'Najblizsze przystanki': nearStops() of            *)
(* lib/Pages/NearStops.dart, which goes through the documents of           *)
(* 'Przystanki' each time a position has come, and puts each stop into the *)
(* first of four rows whose distance is greater, or not set.               *)
(*                                                                         *)
(* A step is one document.  One answer is gone through without a pause;    *)
(* answers for different positions come in any order, so the next answer   *)
(* may be for any position.  The code counts the rows from 0.              *)
(***************************************************************************)
EXTENDS Integers, FiniteSets

CONSTANTS
  Docs,    \* the documents are 1..Docs, in snapshot order
  name,    \* name[k]: the name of the stop of document k
  Blank,   \* the name '' of a row that shows no stop
  Spots,   \* the positions of the phone
  Maps     \* the distances there may be: map[p][k] from position p to document k

ASSUME NearestAssumption ==
  /\ Docs \in Nat
  /\ Blank \notin {name[k] : k \in 1..Docs}
  /\ Maps \subseteq [Spots -> [1..Docs -> Nat]]

VARIABLES
  map,    \* the distances (fixed)
  here,   \* the position the current answer is for
  next,   \* the document whose turn it is
  got,    \* some answer has been gone through to the end
  id,     \* id[i]: the name in row i
  od      \* od[i]: the distance the code keeps for row i; 0 if none

vars == <<map, here, next, got, id, od>>

Rows == 1..4
Names == {name[k] : k \in 1..Docs}

TypeOK ==
  /\ map \in Maps
  /\ here \in Spots
  /\ next \in 1..(Docs + 1)
  /\ got \in BOOLEAN
  /\ id \in [Rows -> Names \cup {Blank}]
  /\ od \in [Rows -> Nat]

Init ==
  /\ map \in Maps
  /\ here \in Spots
  /\ next = 1
  /\ got = FALSE
  /\ id = [i \in Rows |-> Blank]
  /\ od = [i \in Rows |-> 0]

-----------------------------------------------------------------------------
\* Mutant of Yields: the comparison is the wrong way round.
YieldsToFarther(i, odleglosc) == odleglosc > od[i] \/ od[i] = 0

\* The row has no distance or a greater one.
Yields(i, odleglosc) == odleglosc < od[i] \/ od[i] = 0

\* Row i is the first that yields.
Takes(i, odleglosc) ==
  /\ Yields(i, odleglosc)
  /\ \A h \in Rows : h < i => ~Yields(h, odleglosc)

\* Mutant of Shifted: the new distance goes to the end of the list.
ShiftedToEnd(i, odleglosc) == [od EXCEPT ![4] = odleglosc]

\* The new distance in row i.  The exchanges of the inner loop then carry the
\* distance that was there to the last row and move those from i + 2 on one row
\* up; the distance of row i + 1 is overwritten, and no name moves.
Shifted(i, odleglosc) ==
  [h \in Rows |-> IF h < i THEN od[h]
                  ELSE IF h = i THEN odleglosc
                  ELSE IF h = 4 THEN od[i]
                  ELSE od[h + 1]]

\* The distances of rows h - 1 and h change places.
Exchange(s, h) == [s EXCEPT ![h] = s[h - 1], ![h - 1] = s[h]]

\* The same as the code writes it: the overwritten distance goes to row i + 1, if
\* there is one, and the exchanges start at row i + 2.
LoopShift(s, i, odleglosc) ==
  LET a == [s EXCEPT ![i] = odleglosc]
      b == IF i # 4 THEN [a EXCEPT ![i + 1] = s[i]] ELSE a
      c == IF i + 2 <= 4 THEN Exchange(b, i + 2) ELSE b
  IN IF i + 3 <= 4 THEN Exchange(c, i + 3) ELSE c

\* Mutant of IsListed: a name is looked for in the first row only.
IsListedFirst(n) == id[1] = n

IsListed(n) == \E i \in Rows : id[i] = n

\* The turn of one document.
Visit ==
  /\ next <= Docs
  /\ next' = next + 1
  /\ got' = (got \/ next = Docs)
  /\ LET odleglosc == map[here][next] IN
       \/ /\ ~IsListed(name[next])
          /\ \E i \in Rows :
                /\ Takes(i, odleglosc)
                /\ id' = [id EXCEPT ![i] = name[next]]
                /\ od' = Shifted(i, odleglosc)
       \/ /\ IsListed(name[next]) \/ \A i \in Rows : ~Yields(i, odleglosc)
          /\ UNCHANGED <<id, od>>
  /\ UNCHANGED <<map, here>>

\* Mutant of nearStops: the documents are counted from 0.
nearStopsFromZero ==
  /\ next > Docs
  /\ next' = 0
  /\ here' \in Spots
  /\ UNCHANGED <<map, got, id, od>>

\* The next answer has come.
nearStops ==
  /\ next > Docs
  /\ next' = 1
  /\ here' \in Spots
  /\ UNCHANGED <<map, got, id, od>>

Next == Visit \/ nearStops

Spec == Init /\ [][Next]_vars

-----------------------------------------------------------------------------
\* No stop is listed twice, whatever the positions and the order of the
\* answers, although rows are overwritten and the names do not move with the
\* distances.
NamesDistinct == \A h, i \in Rows : id[h] # Blank /\ id[h] = id[i] => h = i

\* The documents some answer has gone through.
Seen == IF got THEN 1..Docs ELSE 1..(next - 1)

\* No stop is at the very position of the phone (the code takes its distance 0
\* for no distance).
NoneAtPhone == \A p \in Spots : \A k \in 1..Docs : map[p][k] > 0

\* One document per name, too.
Tidy ==
  /\ \A h, k \in 1..Docs : name[h] = name[k] => h = k
  /\ NoneAtPhone

\* The phone keeps still, as far as the distances tell.
Still == \A p, q \in Spots : map[p] = map[q]

\* If the phone keeps still, the first row is right: it shows the nearest of the
\* stops seen, although the other rows lose stops and keep distances of other
\* stops.
FirstIsNearest ==
  Still /\ Tidy /\ Seen # {} =>
    \E k \in Seen : /\ id[1] = name[k]
                    /\ od[1] = map[here][k]
                    /\ \A m \in Seen : od[1] <= map[here][m]

\* Once a stop has been nearest, no farther one takes the first row, even when
\* the phone has moved away: the distance is not measured again.
FirstNeverFarther == [][od[1] # 0 => od'[1] <= od[1]]_vars

\* Away from the stops, however the phone moves, the rows come to rest, although a
\* name that is overwritten comes in again by another row, perhaps over one that is
\* nearer.  Each change is a setState, so that rows that never rested would build
\* the page, and query, for ever.
RowsSettle == NoneAtPhone => <>[][id' = id]_vars

\* Shifted, by which the other properties are proved, is what the loops compute,
\* for every row and distance a document may bring.
ShiftIsTheLoop ==
  \A i \in Rows : \A k \in 1..Docs :
    Shifted(i, map[here][k]) = LoopShift(od, i, map[here][k])

\* What the title 'Najblizsze przystanki:' says of the rows: when an answer has
\* been gone through, they show the four nearest stops.
ShowsFourNearest ==
  Still /\ Tidy /\ next > Docs =>
    \A k \in 1..Docs :
       Cardinality({m \in 1..Docs : map[here][m] < map[here][k]}) < 4 => IsListed(name[k])
=============================================================================
