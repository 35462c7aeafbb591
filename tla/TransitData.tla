---------------------------- MODULE TransitData ----------------------------
(***************************************************************************)
(* The part of the Firestore database the trip planner reads: the          *)
(* collection 'Przystanki' (one document per stop, with its number 'id'    *)
(* and its list 'linie' of line numbers) and, for every line and           *)
(* direction, the collection 'Dni powszednie/<line>/<direction>/k1/p' (one *)
(* document per call of the first course of the day, with the stop's       *)
(* number 'id' and its rank 'l').  The database is written by a scraper    *)
(* that is not part of the repository; the schema is the one lib/ reads.   *)
(***************************************************************************)
EXTENDS Integers, Sequences, FiniteSets

CONSTANTS
  Stops,     \* the stop numbers
  Lines,     \* the line numbers
  StopDocs,  \* the documents of 'Przystanki' in snapshot order, as stop numbers
  linie,     \* linie[s]: the lines listed by the document of stop s
  course     \* course[line][j]: the calls of course k1 in direction j, in
             \* snapshot order (which is not the order of the ranks)

Kierunki == 1..2

\* A call of a course at a stop: the fields 'id' and 'l' of a document of p.
Call == [id : Stops, l : Nat]

ASSUME LinesAssumption == IsFiniteSet(Lines)
ASSUME LinieAssumption == linie \in [Stops -> SUBSET Lines]
ASSUME CourseAssumption == course \in [Lines -> [Kierunki -> Seq(Call)]]

\* One document per stop: the document IDs are the stop numbers.
ASSUME StopDocsAssumption ==
  /\ StopDocs \in Seq(Stops)
  /\ \A s \in Stops : \E n \in 1..Len(StopDocs) : StopDocs[n] = s
  /\ \A m, n \in 1..Len(StopDocs) : StopDocs[m] = StopDocs[n] => m = n

-----------------------------------------------------------------------------
\* The lines that both stops list.
Common(from, to) == linie[from] \cap linie[to]

\* Course k1 of the line, in direction j, calls at `from` and later at `to`.
\* Rank 0 means "no rank" to the app.
RunsInOrder(line, j, from, to) ==
  \E m, n \in DOMAIN course[line][j] :
     /\ course[line][j][m].id = from
     /\ course[line][j][n].id = to
     /\ 0 < course[line][j][m].l
     /\ course[line][j][m].l < course[line][j][n].l

\* What a passenger means by the lines from `from` to `to`.
DirectLines(from, to) ==
  {line \in Common(from, to) : \E j \in Kierunki : RunsInOrder(line, j, from, to)}

\* Course k1 of the line, in direction j, calls at `from` and later at `to`, and its
\* documents of these two calls come with no other call at the first read of them
\* in between: a circular line calls at its terminus twice.
ReadInOrder(line, j, from, to) ==
  \E m, n \in DOMAIN course[line][j] :
     LET id(k) == course[line][j][k].id IN
     /\ <<id(m), id(n)>> = <<from, to>>
     /\ from # to
     /\ 0 < course[line][j][m].l
     /\ course[line][j][m].l < course[line][j][n].l
     /\ \A k \in (m + 1)..(n - 1) : id(k) # from
     /\ \A k \in (n + 1)..(m - 1) : id(k) # to

ReadTogether(line, from, to) == \E j \in Kierunki : ReadInOrder(line, j, from, to)
=============================================================================
