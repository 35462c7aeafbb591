---------------------------- MODULE RoutePlanner ----------------------------
(***************************************************************************)
(* The trip planner of the home page: calculateLines() of                  *)
(* lib/Pages/Home.dart and the two buttons that call it.                   *)
(*                                                                         *)
(* Dart runs one callback at a time, up to its first await, so an action   *)
(* is one such segment: the press of a button, the callback of one answer  *)
(* of Firestore, or the step of one loop between two awaits of             *)
(* Future.delayed.  Answers come in any order.  A call of calculateLines   *)
(* is not cancelled by the next one: its callbacks go on reading id1 and   *)
(* id2, and adding to D, as those are when the callback runs.              *)
(*                                                                         *)
(* Each call has its own locals.  Every document of 'Przystanki' from the  *)
(* one at which both stops have been seen to the last one starts a loop of *)
(* its own over C, because zrobione is set only when a whole loop is over; *)
(* the loops of one call share C and the registers indeks1, indeks2,       *)
(* kierunek1, kierunek2.  zrobione itself is read only while the loops are *)
(* being started, and needs no variable.                                   *)
(***************************************************************************)
EXTENDS TransitData

CONSTANTS
  NoStop,         \* 'Wybierz przystanek': no stop picked yet
  MaxSearches,    \* bound: calls of calculateLines with both stops picked
  Lag,            \* bound: the 500 ms timers a loop may live through before an
                  \* answer to it comes; 0 is a network that answers in time
  UserWaits,      \* TRUE: no stop is picked while a search is running
  NetworkLoses    \* TRUE: an answer may be lost (an error, an empty cache)

ASSUME PlannerAssumption ==
  /\ NoStop \notin Stops
  /\ MaxSearches \in Nat
  /\ Lag \in Nat
  /\ {UserWaits, NetworkLoses} \subseteq BOOLEAN

VARIABLES
  mounted,     \* the State of the page has not been disposed
  id1, id2,    \* the stops picked (przystanek1 and przystanek2 follow them)
  D,           \* the list shown: D[line] is how often it holds the line
  searches,    \* number of calls of calculateLines that started a search
  stopsQuery,  \* the searches that wait for 'Przystanki'
  C,           \* C[c]: the lines search c goes through
  reg,         \* reg[c]: its registers
  asleep,      \* asleep[c]: its loops <<d, i>> in Future.delayed, where d is the
               \* document that started the loop and i its next index into C
  pending      \* pending[c]: its queries <<d, i, j>>, where loop d asked for
               \* direction j of line C[i] and has no answer yet

picks == <<mounted, id1, id2>>
locals == <<stopsQuery, C, reg, asleep, pending>>
vars == <<picks, D, searches, locals>>

Searches == 1..MaxSearches
Docs == 1..Len(StopDocs)
Registers == [indeks1 : Nat, indeks2 : Nat,
              kierunek1 : {0} \cup Kierunki, kierunek2 : {0} \cup Kierunki]
Cleared == [indeks1 |-> 0, indeks2 |-> 0, kierunek1 |-> 0, kierunek2 |-> 0]
NoLines == [line \in Lines |-> 0]

\* Both stops are picked; a pick is never taken back.
Picked == NoStop \notin {id1, id2}

\* The types; queries are about lines of C, and a search has both its stops.
TypeOK ==
  /\ mounted \in BOOLEAN
  /\ id1 \in Stops \cup {NoStop}
  /\ id2 \in Stops \cup {NoStop}
  /\ D \in [Lines -> Nat]
  /\ searches \in 0..MaxSearches
  /\ stopsQuery \subseteq Searches
  /\ C \in [Searches -> Seq(Lines)]
  /\ reg \in [Searches -> Registers]
  /\ asleep \in [Searches -> SUBSET (Docs \X Nat)]
  /\ pending \in [Searches -> SUBSET (Docs \X Nat \X Kierunki)]
  /\ \A c \in Searches : \A q \in pending[c] : q[2] \in DOMAIN C[c]
  /\ stopsQuery # {} => Picked

Init ==
  /\ mounted = TRUE
  /\ id1 = NoStop
  /\ id2 = NoStop
  /\ D = NoLines
  /\ searches = 0
  /\ stopsQuery = {}
  /\ C = [c \in Searches |-> << >>]
  /\ reg = [c \in Searches |-> Cleared]
  /\ asleep = [c \in Searches |-> {}]
  /\ pending = [c \in Searches |-> {}]

\* No search has an answer or a timer to wait for.
Idle == stopsQuery = {} /\ \A c \in Searches : asleep[c] = {} /\ pending[c] = {}

-----------------------------------------------------------------------------
(***************************************************************************)
(* The two buttons.  A press that comes back from the map without a stop   *)
(* throws on the missing result and changes nothing.                       *)
(***************************************************************************)

\* Mutant of calculateLines: D is not cleared.
calculateLinesKeepsD(from, to) ==
  /\ D' = D
  /\ \/ /\ NoStop \in {from, to}
        /\ UNCHANGED <<searches, stopsQuery>>
     \/ /\ NoStop \notin {from, to}
        /\ searches < MaxSearches
        /\ searches' = searches + 1
        /\ stopsQuery' = stopsQuery \cup {searches + 1}
  /\ UNCHANGED <<C, reg, asleep, pending>>

\* calculateLines, with the picks it finds.
calculateLines(from, to) ==
  /\ D' = NoLines
  /\ \/ /\ NoStop \in {from, to}
        /\ UNCHANGED <<searches, stopsQuery>>
     \/ /\ NoStop \notin {from, to}
        /\ searches < MaxSearches
        /\ searches' = searches + 1
        /\ stopsQuery' = stopsQuery \cup {searches + 1}
  /\ UNCHANGED <<C, reg, asleep, pending>>

PickFrom(s) ==
  /\ mounted
  /\ UserWaits => Idle
  /\ id1' = s
  /\ calculateLines(s, id2)
  /\ UNCHANGED <<mounted, id2>>

PickTo(s) ==
  /\ mounted
  /\ UserWaits => Idle
  /\ id2' = s
  /\ calculateLines(id1, s)
  /\ UNCHANGED <<mounted, id1>>

\* The user goes to another tab: the State is disposed, its callbacks are not.
dispose ==
  /\ mounted
  /\ mounted' = FALSE
  /\ UNCHANGED <<id1, id2, D, searches, locals>>

-----------------------------------------------------------------------------
(***************************************************************************)
(* 'Przystanki' has answered.                                              *)
(***************************************************************************)

\* Mutant of Starting: the test comes before the stops of the document are read.
StartingLate ==
  {d \in Docs : /\ \E a \in 1..(d - 1) : StopDocs[a] = id1
                /\ \E b \in 1..(d - 1) : StopDocs[b] = id2}

\* The documents at which a loop starts: both stops have been seen.  Once the
\* page is disposed, setState throws in the documents of the two stops, after
\* it has assigned A or B, so that these two start no loop.
Starting ==
  {d \in Docs : /\ \E a \in 1..d : StopDocs[a] = id1
                /\ \E b \in 1..d : StopDocs[b] = id2
                /\ mounted \/ (StopDocs[d] \notin {id1, id2} /\ id1 # id2)}

\* The ways to list a set of lines, one after the other.
Listings(S) ==
  {s \in [1..Cardinality(S) -> S] : \A x \in S : \E n \in DOMAIN s : s[n] = x}

\* Every loop appends the common lines to C again before it goes through C.
Repeated(s, times) == [n \in 1..(Len(s) * times) |-> s[((n - 1) % Len(s)) + 1]]

\* Mutant of CommonLines: the lines of either stop.
EitherLines == linie[id1] \cup linie[id2]

CommonLines == Common(id1, id2)

StopsAnswered(c) ==
  /\ c \in stopsQuery
  /\ stopsQuery' = stopsQuery \ {c}
  /\ LET loops == IF CommonLines = {} THEN {} ELSE Starting IN
       /\ \E s \in Listings(CommonLines) :
             C' = [C EXCEPT ![c] = Repeated(s, Cardinality(loops))]
       /\ pending' = [pending EXCEPT ![c] = loops \X {1} \X Kierunki]
       /\ asleep' = [asleep EXCEPT ![c] = loops \X {2}]
  /\ UNCHANGED <<picks, D, searches, reg>>

-----------------------------------------------------------------------------
(***************************************************************************)
(* The timer of a loop has fired.  The loops of a search start together    *)
(* and sleep equally long, so their timers fire in the order of <<i, d>>.  *)
(***************************************************************************)
FirstToWake(c, t) ==
  \A u \in asleep[c] : t[2] < u[2] \/ (t[2] = u[2] /\ t[1] <= u[1])

Wake(c, t) ==
  /\ t \in asleep[c]
  /\ FirstToWake(c, t)
  /\ \A q \in pending[c] : t[2] <= q[2] + Lag

\* Mutant of HasLine: the last line is not asked for.
HasLineButLast(c, i) == i \in 1..(Len(C[c]) - 1)

HasLine(c, i) == i \in DOMAIN C[c]

\* Mutant of Advanced: the loop stays at its line.
NotAdvanced(t) == t

Advanced(t) == <<t[1], t[2] + 1>>

\* Mutant of Reset: the registers keep the ranks of the line before.
NoReset(r) == r

Reset(r) == Cleared

\* The loop asks for both directions of its next line and clears the registers.
NextLine(c, t) ==
  /\ Wake(c, t)
  /\ HasLine(c, t[2])
  /\ pending' = [pending EXCEPT ![c] = @ \cup ({t[1]} \X {t[2]} \X Kierunki)]
  /\ asleep' = [asleep EXCEPT ![c] = (@ \ {t}) \cup {Advanced(t)}]
  /\ reg' = [reg EXCEPT ![c] = Reset(@)]
  /\ UNCHANGED <<picks, D, searches, stopsQuery, C>>

\* The loop is over.
LoopEnds(c, t) ==
  /\ Wake(c, t)
  /\ ~HasLine(c, t[2])
  /\ asleep' = [asleep EXCEPT ![c] = @ \ {t}]
  /\ UNCHANGED <<picks, D, searches, stopsQuery, C, reg, pending>>

-----------------------------------------------------------------------------
(***************************************************************************)
(* The calls of one line in one direction have come.                       *)
(***************************************************************************)

\* The last of the first n calls that is at stop s.
LastCall(calls, n, s) ==
  CHOOSE m \in 1..n : /\ calls[m].id = s
                      /\ \A k \in (m + 1)..n : calls[k].id # s

\* The registers after the first n calls of direction j.
After(r, calls, j, n) ==
  LET seen(s) == \E m \in 1..n : calls[m].id = s
      rank(s, old) == IF seen(s) THEN calls[LastCall(calls, n, s)].l ELSE old
      way(s, old) == IF seen(s) THEN j ELSE old
  IN [indeks1   |-> rank(id1, r.indeks1), indeks2   |-> rank(id2, r.indeks2),
      kierunek1 |-> way(id1, r.kierunek1), kierunek2 |-> way(id2, r.kierunek2)]

\* Mutant of Matches: any two different ranks will do.
MatchesAnyOrder(r) ==
  /\ r.indeks1 # r.indeks2
  /\ r.indeks1 # 0
  /\ r.indeks2 # 0
  /\ r.kierunek1 = r.kierunek2

\* Mutant of Matches: the directions are not compared.
MatchesAnyWay(r) == r.indeks1 < r.indeks2 /\ r.indeks1 # 0

\* The test of the registers that lets a line into D.
Matches(r) ==
  /\ r.indeks1 < r.indeks2
  /\ r.indeks1 # 0
  /\ r.indeks2 # 0
  /\ r.kierunek1 = r.kierunek2
  /\ r.kierunek1 # 0
  /\ r.kierunek2 # 0

\* Mutant of Including: the line is added without asking whether D has it.
IncludingAgain(line) == [D EXCEPT ![line] = @ + 1]

Including(line) == IF D[line] = 0 THEN [D EXCEPT ![line] = @ + 1] ELSE D

\* The test comes after every call, not only after the two that count.
CourseAnswered(c, q) ==
  /\ q \in pending[c]
  /\ pending' = [pending EXCEPT ![c] = @ \ {q}]
  /\ LET line == C[c][q[2]]
         calls == course[line][q[3]]
         found == \E n \in 1..Len(calls) : Matches(After(reg[c], calls, q[3], n))
     IN /\ reg' = [reg EXCEPT ![c] = After(@, calls, q[3], Len(calls))]
        /\ D' = IF found THEN Including(line) ELSE D
  /\ UNCHANGED <<picks, searches, stopsQuery, C, asleep>>

\* An answer never comes (nothing handles the error) or comes empty.
StopsLost(c) ==
  /\ NetworkLoses
  /\ c \in stopsQuery
  /\ stopsQuery' = stopsQuery \ {c}
  /\ UNCHANGED <<picks, D, searches, C, reg, asleep, pending>>

CourseLost(c, q) ==
  /\ NetworkLoses
  /\ q \in pending[c]
  /\ pending' = [pending EXCEPT ![c] = @ \ {q}]
  /\ UNCHANGED <<picks, D, searches, stopsQuery, C, reg, asleep>>

-----------------------------------------------------------------------------
User == (\E s \in Stops : PickFrom(s) \/ PickTo(s)) \/ dispose

Background ==
  \E c \in Searches :
     \/ StopsAnswered(c)
     \/ \E t \in asleep[c] : NextLine(c, t) \/ LoopEnds(c, t)
     \/ \E q \in pending[c] : CourseAnswered(c, q)

Loss == \E c \in Searches : StopsLost(c) \/ \E q \in pending[c] : CourseLost(c, q)

Next == User \/ Background \/ Loss

\* The event loop runs what is due and the network answers; the user may stop.
Fairness == WF_vars(Background)

Spec == Init /\ [][Next]_vars /\ Fairness

-----------------------------------------------------------------------------
(***************************************************************************)
(* What the box shows.                                                     *)
(***************************************************************************)
Shown == {line \in Lines : D[line] > 0}

\* D never holds a line twice, although the loops of one search ask for the
\* same line several times and two searches may add to the same D (the test
\* !D.contains of Home.dart:95 and the add of line 103 must be one segment).
NoLineTwice == \A line \in Lines : D[line] <= 1

\* Every line shown is one that both stops on the buttons list, whatever the
\* order of the answers.
ShownServesBoth == Shown # {} => Picked /\ Shown \subseteq Common(id1, id2)

\* Every line shown goes from the stop under 'Z' to the stop under 'DO', in
\* that order and in one direction.
ShownIsDirect == Shown # {} => Picked /\ Shown \subseteq DirectLines(id1, id2)

\* A search that waits for an answer or a timer.
Going(c) == asleep[c] # {} \/ pending[c] # {}

\* As soon as the latest search has nothing left to wait for, the page shows every
\* line of the trip whose two ranks are in the registers together before one is
\* overwritten, circular ones included, although searches that were overtaken
\* may still be adding to the same D.  Holds if no answer is lost.
AllShownWhenOver ==
  /\ mounted /\ Picked
  /\ \A c \in Searches : c = searches => c \notin stopsQuery /\ ~Going(c)
  => \A line \in Common(id1, id2) : ReadTogether(line, id1, id2) => line \in Shown

\* If no answer is lost, the page ends up showing every direct line, even after
\* searches that overlapped and shared D, id1 and id2; of the circular ones those
\* whose two ranks are in the registers together before one is overwritten.
AllDirectShown ==
  <>[](mounted /\ Picked =>
         \A line \in Common(id1, id2) : ReadTogether(line, id1, id2) => line \in Shown)

\* What the latest search adds is right even if it has overtaken others, which go
\* on adding to the same D and read the same id1 and id2: these lines go from the
\* stop under 'Z' to the stop under 'DO'.  Holds if the network is in time.
LatestAddsDirect ==
  [][\A c \in Searches :
       c = searches /\ pending'[c] # pending[c] =>
          \A line \in Lines : D'[line] > D[line] => line \in DirectLines(id1, id2)]_vars

\* What search c has still to do once it has its lines: <<d, i, 0>> is a step of
\* loop d at index i, the last one at the end of C, and <<d, i, j>> an answer to it.
WorkLeft(c) ==
  {w \in Docs \X (1..(Len(C[c]) + 1)) \X (0..2) :
     w \in pending[c] \/ \E t \in asleep[c] : t[1] = w[1] /\ t[2] <= w[2]}

\* No callback or timer makes more to do: what is answered, lost or slept through
\* is asked for no more, although the loops of a search go through one list and
\* the first answer makes the work of a search in the first place.
WorkIsUsedUp ==
  [][Background \/ Loss =>
       \/ stopsQuery' \subseteq stopsQuery /\ stopsQuery' # stopsQuery
       \/ /\ stopsQuery' = stopsQuery
          /\ \A c \in Searches : WorkLeft(c)' \subseteq WorkLeft(c)
          /\ \E c \in Searches : WorkLeft(c)' # WorkLeft(c)]_vars

\* The searches end, although every document may start a loop and every loop
\* makes the list all of them go through longer.
SearchesEnd == <>[]Idle

\* With the network in time and a user who waits, the page does what the
\* abstract specification promises.
Promised == INSTANCE RouteSearch WITH present <- mounted, from <- id1, to <- id2,
                                      shown <- Shown

KeepsPromise == Promised!Spec

-----------------------------------------------------------------------------
(***************************************************************************)
(* Why that is so: the facts that each step of a search needs of the ones  *)
(* before it.                                                              *)
(***************************************************************************)

\* A search that has not been answered yet has not touched its locals.
FreshLocals ==
  /\ \A c \in stopsQuery : c <= searches
  /\ \A c \in Searches : c \in stopsQuery \/ searches < c =>
                            ~Going(c) /\ reg[c] = Cleared

\* The picks do not change under a search, which therefore goes through lines
\* that the two stops on the buttons list.  Holds if the user waits.
SearchesForPicks ==
  \A c \in Searches :
     /\ Going(c) => Picked
     /\ Going(c) => \A i \in DOMAIN C[c] : C[c][i] \in Common(id1, id2)

\* The queries a search waits for are those of one line, which no loop that is
\* to wake up has left behind.  Holds if the network is in time.
OneLineAtATime ==
  \A c \in Searches : \A q \in pending[c] :
     /\ \A r \in pending[c] : r[2] = q[2]
     /\ \A t \in asleep[c] : q[2] <= t[2]

\* What the registers hold comes from calls of the line at the two stops.
FromCalls(line, r) ==
  /\ r.kierunek1 # 0 => \E m \in DOMAIN course[line][r.kierunek1] :
        /\ course[line][r.kierunek1][m].id = id1
        /\ course[line][r.kierunek1][m].l = r.indeks1
  /\ r.kierunek2 # 0 => \E m \in DOMAIN course[line][r.kierunek2] :
        /\ course[line][r.kierunek2][m].id = id2
        /\ course[line][r.kierunek2][m].l = r.indeks2

\* An answer finds in the registers what its own line has put there.  Holds if
\* the user waits and the network is in time.
RegistersOfLine ==
  \A c \in Searches : \A q \in pending[c] : FromCalls(C[c][q[2]], reg[c])

\* The inductive invariant of a search that nothing disturbs (the user waits and
\* the network is in time).
DirectInv ==
  /\ TypeOK
  /\ SearchesForPicks
  /\ ShownServesBoth
  /\ FreshLocals
  /\ OneLineAtATime
  /\ RegistersOfLine
  /\ ShownIsDirect

\* The latest search is one for the stops on the buttons, whoever waits.
LatestForPicks ==
  /\ searches > 0 => Picked
  /\ \A c \in Searches :
        c = searches /\ Going(c) => \A i \in DOMAIN C[c] : C[c][i] \in Common(id1, id2)

\* Its answers find in the registers what their own line has put there.
LatestRegisters ==
  \A c \in Searches : c = searches =>
     \A q \in pending[c] : FromCalls(C[c][q[2]], reg[c])

\* What survives of DirectInv if the user does not wait.
LatestInv ==
  /\ TypeOK
  /\ FreshLocals
  /\ OneLineAtATime
  /\ LatestForPicks
  /\ LatestRegisters

\* A loop of the latest search will come to index i, or has left it behind and
\* waits for the answer in direction j.
ToCome(i) == \E t \in asleep[searches] : t[2] <= i
Awaited(i, j) == \E q \in pending[searches] : q[2] = i /\ q[3] = j

\* The latest search goes through all lines of the trip and has asked, or will ask,
\* for every one in both directions; what has been answered is shown if its two
\* ranks came together.  Holds if no answer is lost.
LatestCovers ==
  mounted /\ Picked =>
     /\ searches > 0
     /\ searches \notin stopsQuery =>
          /\ \A line \in CommonLines : \E i \in DOMAIN C[searches] : C[searches][i] = line
          /\ \A i \in DOMAIN C[searches], j \in Kierunki :
                \/ ToCome(i)
                \/ Awaited(i, j)
                \/ ReadInOrder(C[searches][i], j, id1, id2) => C[searches][i] \in Shown

\* A loop stops right behind the end of the list, and is past what it waits for.
LoopsInList ==
  \A c \in Searches : \A t \in asleep[c] :
     /\ t[2] \in 1..(Len(C[c]) + 1)
     /\ \A q \in pending[c] : q[1] = t[1] => q[2] < t[2]
=============================================================================
