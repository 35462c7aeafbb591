--------------------------- MODULE NearStopsPage ---------------------------
(***************************************************************************)
(* The life of the page 'Najblizsze przystanki'                            *)
(* (lib/Pages/NearStops.dart): its build() subscribes to the positions of  *)
(* the phone and asks for the stops every time it runs, the answers call   *)
(* setState, and setState makes build() run again.  dispose() cancels the  *)
(* one subscription positionStream holds.                                  *)
(*                                                                         *)
(* An action is a callback: build of one frame, one position (which the    *)
(* plugin's one broadcast stream gives to all subscriptions), one answer.  *)
(* Which answers change the four rows is left open here (NearestStops says *)
(* how they do), save that the first one does.  nazwa is assigned and      *)
(* never shown: only its setStates are kept.                               *)
(***************************************************************************)
EXTENDS Integers, Sequences, FiniteSets

CONSTANTS
  StopDocs,     \* the documents of 'Przystanki' in snapshot order, as stop numbers
  Positions,    \* the positions of the phone
  NoFix,        \* no position has come: szerokosc and dlugosc are not set
  Streets,      \* the streets the phone may be in, see near
  MaxBuilds,    \* bound: runs of build
  MaxChanges,   \* bound: answers that change the rows
  MaxAsked      \* bound: queries of one kind without an answer

ASSUME PageAssumption ==
  /\ StopDocs \in Seq(Nat)
  /\ Len(StopDocs) > 0
  /\ \A m, n \in 1..Len(StopDocs) : StopDocs[m] = StopDocs[n] => m = n
  /\ NoFix \notin Positions
  /\ Streets \subseteq [Positions -> SUBSET Nat]
  /\ MaxBuilds \in Nat \ {0}
  /\ MaxChanges \in Nat \ {0}
  /\ MaxAsked \in Nat

VARIABLES
  near,        \* near[p]: the stops less than 0.00015 degrees from position p (fixed)
  mounted,     \* ~disposed
  dirty,       \* setState has asked for a build in the next frame
  builds,      \* runs of build; run b makes subscription b
  live,        \* the subscriptions not cancelled
  fix,         \* the last position: szerokosc, dlugosc
  x,           \* the places i of the list x with x[i] = 1
  asked,       \* queries of build for all stops without an answer
  named,       \* queries of build for the stop y without an answer
  listAsked,   \* queries of nearStops without an answer
  changes      \* answers that have changed the rows

vars == <<near, mounted, dirty, builds, live, fix, x, asked, named, listAsked, changes>>

Docs == 1..Len(StopDocs)
Places == 0..11          \* the list x has 12 places

TypeOK ==
  /\ near \in Streets
  /\ mounted \in BOOLEAN
  /\ dirty \in BOOLEAN
  /\ builds \in 1..MaxBuilds
  /\ live \subseteq 1..builds
  /\ fix \in Positions \cup {NoFix}
  /\ x \subseteq Places
  /\ asked \in Nat
  /\ named \in Nat
  /\ listAsked \in Nat
  /\ changes \in 0..MaxChanges

\* The page is on the screen and build has run once.
Init ==
  /\ near \in Streets
  /\ mounted = TRUE
  /\ dirty = FALSE
  /\ builds = 1
  /\ live = {1}
  /\ fix = NoFix
  /\ x = {}
  /\ asked = 1
  /\ named = 0
  /\ listAsked = 0
  /\ changes = 0

-----------------------------------------------------------------------------
\* Mutant of build: the stops are asked for only when the page is opened.
buildAsksOnce ==
  /\ dirty
  /\ builds < MaxBuilds
  /\ dirty' = FALSE
  /\ builds' = builds + 1
  /\ live' = live \cup {builds + 1}
  /\ UNCHANGED <<near, mounted, fix, x, asked, named, listAsked, changes>>

\* build runs again; the subscription it had is neither cancelled nor kept.
build ==
  /\ dirty
  /\ builds < MaxBuilds
  /\ dirty' = FALSE
  /\ builds' = builds + 1
  /\ live' = live \cup {builds + 1}
  /\ asked' = asked + 1
  /\ UNCHANGED <<near, mounted, fix, x, named, listAsked, changes>>

\* Mutant of Position: the listener calls setState (as the lines commented out
\* in it did).
PositionSetsState(p) ==
  /\ live # {}
  /\ listAsked + Cardinality(live) <= MaxAsked
  /\ fix' = p
  /\ dirty' = mounted
  /\ listAsked' = listAsked + Cardinality(live)
  /\ UNCHANGED <<near, mounted, builds, live, x, asked, named, changes>>

\* A position comes: every live subscription calls nearStops.
Position(p) ==
  /\ live # {}
  /\ listAsked + Cardinality(live) <= MaxAsked
  /\ fix' = p
  /\ listAsked' = listAsked + Cardinality(live)
  /\ UNCHANGED <<near, mounted, dirty, builds, live, x, asked, named, changes>>

-----------------------------------------------------------------------------
\* The rows take a stop in, which calls setState.
RowsChange ==
  /\ changes < MaxChanges
  /\ changes' = changes + 1
  /\ dirty' = mounted

RowsStay == changes > 0 /\ UNCHANGED <<changes, dirty>>

\* Mutant of ListAnswered: nothing asks whether the page has been disposed.
ListAnsweredAnyway ==
  /\ listAsked > 0
  /\ listAsked' = listAsked - 1
  /\ RowsChange \/ RowsStay
  /\ UNCHANGED <<near, mounted, builds, live, fix, x, asked, named>>

\* An answer to nearStops.
ListAnswered ==
  /\ listAsked > 0
  /\ listAsked' = listAsked - 1
  /\ \/ mounted /\ (RowsChange \/ RowsStay)
     \/ ~mounted /\ UNCHANGED <<changes, dirty>>
  /\ UNCHANGED <<near, mounted, builds, live, fix, x, asked, named>>

-----------------------------------------------------------------------------
(***************************************************************************)
(* An answer to the query of build.  Documents are gone through until one  *)
(* throws: at once if no position is known, at a stop whose number is not  *)
(* a place of x, and at the setState of a page that has been disposed.     *)
(***************************************************************************)
Numbers(n) == {StopDocs[m] : m \in 1..n}

\* The list x after the first n documents, and the place y found in it.
XAfter(n) == (x \ Numbers(n)) \cup (near[fix] \cap Numbers(n))

AtStop(n) == XAfter(n) \ {0} # {}

\* Mutant of Placed: the list has a place for every stop.
PlacedAlways(n) == TRUE

Placed(n) == StopDocs[n] \in Places

\* Document n is gone through to its setState or its query.
Reads(n) ==
  /\ fix # NoFix
  /\ \A m \in 1..n : Placed(m)
  /\ mounted \/ \A m \in 1..(n - 1) : AtStop(m)

BoxAnswered ==
  /\ asked > 0
  /\ asked' = asked - 1
  /\ LET read == {n \in Docs : Reads(n)}
         atStop == {n \in read : AtStop(n)}
     IN /\ named + Cardinality(atStop) <= MaxAsked
        /\ named' = named + Cardinality(atStop)
        /\ dirty' = (dirty \/ (mounted /\ read # atStop))
        /\ x' = IF read = {} THEN x ELSE XAfter(Cardinality(read))
  /\ UNCHANGED <<near, mounted, builds, live, fix, listAsked, changes>>

\* The document of stop y has come (it exists: y was found in one).
NameAnswered ==
  /\ named > 0
  /\ named' = named - 1
  /\ dirty' = (dirty \/ mounted)
  /\ UNCHANGED <<near, mounted, builds, live, fix, x, asked, listAsked, changes>>

\* Mutant of dispose: the subscription is not cancelled.
disposeKeepsStream ==
  /\ mounted
  /\ mounted' = FALSE
  /\ dirty' = FALSE
  /\ UNCHANGED <<near, builds, live, fix, x, asked, named, listAsked, changes>>

\* The user has gone back and the page has left the screen; until then its State goes
\* on as if the page were open.
dispose ==
  /\ mounted
  /\ mounted' = FALSE
  /\ dirty' = FALSE
  /\ live' = live \ {builds}
  /\ UNCHANGED <<near, builds, fix, x, asked, named, listAsked, changes>>

-----------------------------------------------------------------------------
Next ==
  \/ build
  \/ \E p \in Positions : Position(p)
  \/ ListAnswered
  \/ BoxAnswered
  \/ NameAnswered
  \/ dispose

\* Frames are drawn and answers come; the phone and the user may rest.
Fairness ==
  /\ WF_vars(build)
  /\ WF_vars(ListAnswered)
  /\ WF_vars(BoxAnswered)
  /\ WF_vars(NameAnswered)

Spec == Init /\ [][Next]_vars /\ Fairness

-----------------------------------------------------------------------------
\* When the user has left, the rows of the page rest, although the queries of
\* before and the subscriptions that were not cancelled still bring answers.
RowsRestWhenLeft == [][~mounted => changes' = changes]_vars

\* The subscriptions that outlive the page are those of all runs of build but
\* the last: one run leaves none behind, and every further one leaks one.
LeavesAllButLast == live = IF mounted THEN 1..builds ELSE 1..(builds - 1)

\* Away from the stops, each change of the rows sets one more round of query,
\* setState and build going, and nothing else does: positions, however many
\* subscriptions hear them, do not.
RoundsOnlyFromChanges ==
  (\A p \in Positions : near[p] = {}) =>
     asked + (IF dirty THEN 1 ELSE 0) <= 1 + changes

\* Once a position has been answered, a page that stays open never comes to
\* rest: it runs build, and asks for all stops, as often as one cares to count,
\* with no position and no touch.  It takes a first stop that has a place in x.
NeverAtRest ==
  StopDocs[1] \in Places =>
     (fix # NoFix /\ mounted ~> builds = MaxBuilds \/ ~mounted)
=============================================================================
