----------------------------- MODULE Navigation -----------------------------
(***************************************************************************)
(* The pages of the app and the way between them: the tabs of              *)
(* lib/Pages/Core.dart, the routes of lib/main.dart, the pages the home    *)
(* page opens to pick a stop (lib/Pages/ChooseFromMap.dart) or to list the *)
(* nearest (lib/Pages/NearStops.dart), and the maps these open             *)
(* (lib/Pages/Map.dart).                                                   *)
(*                                                                         *)
(* The navigator is a stack of pages on the root page.  Touches reach the  *)
(* page on top, but two things come late: the tap of a marker, which the   *)
(* map view reports in a message, and the answer a map button waits for.   *)
(* Another page may be on top by then, and their own may have been left:   *)
(* a page that is popped is off the stack at once, but its State stays     *)
(* mounted while the page leaves the screen, and a message or an answer    *)
(* that comes in this time still opens its sheet or its map.  What comes   *)
(* after dispose throws.                                                   *)
(***************************************************************************)
EXTENDS Integers, Sequences, FiniteSets

CONSTANTS
  Stops,        \* the stops; StopDocs holds them in snapshot order
  StopDocs,
  name,         \* name[s]: the name of stop s; poles of one stop share it
  NoStop,       \* 'Wybierz przystanek'
  Blank,        \* the name '' of a row without a stop
  Gone,         \* no State
  Rows,         \* the rows of the list of the nearest stops, 1..4 in the code
  Choosers,     \* bound: the choose pages mounted at a time
  Lists,        \* bound: the pages of the nearest stops mounted at a time
  MaxTaps,      \* bound: taps of a page the map view has not reported yet
  MaxLookups,   \* bound: presses of map buttons without an answer
  MaxDepth      \* bound: pages on the stack

Names == {name[s] : s \in Stops}
Ends == {"Z", "DO"}       \* the two buttons of the home page

\* The State of a choose page: the markers on its map, the stops tapped so far (a
\* history that no guard reads) and the taps the map view has not reported, in order.
ChooserState == [markers : SUBSET Stops, tapped : SUBSET Stops, taps : Seq(Stops)]

\* The State of the page of the nearest stops: the names in its rows, and the presses
\* of their map buttons without an answer.
ListState == [rows : [Rows -> Names \cup {Blank}], lookups : [Rows -> Nat]]

ASSUME NavigationAssumption ==
  /\ StopDocs \in Seq(Stops)
  /\ \A i, j \in 1..Len(StopDocs) : StopDocs[i] = StopDocs[j] => i = j
  /\ NoStop \notin Stops
  /\ Blank \notin Names
  /\ Gone \notin ChooserState \cup ListState
  /\ {MaxTaps, MaxLookups, MaxDepth} \subseteq Nat

Home == 0
LinesTab == 1
MapTab == 2

\* The pages.  Choose pages and lists come with their State, choose pages also with
\* the button that waits for them.  A sheet or a map comes with the stop it shows and
\* a history flag that no guard reads: whether the page it belongs to was open, or
\* had been left, when it came.
Root == <<"root">>
Pages == {Root, <<"stops">>}
           \cup ({"choose"} \X Choosers \X Ends)
           \cup ({"nearStops"} \X Lists)
           \cup ({"sheet", "map"} \X Stops \X {"open", "left"})

VARIABLES
  tab,       \* _currentIndex
  stack,     \* the pages, the top one last
  picked,    \* picked[e]: the stop of button e (przystanek1, id1 and so on)
  choosers,  \* the States of the choose pages, open or leaving
  lists      \* the States of the pages of the nearest stops, open or leaving

vars == <<tab, stack, picked, choosers, lists>>

TypeOK ==
  /\ tab \in {Home, LinesTab, MapTab}
  /\ stack \in Seq(Pages)
  /\ picked \in [Ends -> Stops \cup {NoStop}]
  /\ choosers \in [Choosers -> ChooserState \cup {Gone}]
  /\ lists \in [Lists -> ListState \cup {Gone}]

NothingPicked == [e \in Ends |-> NoStop]
NewChooser == [markers |-> {}, tapped |-> {}, taps |-> << >>]
NewList == [rows |-> [i \in Rows |-> Blank], lookups |-> [i \in Rows |-> 0]]

Init ==
  /\ tab = Home
  /\ stack = <<Root>>
  /\ picked = NothingPicked
  /\ choosers = [c \in Choosers |-> Gone]
  /\ lists = [l \in Lists |-> Gone]

Depth == Len(stack)
OnTop(kind) == stack # << >> /\ stack[Depth][1] = kind
AtRoot == OnTop("root")
Open(kind) == \E n \in 1..Depth : stack[n][1] = kind

\* The page with this State is open, not leaving.
IsOpen(kind, state) == \E n \in 1..Depth : stack[n][1] = kind /\ stack[n][2] = state
WhenItCame(kind, state) == IF IsOpen(kind, state) THEN "open" ELSE "left"

Push(page) == Append(stack, page)
Pop(n) == SubSeq(stack, 1, Depth - n)

-----------------------------------------------------------------------------
(***************************************************************************)
(* The root page.                                                          *)
(***************************************************************************)

\* Mutants of _onItemTapped: the tabs are counted from 1; the bar stays in reach
\* under the pages opened from it.
_onItemTappedFromOne(index) ==
  /\ AtRoot
  /\ tab' = index + 1
  /\ picked' = NothingPicked
  /\ UNCHANGED <<stack, choosers, lists>>

_onItemTappedAnywhere(index) ==
  /\ tab' = index
  /\ picked' = IF index = Home /\ tab = Home THEN picked ELSE NothingPicked
  /\ UNCHANGED <<stack, choosers, lists>>

\* A tap on the bar.  The State of the home page goes with its tab, and the new
\* one starts with nothing picked.
_onItemTapped(index) ==
  /\ AtRoot
  /\ tab' = index
  /\ picked' = IF index = Home /\ tab = Home THEN picked ELSE NothingPicked
  /\ UNCHANGED <<stack, choosers, lists>>

\* 'Z' or 'DO': the choose page opens with a State of its own.
Choose(e) ==
  /\ AtRoot
  /\ tab = Home
  /\ \E c \in Choosers :
        /\ choosers[c] = Gone
        /\ choosers' = [choosers EXCEPT ![c] = NewChooser]
        /\ stack' = Push(<<"choose", c, e>>)
  /\ UNCHANGED <<tab, picked, lists>>

NearStops ==
  /\ AtRoot
  /\ tab = Home
  /\ \E l \in Lists :
        /\ lists[l] = Gone
        /\ lists' = [lists EXCEPT ![l] = NewList]
        /\ stack' = Push(<<"nearStops", l>>)
  /\ UNCHANGED <<tab, picked, choosers>>

\* A line in one direction; Timetable models the page.
StopsPage ==
  /\ AtRoot
  /\ tab = LinesTab
  /\ stack' = Push(<<"stops">>)
  /\ UNCHANGED <<tab, picked, choosers, lists>>

\* Mutant of HasBackButton: the map has the button in the tab too.
HasBackButtonAlways == TRUE

\* Every page over the root page can be left; of the tabs none has the button,
\* as the map draws it only if it has been opened with arguments.
HasBackButton == stack # << >> /\ ~AtRoot

\* The button, or the gesture, that goes back.  A choose page left this way
\* returns nothing: the button throws on it.  The State of the page stays.
Back ==
  /\ HasBackButton
  /\ stack' = Pop(1)
  /\ UNCHANGED <<tab, picked, choosers, lists>>

-----------------------------------------------------------------------------
(***************************************************************************)
(* The choose page.                                                        *)
(***************************************************************************)

\* 'Przystanki' has come.
MarkersCome(c) ==
  /\ choosers[c] # Gone
  /\ choosers[c].markers = {}
  /\ choosers' = [choosers EXCEPT ![c].markers = {StopDocs[n] : n \in 1..Len(StopDocs)}]
  /\ UNCHANGED <<tab, stack, picked, lists>>

\* A page that leaves takes no touches.
Tap(c, s) ==
  /\ OnTop("choose")
  /\ stack[Depth][2] = c
  /\ s \in choosers[c].markers
  /\ Len(choosers[c].taps) < MaxTaps
  /\ choosers' = [choosers EXCEPT ![c].tapped = @ \cup {s}, ![c].taps = Append(@, s)]
  /\ UNCHANGED <<tab, stack, picked, lists>>

\* Mutant of Chosen: the fields of the State, which hold the stop of the last
\* document, instead of the parameters of _add.
ChosenFromFields(s) == StopDocs[Len(StopDocs)]

\* The stop a marker stands for: nazwa and ID of its own call of _add.
Chosen(s) == s

\* The message comes: the sheet opens over whatever is on top, be the page it belongs
\* to under it, or leaving.
onTap(c) ==
  /\ choosers[c] # Gone
  /\ choosers[c].taps # << >>
  /\ Depth < MaxDepth
  /\ stack' = Push(<<"sheet", Chosen(Head(choosers[c].taps)), WhenItCame("choose", c)>>)
  /\ choosers' = [choosers EXCEPT ![c].taps = Tail(@)]
  /\ UNCHANGED <<tab, picked, lists>>

\* 'Wybierz' on a sheet: two pops.  The second gives the stop to whatever it
\* pops: the choose page returns it to its button, another sheet and the root page
\* drop it.  On a sheet that is alone it throws.
Wybierz ==
  /\ OnTop("sheet")
  /\ stack' = Pop(2)
  /\ IF Depth >= 2 /\ stack[Depth - 1][1] = "choose"
     THEN picked' = [picked EXCEPT ![stack[Depth - 1][3]] = stack[Depth][2]]
     ELSE UNCHANGED picked
  /\ UNCHANGED <<tab, choosers, lists>>

\* The page has left the screen: its State is disposed, and what is still to come
\* for it will throw.
ChooserDisposed(c) ==
  /\ choosers[c] # Gone
  /\ ~IsOpen("choose", c)
  /\ choosers' = [choosers EXCEPT ![c] = Gone]
  /\ UNCHANGED <<tab, stack, picked, lists>>

-----------------------------------------------------------------------------
(***************************************************************************)
(* The page of the nearest stops.                                          *)
(***************************************************************************)

\* A row shows another name (NearestStops says which).
RowChanges(l) ==
  /\ lists[l] # Gone
  /\ \E i \in Rows : \E n \in Names :
        lists' = [lists EXCEPT ![l].rows[i] = n]
  /\ UNCHANGED <<tab, stack, picked, choosers>>

\* The map button of a row.
MapButton(l, i) ==
  /\ OnTop("nearStops")
  /\ stack[Depth][2] = l
  /\ lists[l].lookups[i] < MaxLookups
  /\ lists' = [lists EXCEPT ![l].lookups[i] = @ + 1]
  /\ UNCHANGED <<tab, stack, picked, choosers>>

\* The documents with the name the row has when the answer comes, not when the
\* button was pressed; the ways to go through them in order (there is one).
Named(n) == {k \in 1..Len(StopDocs) : name[StopDocs[k]] = n}

InOrder(K) ==
  {f \in [1..Cardinality(K) -> K] : \A a, b \in DOMAIN f : a < b => f[a] < f[b]}

\* Mutant of Opened: pushReplacementNamed.
OpenedInstead(maps) == Pop(1) \o maps

\* pushNamed, once for each map.
Opened(maps) == stack \o maps

\* The answer opens a map for each of them, over whatever is on top.
MapAnswered(l, i) ==
  /\ lists[l] # Gone
  /\ lists[l].lookups[i] > 0
  /\ lists' = [lists EXCEPT ![l].lookups[i] = @ - 1]
  /\ \E found \in InOrder(Named(lists[l].rows[i])) :
        LET maps == [n \in DOMAIN found |->
                       <<"map", StopDocs[found[n]], WhenItCame("nearStops", l)>>] IN
          /\ Depth + Len(maps) <= MaxDepth
          /\ stack' = Opened(maps)
  /\ UNCHANGED <<tab, picked, choosers>>

ListDisposed(l) ==
  /\ lists[l] # Gone
  /\ ~IsOpen("nearStops", l)
  /\ lists' = [lists EXCEPT ![l] = Gone]
  /\ UNCHANGED <<tab, stack, picked, choosers>>

-----------------------------------------------------------------------------
Next ==
  \/ \E index \in {Home, LinesTab, MapTab} : _onItemTapped(index)
  \/ \E e \in Ends : Choose(e)
  \/ NearStops
  \/ StopsPage
  \/ Back
  \/ \E c \in Choosers : \E s \in Stops : Tap(c, s)
  \/ \E c \in Choosers : MarkersCome(c) \/ onTap(c) \/ ChooserDisposed(c)
  \/ Wybierz
  \/ \E l \in Lists : \E i \in Rows : MapButton(l, i) \/ MapAnswered(l, i)
  \/ \E l \in Lists : RowChanges(l) \/ ListDisposed(l)

Spec == Init /\ [][Next]_vars

-----------------------------------------------------------------------------
OnRoot == stack # << >> /\ stack[1] = Root

\* The root page is popped in one way only: by 'Wybierz', which pops twice, on a sheet
\* of a choose page that had been left when the sheet came, straight over the root
\* page.  Under a sheet of a page that was open there are always two pages to pop,
\* and the back button of the map is not there in the tab.
RootStays ==
  [][OnRoot /\ ~OnRoot' => Depth = 2 /\ OnTop("sheet") /\ stack[2][3] = "left"]_vars

\* The pages opened from the root page stand straight over it.  A page that comes late,
\* but before its own is left, never comes over one it does not belong to, whatever
\* has come from pages left: a sheet stands over a choose page, a map over the page of
\* the nearest stops.
LatePagesOverTheirs ==
  \A n \in 1..Depth :
     /\ stack[n] = Root => n = 1
     /\ stack[n][1] \in {"choose", "nearStops", "stops"} => n = 2 /\ OnRoot
     /\ stack[n][1] \in {"sheet", "map"} /\ stack[n][3] = "open" =>
          n > 2 /\ stack[2][1] = IF stack[n][1] = "sheet" THEN "choose" ELSE "nearStops"

\* The State of the home page is there when a choose page returns to it, although
\* nothing asks for it after the await: as long as one is open, no tab is tapped.
ReturnsToHome == Open("choose") => tab = Home

\* A button takes a stop from the page it opened only, and one tapped on that very page,
\* on whatever sheet of it 'Wybierz' is pressed; only the sheet of an earlier page, left
\* before the sheet came, may bring another.
PicksTapped ==
  [][\A e \in Ends :
       picked'[e] # picked[e] /\ picked'[e] # NoStop =>
          /\ Depth = 3 /\ OnTop("sheet") /\ stack' = <<Root>>
          /\ \E c \in Choosers :
                /\ stack[2] = <<"choose", c, e>>
                /\ stack[3][3] = "open" => picked'[e] \in choosers[c].tapped]_vars

\* What the label 'Wybierz' says, on a sheet over a choose page: the stop of the sheet
\* is chosen.
WybierzChooses ==
  [][OnTop("sheet") /\ Open("choose") /\ Len(stack') < Depth - 1 =>
        \E e \in Ends : picked'[e] = stack[Depth][2]]_vars
=============================================================================
