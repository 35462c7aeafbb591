# Mapa ZIM Słupsk: specifications and proofs

TLA+ models of the app in `lib/` (a Flutter client for the timetable of Słupsk's
buses) and of the client through which its iOS build reads the database, the TLC runs
that check them on small instances, and TLAPS proofs of what holds for all instances.
Paths of the app are under `src/lib/`, those of the client under
`src/ios/Pods/FirebaseFirestore/Firestore/core/src/`.

## 1. Inventory

The app has no server side here: a scraper that is not part of the repository
writes a Firestore database, and `lib/` reads it. All of its own code is Dart, in
one isolate: a callback runs to its end, or to its next `await`, without
interruption. What interleaves are answers of Firestore, timers, positions of the
phone, frames, and the touches of the user. The Firestore client is C++ that the
repository carries in `ios/Pods`: the user's queue and one worker queue, whose tasks
interleave with messages and faults of the network.

| Part | Code | State | Operations | Module |
|---|---|---|---|---|
| Trip planner | `Pages/Home.dart` 42-134, 252-289 | the two stops picked, the list `D`; per search `C`, four registers, loops asleep, queries without an answer | two pick buttons, `calculateLines`, its callbacks and timers | `RoutePlanner`, promise: `RouteSearch`, data: `TransitData` |
| Sort of `D` | `Pages/Home.dart` 105-114 | `D`, two counters | the inner step, the next pass | `LineSort` |
| Nearest stops, the list | `Pages/NearStops.dart` 30-73 | four names, four distances | one document of an answer | `NearestStops` |
| Nearest stops, the page | `Pages/NearStops.dart` 102-150, 257-262 | subscriptions, queries, `x`, `disposed` | `build`, position, answers, `dispose` | `NearStopsPage` |
| Pages, tabs, routes | `main.dart`, `Pages/Core.dart`, `Pages/ChooseFromMap.dart`, `Pages/Map.dart`, buttons of the others | tab, stack of pages, picks; per page mounted, its markers or rows, taps and answers on their way | open, back, tap, 'Wybierz', map button, dispose | `Navigation` |
| Timetable | `Pages/Weekdays/Lines.dart`, `Pages/Weekdays/Stops.dart` | course picked, header, stream, list shown, sheet | open, pick, snapshots, rebuilds | `Timetable` |
| Labels of times | `Pages/Weekdays/Stops.dart` 82-96, 148-164 | none | `h`, `m` to text | `TimeLabel` |
| Firestore client, connection | `remote/stream.cc`, `remote/remote_store.cc`, `remote/online_state_tracker.cc` | state of the stream, targets watched, online state, timers | listen, stop listening, open, error, idle, restart, timeout | `WatchConnection` |
| Firestore client, reads | `api/query_core.cc`, `core/event_manager.cc`, `core/query_listener.cc`, `core/sync_engine.cc`, `core/view.cc`, `remote/remote_event.cc`, `local/local_store.cc` | listeners, views, local store, aggregator, both queues | `get()`, live listeners, messages of the backend | `FirestoreReads`, promise: `Reading` |

How they interact. The home page pushes the choose page and awaits its result; the
result sets one end of the trip and calls `calculateLines`, which clears `D` and, if
both ends are picked, starts a search whose callbacks add to `D`; each addition
sorts `D`. The home page also opens the page of the nearest stops, whose rows open
maps. The tab of lines opens the timetable of a line in one direction. The pages
share nothing but the navigator and the database. Every read of theirs goes through the
Firestore client, which has one listener per `get()` or StreamBuilder and one target per
query, over one stream.

What is hard here, and where each hazard is listed with its line (`PROJECT.json`,
"hazards"): answers that come late or not at all, searches that overlap and share
`D`, `id1` and `id2`, several loops of one search over one growing list, callbacks
of pages that are gone, a page that rebuilds itself, messages of the map view that
come when another page is on top or their own is leaving the screen, a list that shows
the snapshot of a stream already replaced or about to be; and, in the client, answers to a watch that has been given up and taken again,
timers that race answers and failures, events posted before their listener is muted, and
streams that break under reads that wait.

What makes each part correct:

* planner: a line shown goes from the stop under 'Z' to the stop under 'DO'; none is
  missing in the end; none is shown twice; a search ends;
* sort: the list is ascending and has the same lines;
* list of the nearest: no stop twice, the nearest first;
* its page: rests when left, cleans up after itself, and does no work nobody asked for;
* navigation: a result comes from the sheet the user pressed on, and reaches a page
  that is still there; the root page stays, and pages that come late come over their own,
  unless they belong to a page that was leaving the screen;
* timetable: header and list come to be of the course picked;
* labels: two digits, two digits;
* client: no watched target without a stream and no timer without a reason; what is told
  of a query never goes back and is never newer than the database; a `get()` is answered,
  and once.

Not modelled: the start (`main`, one await), the greeting (`getText`, one query and
one setState), the widget `Loading` and the method `_determinePosition` (unused), the
registrant and the platform directories (generated), and all of `ios/Pods` but the reads
of the Firestore client: gRPC, BoringSSL, protobuf, leveldb, abseil and the other pods
are general libraries `lib/` never calls, two thirds of a million lines next to the
1500 of `lib/`, so that the models cover nearly all of the app and a very small part of
the tree. Layout, colours and texts are left out everywhere.

Not modelled of the Firestore client, because the app never uses it: writes,
transactions, bundles, `disableNetwork`, accounts (and so tokens that fail). Not modelled
because it needs documents one by one, where `FirestoreReads` has one version per query:
limbo documents and existence filters, that is, documents deleted while nobody listened.
Listens that the backend rejects are left out, as the database is public.

## 2. Modules

```
TransitData <-- RouteSearch            abstract: what the box of lines promises
     ^---------- RoutePlanner          detailed; Promised == INSTANCE RouteSearch
                    ^-- RoutePlannerProofs, MCRoutePlanner
LineSort        <-- LineSortProofs, MCLineSort
NearestStops    <-- NearestStopsProofs, MCNearestStops
NearStopsPage   <-- NearStopsPageProofs, MCNearStopsPage
Navigation      <-- NavigationProofs, MCNavigation
TimeLabel       <-- Timetable, TimeLabelProofs
Timetable       <-- TimetableProofs (with TimeLabelProofs), MCTimetable
Reading         abstract: what the pages count on when they read
WatchConnection <-- FirestoreReads     detailed; Pages == INSTANCE Reading
                    ^-- FirestoreReadsProofs, MCFirestoreReads
```

A definition called "Mutant of X" is X with a plausible bug; no specification uses it.
It shows that the property named with it in `PROJECT.json` can fail.

**TransitData.** The documents `lib/` reads: the stops in snapshot order, the lines
each lists, the calls of course `k1` of each line and direction in snapshot order.
Assumed of the scraper: one document per stop, and finitely many lines.

**RoutePlanner.** One action per callback: `PickFrom`/`PickTo` (the button after its
await, with `calculateLines` in the same setState), `StopsAnswered` (which starts one
loop per document from the one at which both stops have been seen, as `zrobione` is set
only after a whole loop), `NextLine` and `LoopEnds` (a loop after its
`Future.delayed`), `CourseAnswered` (all calls of one line in one direction, with the
test after each of them, which is the existential `found`), `dispose` (another tab),
`StopsLost` and `CourseLost`. A query is `<<d, i, j>>` (the loop, the index into `C`,
the direction). `C` is the common lines once per loop: all loops append before any
sleeps. `D` is a bag of lines, as `LineSort` says it is sorted. The labels
`przystanek1`, `przystanek2` follow `id1`, `id2`, and `nazwa1`, `nazwa2` and the prints
are left out.

Constants describe the environment: `Lag` is the number of 500 ms timers a loop may
live through before an answer to its query comes (0: every answer comes before the
loop's next step), `UserWaits` says that no stop is picked during a search, and
`NetworkLoses` that an answer may never come.

`LatestAddsDirect` says what is left when the user does not wait: overtaken searches go
on adding to the list, but what the latest search adds is direct, because its locals are
its own and nothing has changed the picks since it began. (Its proof needs `Lag = 0` and
no more.) `AllDirectShown` speaks of the lines that `ReadTogether` describes: both ranks
are in the registers at once before another call at the same stop overwrites one.
`AllShownWhenOver` asks it of every state in which the search that no other has overtaken
is over. `WorkIsUsedUp` says why searches end although each answer starts a loop and each
loop makes the common list longer: `WorkLeft` counts turns by loop and index, and no
callback adds to it once the stops have been answered.

Three things that the code does and no property promises away: after a lost answer the
box may say 'Brak linii' although there is a direct line; a circular line may be missed,
if the call read last at its terminus overwrites the rank of the other before the test
has seen both; and a line added by an overtaken search stays until the next pick.

**LineSort.** The two loops, one comparison per step.

**NearestStops.** One document per step. `Shifted` is the closed form of the inner loop
with its overwritten distance; `ShiftIsTheLoop` says that it is what the loop written out
(`LoopShift`) computes. `RowsSettle`: around a phone that is at no stop, however it moves,
the rows come to rest, although names that are overwritten come in again. Distances are natural numbers; only their order and 0
matter. Answers of different positions come in any order, so the next position is free.

**NearStopsPage.** `build`, `Position`, `ListAnswered`, `BoxAnswered`, `NameAnswered`,
`dispose`. The rows are abstracted to the number of answers that changed them (the
first always does, since a row without a distance takes anything). `BoxAnswered` goes
through the documents up to the one that throws: no position yet, a number without a
place in `x`, or setState on a page that is gone. Its answers come, and are never empty:
the database holds all stops, and without an answer the page has nothing to do
(`NeverAtRest` rests on that).

**Navigation.** The stack of pages over the root page, and the States of the choose pages
and of the pages of the nearest stops that are mounted (`choosers`, `lists`, by a place of
no meaning, or `Gone`). `Back` and the pops of 'Wybierz' take a page off the stack and
leave its State: it stays mounted while the page leaves the screen, until
`ChooserDisposed` or `ListDisposed`. In this time it takes no touches, but what is on its
way for it still comes: `taps` is the channel of the map view, in order, and `lookups`
counts presses of map buttons that wait for an answer, in any order. `onTap` and
`MapAnswered` push over whatever is on top. What comes after dispose throws and changes
nothing. A sheet and a map carry a history flag, which no guard reads: whether their own
page was 'open' or 'left' when they came. The home page's picks are lost with its State
when the tab changes. `Chosen` is the stop of the sheet that a marker opens.

So the sheet of a page that was leaving may stand on the root page, and its 'Wybierz' pops
the root page and leaves an empty screen; or it stands on a choose page opened meanwhile,
and gives that page's button a stop tapped on the earlier one. A map may stand on the root
page likewise. `RootStays`, `PicksTapped` and `LatePagesOverTheirs` say that this happens
in no other way: the root page is popped only there, a stop not tapped on the page comes
only from such a sheet, and every page that came while its own was open stands over it.

**Timetable.** A page of a line is a `way` (line, direction) with `numerek` and
`nrkurs`. A pick (setState) makes a build due (`dirty`); so does opening or closing the
sheet, because `ModalRoute.of` makes the page depend on its route. `build` is the frame
that follows, and `Rebuilt` what it does to the stream: a new one of the course `numerek`,
nothing heard, while `shown` stays. `Publish`
is the scraper. `LinesCome` is a snapshot of the live list of lines, whose lines
(`listing`) may come and go; `OpenWay` is one of the two buttons of a line listed. The
first snapshot of a stream may be older than the database, but not older than what the
list shows of that course, which is what `Reading` promises of the client.

Between the pick and its frame the old stream is still heard. A snapshot of the course
before enters the list and is kept until the new stream answers; `NeverToOther` says that
the list turns to a course not picked in no other case.

Between a pick and the first snapshot of the new stream the header is of one course and
the list of another; `HeaderTellsDeparture` therefore speaks of a list of the course
picked. The header keeps the departure as the sheet had it when it was pressed
(`pressed` is that version), while the list moves on with the database; the two agree as
long as the list shows that version, except that the first call of a restricted course
(`ograniczony`, the flag 'o') shows no time.

**TimeLabel.** The label of a time; the four tests are the cases. `Timetable` keeps the
label of the departure pressed in `nrkurs`, and '' before.

**Reading.** The promise that the models of the pages rest on: a `get()` is told at most
once, and of one query no reader is told anything older than any reader was told before,
or newer than the database. It does not promise the newest: an answer may come from the
cache. That is why `RoutePlanner` may lose an answer or find it empty, and why the first
snapshot in `Timetable` may be old.

**WatchConnection.** The stream, the targets watched, the online state tracker with its
timer, as operations on the worker queue. `Open` stands for `Healthy` too. A stream that
is started opens without a round trip, as the gRPC call reports its start at once, so
that errors come to open streams only.

**FirestoreReads.** One action per task: on the user's queue `AddSnapshotListener`
(which `get()` calls), `StopLive` and `OnEvent`; on the worker queue `AddQueryListener`,
`RemoveQueryListener`, the stream's and the tracker's handlers, and `ResponseComes` with
everything it sets off, down to the events posted. Each names the action of
`WatchConnection` that it contains. `Raises` says which listeners a task raises an event
to; the order among them is free, as is the order of requests when a stream opens.
Documents of a query are the version of the database they were read at: 0 is an empty
cache. `state[q].out` counts requests not answered; a target is active when it is watched
and the count is 0. The backend is external: it answers a watch with Added, the
documents, Current and a snapshot, and each publication with the documents and a
snapshot, in the order of the stream. Resume tokens only spare documents already known,
and are left out. `ToldAtRest` is what a reader may count on when the queues and an open
stream are empty (`AtRest`): every `get()` has been answered, and a listener that is still
there was last told what the database has now. It fails if any document, 'current' or
snapshot is dropped that should not be. Assumed: one query per target, and a user's queue that is first in,
first out (the main queue of iOS).

## 3. Runs

| Run | What it asks | Instance |
|---|---|---|
| `planner_in_time` | the inductive invariant `DirectInv` (types included), only direct lines, and refinement of `RouteSearch`, liveness included | 3 stops, 2 lines (both ways; one end per direction), 2 searches, two loops over one `C` |
| `planner_hasty` | what overlapping searches cannot spoil: no line twice, the latest adds direct lines only, in the end all direct lines, none missing when all is over; they end, and each step uses up some of their work | 2 stops, 2 lines (one way; circular), 2 searches at once |
| `planner_rough` | what late and lost answers cannot spoil | `Lag` 1, any answer may be lost, 2 lines (both ways; backward only), 1 search |
| `planner_slow_direct` | what the labels say, violated | `Lag` 1 |
| `line_sort` | the sort, with its inductive invariant | all lists of up to 4 numbers |
| `nearest_stops` | the first row is the nearest if the phone keeps still, its distance never grows, no name twice; the rows come to rest; `Shifted` is the loop | 5 stops, all 120 orders, phone still or between 2 positions with opposite orders, one of them at a stop or (24 orders) neither |
| `nearest_four` | what the title says, violated | the phone still |
| `near_stops_page` | the places of `x`, subscriptions left, rounds of query and build, rows of a page left; the page never rests | stops 1, 2 and 12, a street away from them and one that passes 2 and 12; 4 builds, 3 changes, 6 queries |
| `navigation` | the root page, late pages, results, with pages leaving the screen | 2 stops of one name, 2 choose pages and 2 lists mounted at a time (symmetric), two taps of each and one press on their way, 1 row, 4 pages |
| `navigation_stacked` | 'Wybierz' on a sheet over a choose page chooses, violated | 1 choose page, two taps on their way |
| `timetable` | the list follows the pick, snapshots before its frame included, the header tells the departure pressed in digits, header and list agree in one version | 2 lines, 2 directions, 2 to 3 courses with times on both sides of 10, 2 versions, one with a line less and a restricted course |
| `firestore_reads` | no assertion of tracker or stream fires, a view in sync is fresh, refinement of `Reading`, every `get()` is answered, a client with nothing left to do has told everybody the newest | 1 query, a `get()` and a live listener, 2 versions, 2 faults |

Why the bounds are enough. Two searches are the fewest that overlap or follow each
other, and a third would only meet what the second meets: `D` and the picks. Two loops
over one list are the fewest that share registers. `Lag` 1 is the smallest delay that
lets an answer meet the next line. Five stops are one more than there are rows. Two taps
are the fewest that stack sheets, four pages the fewest that hold two sheets over a choose
page, or the two maps of one name over a list; with one tap on its way at a time
`WybierzChooses` is not violated. Two States of a kind are one that is open and one that is
leaving. One row stands for four, as a row is read by its own button only; two poles of
one name are the fewest that open two maps. Two versions of the database are the fewest with a
change. For the client, a get and a listener of one query are the fewest that share a target
and take it over from each other; it is when the one ends that the target is unwatched and,
by the other, watched again, with answers to both on their way. Two faults are the fewest
that break a stream that an earlier fault has restarted. In `nearest_stops` no two documents share a name, as two poles of one stop do;
`ListIsDistinct` covers those.
The theorems of section 5 have no such bounds.

The three violated properties are what a label or title of the app says; each has a
finding in `PROJECT.json` with the step that breaks it. `CHECK_DEADLOCK FALSE` is set where
the system really may stop: a page left, searches used up and ended, a sort that is
over, the positions used up, everything read, no page on the stack.

## 4. Fairness

`RoutePlanner`: weak fairness of `Background`, the disjunction of all callbacks. The Dart
event loop runs what is due and Firestore answers or (`NetworkLoses`) does not; no
particular callback is favoured. The user is not assumed to do anything. `LineSort`: a
loop goes on. `NearStopsPage`: each kind of callback by itself, as frames and answers
come independently. `Timetable`: frames are drawn (`build`), and the stream brings its next snapshot if it has one to
bring; `EndsAtPick` asks for a user who in the end leaves the sheet closed, since each
build makes a new stream. `Navigation` and `NearestStops` have no fairness: they state safety, and `RowsSettle`,
which says that changes come to an end, needs none. `RouteSearch` promises that direct lines still missing
appear while the page is on the screen. `FirestoreReads`: `ClientFairness` is that of the
two queues, the backoff and the timer of ten seconds: dispatch queues run what is due.
`StreamIdles` is left to chance. `Spec` adds that the backend answers and its messages
come, which `GetsAnswered` needs; faults are bounded, so this is the network after the
last fault. `SilentSpec` does without, and the theorems are about it.

`GetsAnswered` is not claimed of a network that neither answers nor fails. The comment at
`core/query_listener.cc` 138-139 says that the Unknown state "should become Offline or
Online if we wait long enough", which the timer sees to; but when the last listener goes
while the stream is starting or backing off, the state goes back to Unknown without a
timer (`remote/remote_store.cc` 187), and a listener that comes before the stream has
opened starts none. Then only the network can answer or fail. It is listed as a hazard without a property.

## 5. Proofs

`tlapm` checks every leaf with Z3, Zenon and LS4. The theorems hold for all values of the
constants allowed by the named assumptions (`LinesAssumption` and its neighbours,
`PlannerAssumption`, `InputsAssumption`, `NearestAssumption`, `PageAssumption`,
`NavigationAssumption`, `TimetableAssumption`, `ReadsAssumption`).

* **Planner.** `TypeCorrect` and `PlannerNoLineTwice` assume nothing of network and user.
  `NoLineTwice` is inductive over the types: `Including` tests and adds in one step.
  `PlannerShownServesBoth` needs `UserWaits`: while a search goes, the picks stay, and
  `SearchesForPicks` says that its list `C` holds lines of both stops.
  `PlannerShownIsDirect` needs `UserWaits` and `Lag = 0`. A line gets in by its registers,
  so these must come from calls of that line (`RegistersOfLine`). A line's answers write
  them; the next line clears them; so all answers awaited must be those of one line
  (`OneLineAtATime`), which is where the timers enter: a loop that wakes has no answer
  of an earlier line pending. `FreshLocals` starts the induction for a search not yet
  answered. Together these are `DirectInv` (`DirectInvariant`).
  `PlannerImplementsRouteSearch` then maps each step: a pick to `Pick`, the answer that
  adds a line to `Reveal` (with `ShownIsDirect` after the step), `dispose` to `Leave`, all others to a
  stutter.
  `PlannerLatestAddsDirect` does without `UserWaits`: `LatestInv` keeps of `DirectInv` what
  can be said of the search with the highest number, since no pick is made after its own.
* **Sort.** `SortInv` (`SortInvariant`): after `i` passes the last `i` places hold the greatest numbers in
  order, the inner loop carries the greatest number met along. It gives `SortIsSorted`.
  `SortKeepsLines` composes the permutation with a transposition at each exchange.
* **Nearest stops.** `ListIsDistinct`: only a name that is not listed comes in.
  `FirstRowIsNearest`: the first row is only taken over for less; with the phone still,
  its distance stays that of its stop. `ListIsOfSeen` is the strengthening: names listed
  are names of documents gone through. `ShiftStandsForTheLoop` compares row by row; it
  needs the types only.
* **Page.** `PageTypeCorrect` shows that `x` is never indexed outside its 12 places (the
  callback throws before). `PageLeavesAllButLast` needs that only a mounted page is
  dirty. `PageRounds` needs that away from the stops `x` is empty and no name is asked.
* **Navigation.** `NavInv`, whose heart is `StackFits`: each page of the stack stands where
  its kind may, an open page has its State mounted, and a sheet that came while its page
  was open shows a stop tapped on that page. It needs `TapsTapped`, that taps on their way
  have been tapped, and `ReturnsToHome` for its own induction, as the tab can change only
  at the root page. No push touches the root page, and no pop does while two pages are
  over it; so it goes only with a sheet in the second place, which cannot have come from an
  open page (`RootPageStays`). `PicksAreTapped`: the second pop of 'Wybierz' meets a choose
  page only in the second place, so the root page is left. Nothing is assumed of how long
  a page takes to leave, or how many are leaving.
* **Timetable.** `PageOK` relates the stream to the pick: it asks for the course picked, or
  the next frame builds the page; `HeaderOfPick` the header to the
  departures, digit by digit (`LabelsAreDigits`: the four cases cover all times).
* **Client.** `ReadsTrackerSound`: `ConnectionInv` adds to `TrackerSound` that the timer
  runs for a target or on an open stream (`TimerHasReason`), as the timer takes the
  client offline, which must not outlive its targets. Each action of `WatchConnection`
  preserves it, and each task of `FirestoreReads` is one of them or leaves the connection
  alone. `ReadsKeepReading`: versions are ordered along the way they take. Nothing on the
  way is newer than the database (`NothingNewer`), a view shows the local store
  (`ViewsShowCache`), and told, posted and stored come in this order for each query
  (`ToldInOrder`, `EventsInOrder`), which holds because the local store only ever takes
  the newer document. A get is muted when it is answered (`AnsweredAreMuted`). Then
  `OnEvent` to a listener not muted is `Tell`, `Publish` is `Publish`, and everything else
  a stutter. Nothing is assumed of the network.
  `ReadsInSyncIsFresh`: a target may be left and watched again while answers to the first
  watch are on their way, and only the count of requests tells those from the new ones.
  `RequestsCounted` says what the count is: the requests of the target that the backend has
  not read plus its answers the client has not handled, as cardinalities of sets of places
  in the two sequences. A place is `Settled` when no answer of the target comes after it.
  `NewsOf` then says of a target whose requests have all been read: a document at a
  settled place is no older than the view, and the local store has one or one
  comes before the first settled snapshot. The backend makes it true when it reads the
  last request, which is to watch (`AskedLast`); the client keeps it true because it takes
  documents exactly when the count is zero, that is, at settled places. The lemmas on
  `Count` (of a concatenation, of a tail) stand in front. `ReadsTypeOK` takes from
  `RequestsCounted` that the count is never negative, and from `Callers` that tasks and
  events are of those who called.

Liveness under fairness is beyond the prover, so `SearchesEnd`, `AllDirectShown`, the
liveness half of `KeepsPromise`, `SortEnds`, `NeverAtRest`, `EndsAtPick`, `RowsSettle` and
`GetsAnswered` are only model-checked as they stand. What most of them need besides
fairness is proved, as safety, for all values of the constants:

* `SearchesEnd`: `PlannerWorkIsUsedUp` (the work left of a search, a finite set, shrinks
  with every step that is not the user's) and `PlannerNeverStuck` (while a search is not
  over, an answer can come or some loop has its turn; the sleepers do not wait for each
  other in a ring). Nothing is assumed of the network.
* `AllDirectShown`: `PlannerAllShownIfSearchesEnd` reduces it to `SearchesEnd` by
  `PlannerAllShown`, the invariant `AllShownWhenOver`. It assumes `~NetworkLoses` and no
  more: each line of the list, in each direction, is yet to be asked for (`ToCome`), awaits
  its answer (`Awaited`), or is shown if that direction serves the trip (`LatestCovers`).
  `PlannerShowsTrip` puts both halves together: a user
  who waits, a network in time and no circular line give exactly the direct lines.
* `RowsSettle`: `NearestRowsGetNearer`. Each change of the names lowers the distances in
  the lexicographic order of the rows, no distance being the greatest. There is no endless
  descent in it, and nothing is needed of the phone but that it is at no stop. Before this
  proof the property spoke of a phone that keeps still.
* `NeverAtRest`: `PageHasMoreToDo`. An open page that knows its position has a build or an
  answer to come; the first answer to a position always changes a row (`FirstFix`).
* `EndsAtPick`: `TimetableSnapshotsLeadToPick`. A frame is due, or the stream of the page has
  a newer snapshot to bring, or the list shows the course picked in the newest version (`ShowsLast`).
* `GetsAnswered`: `ReadsGetIsInHand`. A `get()` without an answer waits for a task, an
  event, a stream that is starting, or a message on an open stream.

The last one and `ReadsToldAtRest` (`ToldAtRest`) come from one invariant, `ClientInv`,
whose two new parts are these.

* `DueParts`. Responses come in the order of their versions, and no snapshot on the wire is
  too old to be raised (`InOrder`). For a watched target with no request on its way,
  'current' and the newest documents are `Due`: the message is at a settled place of the
  wire with a snapshot after it, or has been heard and a snapshot is to come, or has been
  seen (`NewsAreDue`). Every kind of step has a lemma. The hard ones are a response that is
  taken, where a heard message becomes seen with the next snapshot, and the answer of the
  backend, which may be to the first of several requests about one target. The timer of
  ten seconds takes the views out of sync, with no 'current' to come if one has been heard: `TimerHears` says it does not, as the first response stops it.
* `CallParts`. Who has called and is not muted is in the queue or listens
  (`NobodyForgotten`); a listener was told what its view shows, or an event on its way will
  tell it, or its view may not be shown yet (`Listening`, `Informed`); nobody is queued
  twice or removed unmuted (`TasksOnce`), and a `get()` is muted only by its answer
  (`MutedHaveHeard`).

So a client at rest on an open stream has nothing due, its views are in sync, and all have
been told. What is left to the runs is the step from 'something can happen' to 'it does'.

## 6. Plan

Done: all modules above. Left, in this order:

1. documents one by one in `FirestoreReads`, for limbo documents and existence filters;
2. compose `Navigation` with `RoutePlanner`, so that a pick is the result of a choose page
   and a search outlives the tab;
3. compose `NearestStops` with `NearStopsPage`, so that the rows of the page are the real
   ones and each change of a row is a build;
4. the markers of `MapPage`.
