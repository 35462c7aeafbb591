----------------------------- MODULE Timetable -----------------------------
(***************************************************************************)
(* The timetable: the list of lines (lib/Pages/Weekdays/Lines.dart) and    *)
(* the page of one line in one direction (lib/Pages/Weekdays/Stops.dart),  *)
(* which shows the calls of one course and, on the sheet 'Godziny', the    *)
(* departures from the first stop; a press on a departure picks its        *)
(* course.                                                                 *)
(*                                                                         *)
(* Both lists are StreamBuilders over live Firestore queries.  Each build  *)
(* of the page makes a new stream, of the course numerek has then; the     *)
(* StreamBuilder cancels the old one but keeps showing its last snapshot   *)
(* until the new one brings its first.  The page is built again after the  *)
(* setState of a pick, and, as it asks ModalRoute.of for its arguments,    *)
(* after the sheet above it opens or closes: with the next frame, and      *)
(* until then the old stream may bring a snapshot, which the list keeps.   *)
(***************************************************************************)
EXTENDS TimeLabel, Sequences

CONSTANTS
  Lines,        \* line numbers
  MaxVersion,   \* bound: states of the database a run of the page may live through
  listing,      \* listing[v]: the lines of 'Dni powszednie' in version v
  hours,        \* hours[v][l, j]: in version v, the departures of line l in
                \* direction j from its first stop, <<h, m>>, in the order of 'l';
                \* course number k starts with the k-th of them
  ograniczony   \* ograniczony[v][l, j]: the courses that leave their first stop out,
                \* so that the field o of their first document is true

Ways == Lines \X (1..2)
Versions == 1..MaxVersion
Courses == UNION {DOMAIN hours[v][w] : v \in Versions, w \in Ways}
NoWay == <<>>
NoList == [of |-> NoWay, kurs |-> 0, version |-> 0]

ASSUME TimetableAssumption ==
  /\ MaxVersion \in Nat \ {0}
  /\ \A v \in Versions : \A w \in Ways : hours[v][w] \in Seq(Clock)
  /\ NoWay \notin Ways
  /\ \A v \in Versions : listing[v] \subseteq Lines

VARIABLES
  version,   \* the state of the database
  lines,     \* the version of the list of lines shown; 0 while it loads
  way,       \* the arguments of the page open: <<linia, kierunek>>, or NoWay
  numerek,   \* the number of the course picked
  dirty,     \* the next frame builds the page
  nrkurs,    \* the departure in the header: its label, or Blank
  pressed,   \* the version of the sheet the departure was pressed on; 0 if none was
  source,    \* the course the stream of the page asks for; NoWay before there is one
  heard,     \* the version of the stream's last snapshot; 0 if none has come
  shown,     \* the snapshot in the list, or NoList ('Loading...')
  sheet      \* the version on the sheet; 0 while it loads, -1 if it is closed

page == <<way, numerek, dirty, nrkurs, pressed, source, heard, shown, sheet>>
vars == <<version, lines, page>>

Shows == [of : Ways, kurs : {1} \cup Courses, version : Versions]

TypeOK ==
  /\ version \in Versions
  /\ lines \in 0..version
  /\ way \in Ways \cup {NoWay}
  /\ numerek \in {1} \cup Courses
  /\ dirty \in BOOLEAN
  /\ nrkurs \in {Label(t) : t \in Clock} \cup {Blank}
  /\ pressed \in 0..version
  /\ source \in (Ways \cup {NoWay}) \X ({1} \cup Courses)
  /\ heard \in 0..version
  /\ shown \in Shows \cup {NoList}
  /\ sheet \in -1..version

Init ==
  /\ version = 1
  /\ lines = 0
  /\ way = NoWay
  /\ numerek = 1
  /\ dirty = FALSE
  /\ nrkurs = Blank
  /\ pressed = 0
  /\ source = <<NoWay, 1>>
  /\ heard = 0
  /\ shown = NoList
  /\ sheet = -1

-----------------------------------------------------------------------------
\* The scraper publishes another timetable.
Publish ==
  /\ version < MaxVersion
  /\ version' = version + 1
  /\ UNCHANGED <<lines, page>>

\* A snapshot of the list of lines, which is live: lines may come and go.
LinesCome ==
  /\ lines' \in (lines + 1)..version
  /\ UNCHANGED <<version, page>>

\* Mutant of Rebuilt: the stream is made once and kept.
RebuiltWithOldStream(w, k) ==
  IF source[1] = NoWay THEN source' = <<w, k>> /\ heard' = 0 ELSE UNCHANGED <<source, heard>>

\* A stream of course k of the page.
Rebuilt(w, k) == source' = <<w, k>> /\ heard' = 0

\* The frame: build makes a stream of the course picked; the list keeps what it shows.
build ==
  /\ dirty
  /\ dirty' = FALSE
  /\ Rebuilt(way, numerek)
  /\ UNCHANGED <<version, lines, way, numerek, nrkurs, pressed, shown, sheet>>

\* The State of a page for w, which has not been built; of no page, if w is NoWay.
NewPage(w) ==
  /\ way' = w
  /\ numerek' = 1
  /\ dirty' = (w # NoWay)
  /\ nrkurs' = Blank
  /\ pressed' = 0
  /\ source' = <<NoWay, 1>>
  /\ heard' = 0
  /\ shown' = NoList
  /\ sheet' = -1

\* One of the two buttons of a line of the list.
OpenWay(w) ==
  /\ lines > 0
  /\ w[1] \in listing[lines]
  /\ way = NoWay
  /\ NewPage(w)
  /\ UNCHANGED <<version, lines>>

\* The page left goes on while it leaves the screen, with a State no other page reads.
Back ==
  /\ way # NoWay
  /\ sheet = -1
  /\ NewPage(NoWay)
  /\ UNCHANGED <<version, lines>>

\* 'Godziny', once the page has been built.
OpenHours ==
  /\ source[1] # NoWay
  /\ sheet = -1
  /\ sheet' = 0
  /\ dirty' = TRUE
  /\ UNCHANGED <<version, lines, way, numerek, nrkurs, pressed, source, heard, shown>>

CloseHours ==
  /\ sheet >= 0
  /\ sheet' = -1
  /\ dirty' = TRUE
  /\ UNCHANGED <<version, lines, way, numerek, nrkurs, pressed, source, heard, shown>>

\* A snapshot of the departures; the sheet keeps to its stream.
HoursCome ==
  /\ sheet >= 0
  /\ sheet' \in (sheet + 1)..version
  /\ UNCHANGED <<version, lines, way, numerek, dirty, nrkurs, pressed, source, heard, shown>>

\* Mutant of Course: one too many.
CourseOnePast(index) == index + 2

Course(index) == index + 1

\* A press on a departure of the sheet, which stays open: the setState.
Pick(index) ==
  /\ sheet > 0
  /\ numerek' = Course(index)
  /\ nrkurs' = Label(hours[sheet][way][index + 1])
  /\ pressed' = sheet
  /\ dirty' = TRUE
  /\ UNCHANGED <<version, lines, way, source, heard, shown, sheet>>

\* The first version the stream may bring: the cache has what the list shows.
Cached == IF <<shown.of, shown.kurs>> = source THEN shown.version ELSE 1

\* A snapshot of the course the current stream asks for; the page may be due for
\* another.
Snapshot(v) ==
  /\ source[1] # NoWay
  /\ heard < v
  /\ Cached <= v
  /\ v <= version
  /\ heard' = v
  /\ shown' = [of |-> source[1], kurs |-> source[2], version |-> v]
  /\ UNCHANGED <<version, lines, way, numerek, dirty, nrkurs, pressed, source, sheet>>

-----------------------------------------------------------------------------
PickSome ==
  \E index \in 0..(IF sheet > 0 THEN Len(hours[sheet][way]) ELSE 0) - 1 : Pick(index)

User == (\E w \in Ways : OpenWay(w)) \/ Back \/ OpenHours \/ CloseHours \/ PickSome

Next == Publish \/ LinesCome \/ User \/ build \/ HoursCome \/ \E v \in Versions : Snapshot(v)

\* Frames are drawn, and snapshots come as long as there is something new to tell.
Fairness == WF_vars(build) /\ WF_vars(\E v \in Versions : Snapshot(v))

Spec == Init /\ [][Next]_vars /\ Fairness

-----------------------------------------------------------------------------
Picked == <<way, numerek>>

\* If the user keeps to a course and leaves the sheet closed, the list comes to
\* show that course, as the database has it, whatever was picked, opened and
\* closed before.
EndsAtPick ==
  \A w \in Ways : \A k \in Courses :
     <>[](Picked = <<w, k>> /\ sheet = -1) =>
        <>[](shown = [of |-> w, kurs |-> k, version |-> version])

\* The list never changes to a course that is not the one picked, but for a snapshot
\* that comes after the pick and before its frame: once the page is built, nothing of a
\* stream left behind is shown, and the sheet, which makes the page build anew, never
\* turns the list to anything else.
NeverToOther ==
  [][shown' # shown /\ shown' # NoList =>
        shown'.of = way' /\ (shown'.kurs = numerek' \/ dirty)]_vars

\* Mutant of FirstRow: a restricted course shows the time all the same.
FirstRowTimed(s) == Label(hours[s.version][s.of][s.kurs])

\* The time in the first row of a list, which has none if the call is restricted.
FirstRow(s) ==
  IF s.kurs \in ograniczony[s.version][s.of]
  THEN Blank
  ELSE Label(hours[s.version][s.of][s.kurs])

\* Over a list of the course picked, the header shows, digit by digit, the departure
\* of that course on the sheet it was pressed on, however often the timetable has
\* been published anew since; so the first row of the list shows the same unless
\* the list has moved on to another version, or the first call is restricted.
\* The header is empty only of the first course.  The index of the press, the
\* number of the course, the order of the sheet and the tests of both labels agree.
HeaderTellsDeparture ==
  shown # NoList /\ <<shown.of, shown.kurs>> = Picked =>
     \/ pressed = 0 /\ nrkurs = Blank /\ numerek = 1
     \/ /\ pressed > 0
        /\ nrkurs = Digits(hours[pressed][way][numerek])
        /\ shown.version = pressed =>
              FirstRow(shown) = IF numerek \in ograniczony[pressed][way] THEN Blank
                                ELSE nrkurs
=============================================================================
