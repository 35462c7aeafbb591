-------------------------- MODULE TimetableProofs --------------------------
(***************************************************************************)
(* The timetable, for any lines, courses and versions of the database.     *)
(***************************************************************************)
EXTENDS Timetable, TimeLabelProofs

\* The course of a departure.
LEMMA PickedCourse ==
  ASSUME NEW v \in Versions, NEW w \in Ways, NEW index \in Nat, index < Len(hours[v][w])
  PROVE  /\ index + 1 \in DOMAIN hours[v][w]
         /\ index + 1 \in Courses
         /\ hours[v][w][index + 1] \in Clock
<1>1. hours[v][w] \in Seq(Clock)
  BY TimetableAssumption
<1>2. Len(hours[v][w]) \in Nat /\ DOMAIN hours[v][w] = 1..Len(hours[v][w])
  BY <1>1
<1>3. index + 1 \in DOMAIN hours[v][w]
  BY <1>2
<1>4. DOMAIN hours[v][w] \in {DOMAIN hours[a][b] : a \in Versions, b \in Ways}
  OBVIOUS
<1>5. index + 1 \in Courses
  BY <1>3, <1>4 DEF Courses
<1>6. hours[v][w][index + 1] \in Clock
  BY <1>1, <1>2, <1>3
<1> QED BY <1>3, <1>5, <1>6

\* A pick is a press on a departure of the sheet.
LEMMA PickIsOfSheet ==
  ASSUME TypeOK, PickSome
  PROVE  \E index \in Nat :
            /\ Pick(index)
            /\ sheet \in Versions
            /\ index < Len(hours[sheet][way])
<1>1. PICK index \in 0..(IF sheet > 0 THEN Len(hours[sheet][way]) ELSE 0) - 1 : Pick(index)
  BY DEF PickSome
<1>2. sheet > 0 /\ sheet \in Versions
  BY <1>1, TimetableAssumption DEF Pick, TypeOK, Versions
<1>3. index \in 0..(Len(hours[sheet][way]) - 1)
  BY <1>1, <1>2
<1> QED BY <1>1, <1>2, <1>3

\* The types, and what relates the parts of the page: only an open page has a
\* sheet, its stream asks for a course of the page, and for the one picked unless
\* the next frame builds the page, and its list is of the page and comes from no
\* later version than there is.
PageOK ==
  /\ TypeOK
  /\ sheet >= 0 => way # NoWay
  /\ shown # NoList => shown.version <= version /\ shown.of = way
  /\ source[1] \in {way, NoWay}
  /\ ~dirty => source = Picked

THEOREM PageInit == Init => PageOK
<1> SUFFICES ASSUME Init PROVE PageOK
  OBVIOUS
<1>1. version \in Versions /\ heard \in 0..version /\ sheet \in -1..version
  BY TimetableAssumption DEF Init, Versions
<1>2. way \in Ways \cup {NoWay} /\ numerek \in {1} \cup Courses /\ nrkurs = Blank
  BY DEF Init
<1>3. /\ source \in (Ways \cup {NoWay}) \X ({1} \cup Courses) /\ source = Picked
      /\ source[1] = way /\ dirty \in BOOLEAN
  BY DEF Init, Picked
<1>4. lines \in 0..version /\ pressed \in 0..version /\ shown = NoList
  BY TimetableAssumption DEF Init
<1>5. ~(sheet >= 0)
  BY DEF Init
<1> QED BY <1>1, <1>2, <1>3, <1>4, <1>5 DEF PageOK, TypeOK

THEOREM PageStep == PageOK /\ [Next]_vars => PageOK'
<1> SUFFICES ASSUME PageOK, [Next]_vars PROVE PageOK'
  OBVIOUS
<1> USE TimetableAssumption DEF Versions
<1>0. version \in 1..MaxVersion /\ MaxVersion \in Nat
  BY DEF PageOK, TypeOK
<1>1. CASE Publish
  <2>1. shown' # NoList => shown'.version <= version' /\ shown'.of = way
    BY <1>0, <1>1 DEF Publish, page, PageOK, TypeOK, Shows
  <2> QED BY <1>0, <1>1, <2>1 DEF Publish, page, PageOK, TypeOK, Picked
<1>2. CASE LinesCome
  BY <1>2 DEF LinesCome, page, PageOK, TypeOK, Picked
<1>3. ASSUME NEW w \in Ways, OpenWay(w) PROVE PageOK'
  <2>1. /\ source' = <<NoWay, 1>> /\ dirty' \in BOOLEAN /\ dirty'
        /\ way' = w /\ numerek' = 1
    BY <1>3, TimetableAssumption DEF OpenWay, NewPage
  <2>2. TypeOK'
    BY <1>0, <1>3, <2>1 DEF OpenWay, NewPage, PageOK, TypeOK
  <2> QED BY <1>3, <2>1, <2>2 DEF OpenWay, NewPage, PageOK
<1>4. CASE Back
  BY <1>0, <1>4 DEF Back, NewPage, PageOK, TypeOK, Picked
<1>5. CASE OpenHours
  BY <1>0, <1>5 DEF OpenHours, PageOK, TypeOK, Picked
<1>6. CASE CloseHours
  BY <1>0, <1>6 DEF CloseHours, PageOK, TypeOK, Picked
<1>7. CASE PickSome
  <2>1. PICK index \in Nat : /\ Pick(index)
                             /\ sheet \in Versions
                             /\ index < Len(hours[sheet][way])
    BY <1>7, PickIsOfSheet DEF PageOK
  <2>2. way \in Ways
    BY <2>1 DEF PageOK, TypeOK
  <2>3. numerek' = index + 1 /\ numerek' \in Courses
        /\ nrkurs' \in {Label(t) : t \in Clock}
    BY <2>1, <2>2, PickedCourse DEF Pick, Course
  <2> QED BY <1>0, <2>1, <2>2, <2>3 DEF Pick, PageOK, TypeOK, Picked
<1>8. CASE HoursCome
  BY <1>0, <1>8 DEF HoursCome, PageOK, TypeOK, Picked
<1>9. ASSUME NEW v \in Versions, Snapshot(v) PROVE PageOK'
  <2>1. /\ shown' \in Shows /\ shown'.version <= version /\ version' = version
        /\ shown'.of = way
    BY <1>9 DEF Snapshot, Shows, PageOK, TypeOK, Picked
  <2>2. TypeOK'
    BY <1>0, <1>9, <2>1 DEF Snapshot, PageOK, TypeOK
  <2>3. UNCHANGED <<way, numerek, source, dirty, sheet>>
    BY <1>9 DEF Snapshot
  <2> QED BY <2>1, <2>2, <2>3 DEF PageOK, Picked
<1>10. CASE build
  <2>1. /\ source' = <<way, numerek>> /\ heard' = 0 /\ dirty' = FALSE
        /\ UNCHANGED <<version, lines, way, numerek, nrkurs, pressed, shown, sheet>>
    BY <1>10 DEF build, Rebuilt
  <2>2. source' \in (Ways \cup {NoWay}) \X ({1} \cup Courses) /\ dirty' \in BOOLEAN
    BY <2>1 DEF PageOK, TypeOK
  <2>3. heard' \in 0..version
    BY <1>0, <2>1
  <2>4. TypeOK'
    BY <2>1, <2>2, <2>3 DEF PageOK, TypeOK
  <2> QED BY <2>1, <2>4 DEF PageOK, Picked
<1>11. CASE UNCHANGED vars
  BY <1>11 DEF vars, page, PageOK, TypeOK, Picked
<1> QED BY <1>1, <1>2, <1>3, <1>4, <1>5, <1>6, <1>7, <1>8, <1>9, <1>10, <1>11 DEF Next, User

THEOREM PageInvariant == Spec => []PageOK
BY PageInit, PageStep, PTL DEF Spec

\* The type invariant.
THEOREM TimetableTypeCorrect == Spec => []TypeOK
<1>1. PageOK => TypeOK
  BY DEF PageOK
<1> QED BY <1>1, PageInvariant, PTL

\* The list changes to a snapshot of the page only, and to one of the course picked
\* unless the frame of the pick has not been drawn yet.
THEOREM TimetableNeverToOther == Spec => NeverToOther
<1>1. PageOK /\ [Next]_vars =>
        [shown' # shown /\ shown' # NoList =>
           shown'.of = way' /\ (shown'.kurs = numerek' \/ dirty)]_vars
  <2> SUFFICES ASSUME PageOK, Next, shown' # shown, shown' # NoList
               PROVE  shown'.of = way' /\ (shown'.kurs = numerek' \/ dirty)
    OBVIOUS
  <2>1. PICK v \in Versions : Snapshot(v)
    BY DEF Next, Publish, LinesCome, page, User, OpenWay, Back, NewPage, OpenHours,
           CloseHours, PickSome, Pick, build, HoursCome
  <2>2. /\ shown'.of = source[1] /\ shown'.kurs = source[2]
        /\ way' = way /\ numerek' = numerek /\ source[1] # NoWay
    BY <2>1 DEF Snapshot
  <2>3. source[1] = way
    BY <2>2 DEF PageOK
  <2>4. ~dirty => source[2] = numerek
    BY DEF PageOK, Picked
  <2> QED BY <2>2, <2>3, <2>4
<1> QED BY <1>1, PageInvariant, PTL DEF Spec, NeverToOther

\* The header shows the departure of the course picked, as it was on the sheet
\* it was pressed on.
HeaderOfPick ==
  \/ pressed = 0 /\ nrkurs = Blank /\ numerek = 1
  \/ /\ pressed > 0
     /\ numerek \in DOMAIN hours[pressed][way]
     /\ hours[pressed][way][numerek] \in Clock
     /\ nrkurs = Digits(hours[pressed][way][numerek])

\* The header of a list of the course picked shows the departure pressed, and the
\* list starts with it if it is of the version of that sheet.
THEOREM TimetableHeader == Spec => []HeaderTellsDeparture
<1>1. Init => HeaderOfPick
  BY DEF Init, HeaderOfPick
<1>2. PageOK /\ HeaderOfPick /\ [Next]_vars => HeaderOfPick'
  <2> SUFFICES ASSUME PageOK, HeaderOfPick, [Next]_vars PROVE HeaderOfPick'
    OBVIOUS
  <2>1. CASE UNCHANGED <<pressed, way, numerek, nrkurs>>
    BY <2>1 DEF HeaderOfPick
  <2>2. CASE pressed' = 0 /\ nrkurs' = Blank /\ numerek' = 1
    BY <2>2 DEF HeaderOfPick
  <2>3. CASE PickSome
    <3>1. PICK index \in Nat : /\ Pick(index)
                               /\ sheet \in Versions
                               /\ index < Len(hours[sheet][way])
      BY <2>3, PickIsOfSheet DEF PageOK
    <3>2. way \in Ways /\ way' = way
      BY <3>1 DEF PageOK, TypeOK, Pick
    <3>3. /\ index + 1 \in DOMAIN hours[sheet][way]
          /\ hours[sheet][way][index + 1] \in Clock
      BY <3>1, <3>2, PickedCourse
    <3>4. /\ pressed' = sheet /\ sheet > 0
          /\ nrkurs' = Label(hours[sheet][way][index + 1])
          /\ numerek' = index + 1
      BY <3>1 DEF Pick, Course
    <3>5. Label(hours[sheet][way][index + 1]) = Digits(hours[sheet][way][index + 1])
      BY <3>3, LabelsAreDigits
    <3> QED BY <3>2, <3>3, <3>4, <3>5 DEF HeaderOfPick
  <2> QED BY <2>1, <2>2, <2>3
        DEF Next, Publish, LinesCome, page, vars, User, OpenWay, Back, NewPage, OpenHours,
            CloseHours, build, HoursCome, Snapshot
<1>3. HeaderOfPick => HeaderTellsDeparture
  <2> SUFFICES ASSUME HeaderOfPick, shown # NoList, <<shown.of, shown.kurs>> = Picked,
                      pressed > 0, shown.version = pressed
               PROVE  FirstRow(shown) = IF numerek \in ograniczony[pressed][way] THEN Blank
                                        ELSE nrkurs
    BY DEF HeaderTellsDeparture, HeaderOfPick
  <2>1. shown.of = way /\ shown.kurs = numerek
    BY DEF Picked
  <2>2. Label(hours[pressed][way][numerek]) = Digits(hours[pressed][way][numerek])
    BY LabelsAreDigits DEF HeaderOfPick
  <2> QED BY <2>1, <2>2 DEF FirstRow, HeaderOfPick
<1> QED BY <1>1, <1>2, <1>3, PageInvariant, PTL DEF Spec

\* The list shows the last snapshot of the stream, once one has come.
ShowsLast ==
  heard > 0 => source[1] # NoWay /\ shown = [of |-> source[1], kurs |-> source[2], version |-> heard]

\* An open page is to be built with the next frame, or its stream has a next snapshot
\* to bring, the newest, or the list shows the course picked as the database has it:
\* neither what was cached nor a snapshot of the course left, which came before the
\* frame, keeps the list from coming up to date.  It is what EndsAtPick needs besides fairness.
SnapshotsLeadToPick ==
  way # NoWay =>
     \/ dirty
     \/ heard < version /\ Cached <= version
     \/ shown = [of |-> way, kurs |-> numerek, version |-> version]

\* Whatever was picked, opened and closed before, a page whose stream has nothing more
\* to bring shows the course picked in the newest version.
THEOREM TimetableSnapshotsLeadToPick == Spec => []SnapshotsLeadToPick
<1>1. Init => ShowsLast
  BY DEF Init, ShowsLast
<1>2. PageOK /\ ShowsLast /\ [Next]_vars => ShowsLast'
  <2> SUFFICES ASSUME PageOK, ShowsLast, [Next]_vars PROVE ShowsLast'
    OBVIOUS
  <2>1. CASE UNCHANGED <<source, heard, shown>>
    BY <2>1 DEF ShowsLast
  <2>2. CASE heard' = 0
    BY <2>2 DEF ShowsLast
  <2>3. ASSUME NEW v \in Versions, Snapshot(v) PROVE ShowsLast'
    BY <2>3 DEF Snapshot, ShowsLast
  <2> QED BY <2>1, <2>2, <2>3
        DEF Next, Publish, LinesCome, page, User, OpenWay, Back, NewPage, OpenHours,
            CloseHours, PickSome, Pick, build, HoursCome, Rebuilt, vars
<1>3. PageOK /\ ShowsLast => SnapshotsLeadToPick
  <2> SUFFICES ASSUME PageOK, ShowsLast, way # NoWay, ~dirty PROVE SnapshotsLeadToPick
    BY DEF SnapshotsLeadToPick
  <2>1. source = <<way, numerek>> /\ version \in Nat /\ version >= 1 /\ heard \in 0..version
    BY TimetableAssumption DEF PageOK, TypeOK, Picked, Versions
  <2>2. CASE heard = version
    BY <2>1, <2>2 DEF ShowsLast, SnapshotsLeadToPick
  <2>3. CASE heard < version
    <3>1. NoList.version <= version
      BY <2>1 DEF NoList
    <3>2. Cached <= version
      BY <2>1, <3>1 DEF Cached, PageOK
    <3> QED BY <2>3, <3>2 DEF SnapshotsLeadToPick
  <2> QED BY <2>1, <2>2, <2>3
<1> QED BY <1>1, <1>2, <1>3, PageInvariant, PTL DEF Spec
=============================================================================
