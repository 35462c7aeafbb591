------------------------ MODULE NearStopsPageProofs ------------------------
(***************************************************************************)
(* The page of the nearest stops, for any number of stops, positions,      *)
(* builds and queries.                                                     *)
(***************************************************************************)
EXTENDS NearStopsPage, FiniteSetTheorems, TLAPS

\* The queries one callback adds are finitely many.
LEMMA LiveFinite == TypeOK => Cardinality(live) \in Nat
<1> SUFFICES ASSUME TypeOK PROVE Cardinality(live) \in Nat
  OBVIOUS
<1>1. IsFiniteSet(1..builds)
  BY FS_Interval DEF TypeOK
<1> QED BY <1>1, FS_Subset, FS_CardinalityType DEF TypeOK

LEMMA DocsFinite ==
  ASSUME NEW S \in SUBSET Docs
  PROVE  Cardinality(S) \in Nat
<1>1. IsFiniteSet(Docs)
  BY PageAssumption, FS_Interval DEF Docs
<1> QED BY <1>1, FS_Subset, FS_CardinalityType

\* A beginning of the documents is as long as its last one says.
LEMMA PrefixCount ==
  ASSUME NEW S \in SUBSET Docs, S # {}, \A n \in S : 1..n \subseteq S
  PROVE  Cardinality(S) \in S
<1> DEFINE c == Cardinality(S)
<1>1. IsFiniteSet(S)
  <2>1. IsFiniteSet(Docs)
    BY PageAssumption, FS_Interval DEF Docs
  <2> QED BY <2>1, FS_Subset
<1>2. c \in Nat /\ c # 0
  BY <1>1, FS_CardinalityType, FS_EmptySet
<1>3. \A n \in S : n \in Nat
  BY PageAssumption DEF Docs
<1> HIDE DEF c
<1>4. SUFFICES ASSUME c \notin S PROVE FALSE
  BY DEF c
<1>5. \A n \in S : n < c
  <2> SUFFICES ASSUME NEW n \in S, c <= n PROVE FALSE
    BY <1>2, <1>3
  <2>1. c \in 1..n
    BY <1>2, <1>3
  <2> QED BY <1>4, <2>1
<1>6. S \subseteq 1..(c - 1)
  BY <1>2, <1>3, <1>5 DEF Docs
<1>7. c - 1 \in Nat
  BY <1>2
<1>8. IsFiniteSet(1..(c - 1)) /\ Cardinality(1..(c - 1)) = c - 1
  BY <1>2, <1>7, FS_Interval
<1>9. Cardinality(S) <= Cardinality(1..(c - 1))
  BY <1>6, <1>8, FS_Subset
<1> QED BY <1>2, <1>8, <1>9 DEF c

\* Whatever x holds comes from documents whose number has a place in it.
THEOREM PageTypeCorrect == Spec => []TypeOK
<1> USE PageAssumption
<1>1. Init => TypeOK
  <2> SUFFICES ASSUME Init PROVE TypeOK
    OBVIOUS
  <2>1. builds \in 1..MaxBuilds /\ changes \in 0..MaxChanges
    BY DEF Init
  <2>2. live \subseteq 1..builds
    BY DEF Init
  <2>3. mounted \in BOOLEAN /\ dirty \in BOOLEAN
    BY DEF Init
  <2> QED BY <2>1, <2>2, <2>3 DEF Init, TypeOK
<1>2. TypeOK /\ [Next]_vars => TypeOK'
  <2> SUFFICES ASSUME TypeOK, [Next]_vars PROVE TypeOK'
    OBVIOUS
  <2>1. CASE build
    <3>1. builds' \in 1..MaxBuilds /\ asked' \in Nat
      BY <2>1 DEF build, TypeOK
    <3>2. live' \subseteq 1..builds'
      BY <2>1 DEF build, TypeOK
    <3> QED BY <2>1, <3>1, <3>2 DEF build, TypeOK
  <2>2. ASSUME NEW p \in Positions, Position(p) PROVE TypeOK'
    <3>1. listAsked' \in Nat
      BY <2>2, LiveFinite DEF Position, TypeOK
    <3> QED BY <2>2, <3>1 DEF Position, TypeOK
  <2>3. CASE ListAnswered
    <3>1. listAsked' \in Nat /\ changes' \in 0..MaxChanges /\ dirty' \in BOOLEAN
      BY <2>3 DEF ListAnswered, RowsChange, RowsStay, TypeOK
    <3> QED BY <2>3, <3>1 DEF ListAnswered, TypeOK
  <2>4. CASE BoxAnswered
    <3> DEFINE read == {n \in Docs : Reads(n)}
               atStop == {n \in read : AtStop(n)}
    <3>1. Cardinality(read) \in Nat /\ Cardinality(atStop) \in Nat
      BY DocsFinite
    <3>2. /\ asked' \in Nat
          /\ named' = named + Cardinality(atStop)
          /\ dirty' = (dirty \/ (mounted /\ read # atStop))
          /\ x' = IF read = {} THEN x ELSE XAfter(Cardinality(read))
          /\ UNCHANGED <<near, mounted, builds, live, fix, listAsked, changes>>
      BY <2>4 DEF BoxAnswered, TypeOK
    <3>3. x' \subseteq Places
      <4>1. CASE read = {}
        BY <3>2, <4>1 DEF TypeOK
      <4>2. CASE read # {}
        <5> DEFINE c == Cardinality(read)
        <5>1. \A n \in read : 1..n \subseteq read
          BY DEF Reads, Docs
        <5>2. c \in read
          BY <4>2, <5>1, PrefixCount
        <5>3. Numbers(c) \subseteq Places
          BY <5>2 DEF Reads, Placed, Numbers
        <5> QED BY <3>2, <4>2, <5>3 DEF XAfter, TypeOK
      <4> QED BY <4>1, <4>2
    <3>4. named' \in Nat /\ dirty' \in BOOLEAN
      BY <3>1, <3>2 DEF TypeOK
    <3> QED BY <3>2, <3>3, <3>4 DEF TypeOK
  <2>5. CASE NameAnswered
    BY <2>5 DEF NameAnswered, TypeOK
  <2>6. CASE dispose
    BY <2>6 DEF dispose, TypeOK
  <2>7. CASE UNCHANGED vars
    BY <2>7 DEF vars, TypeOK
  <2> QED BY <2>1, <2>2, <2>3, <2>4, <2>5, <2>6, <2>7 DEF Next
<1> QED BY <1>1, <1>2, PTL DEF Spec

\* Only a page that is there is built again.
OnlyMountedDirty == dirty => mounted

\* One subscription leaks with every run of build but the last, for good.
THEOREM PageLeavesAllButLast == Spec => []LeavesAllButLast
<1>1. Init => LeavesAllButLast /\ OnlyMountedDirty
  BY DEF Init, LeavesAllButLast, OnlyMountedDirty
<1>2. TypeOK /\ LeavesAllButLast /\ OnlyMountedDirty /\ [Next]_vars => LeavesAllButLast'
  <2> SUFFICES ASSUME TypeOK, LeavesAllButLast, OnlyMountedDirty, [Next]_vars
               PROVE  LeavesAllButLast'
    OBVIOUS
  <2>1. CASE build
    <3>1. mounted /\ mounted' /\ live = 1..builds /\ builds' = builds + 1 /\ builds \in Nat
      BY <2>1 DEF build, LeavesAllButLast, OnlyMountedDirty, TypeOK
    <3>2. live' = 1..builds'
      BY <2>1, <3>1 DEF build
    <3> QED BY <3>1, <3>2 DEF LeavesAllButLast
  <2>2. CASE dispose
    <3>1. live = 1..builds /\ ~mounted' /\ builds' = builds /\ builds \in Nat
      BY <2>2 DEF dispose, LeavesAllButLast, TypeOK
    <3>2. live' = 1..(builds' - 1)
      BY <2>2, <3>1 DEF dispose
    <3> QED BY <3>1, <3>2 DEF LeavesAllButLast
  <2>3. CASE UNCHANGED <<mounted, builds, live>>
    BY <2>3 DEF LeavesAllButLast
  <2> QED BY <2>1, <2>2, <2>3
        DEF Next, Position, ListAnswered, BoxAnswered, NameAnswered, vars
<1>3. TypeOK /\ OnlyMountedDirty /\ [Next]_vars => OnlyMountedDirty'
  BY DEF OnlyMountedDirty, Next, TypeOK, build, Position, ListAnswered, RowsChange,
         RowsStay, BoxAnswered, NameAnswered, dispose, vars
<1> QED BY <1>1, <1>2, <1>3, PageTypeCorrect, PTL DEF Spec

\* The rows rest when the page has been left.
THEOREM PageRowsRest == Spec => RowsRestWhenLeft
<1>1. [Next]_vars => [~mounted => changes' = changes]_vars
  BY DEF Next, build, Position, ListAnswered, BoxAnswered, NameAnswered, dispose, vars
<1> QED BY <1>1, PTL DEF Spec, RowsRestWhenLeft

\* Away from the stops nothing is remembered in x and no name is asked for.
NoStopNear ==
  (\A p \in Positions : near[p] = {}) => x = {} /\ named = 0

\* Each change of the rows keeps at most one round going.
THEOREM PageRounds == Spec => []RoundsOnlyFromChanges
<1> DEFINE Inv == NoStopNear /\ RoundsOnlyFromChanges
<1> USE PageAssumption
<1>1. Init => Inv
  BY DEF Init, NoStopNear, RoundsOnlyFromChanges
<1>2. TypeOK /\ Inv /\ [Next]_vars => Inv'
  <2>a. [Next]_vars => near' = near
    BY DEF Next, build, Position, ListAnswered, BoxAnswered, NameAnswered, dispose, vars
  <2> SUFFICES ASSUME TypeOK, Inv, [Next]_vars, \A p \in Positions : near[p] = {}
               PROVE  /\ x' = {} /\ named' = 0
                      /\ asked' + (IF dirty' THEN 1 ELSE 0) <= 1 + changes'
    BY <2>a DEF NoStopNear, RoundsOnlyFromChanges
  <2>0. /\ x = {} /\ named = 0 /\ asked \in Nat /\ changes \in Nat
        /\ asked + (IF dirty THEN 1 ELSE 0) <= 1 + changes
    BY DEF NoStopNear, RoundsOnlyFromChanges, TypeOK
  <2> HIDE DEF Inv
  <2>1. CASE build
    BY <2>0, <2>1 DEF build
  <2>2. CASE \E p \in Positions : Position(p)
    BY <2>0, <2>2 DEF Position
  <2>3. CASE ListAnswered
    BY <2>0, <2>3 DEF ListAnswered, RowsChange, RowsStay
  <2>4. CASE BoxAnswered
    <3> DEFINE read == {n \in Docs : Reads(n)}
               atStop == {n \in read : AtStop(n)}
    <3>1. CASE fix = NoFix
      <4>1. read = {} /\ atStop = {}
        BY <3>1 DEF Reads
      <4>2. x' = {} /\ named' = named + Cardinality({}) /\ (dirty' <=> dirty)
            /\ asked' = asked - 1 /\ changes' = changes
        BY <2>0, <2>4, <4>1 DEF BoxAnswered
      <4> QED BY <2>0, <4>2, FS_EmptySet
    <3>2. CASE fix \in Positions
      <4>1. \A n \in Docs : XAfter(n) = {}
        BY <2>0, <3>2 DEF XAfter
      <4>2. atStop = {}
        BY <4>1 DEF AtStop
      <4>3. named' = 0
        <5>1. named' = named + Cardinality(atStop)
          BY <2>4 DEF BoxAnswered
        <5>2. Cardinality(atStop) = 0
          BY <4>2, FS_EmptySet
        <5> HIDE DEF atStop
        <5> QED BY <2>0, <5>1, <5>2
      <4>4. x' = {}
        BY <2>0, <2>4, <3>2 DEF BoxAnswered, XAfter
      <4>5. asked > 0 /\ asked' = asked - 1 /\ changes' = changes
        BY <2>4 DEF BoxAnswered
      <4> QED BY <2>0, <4>3, <4>4, <4>5
    <3> QED BY <3>1, <3>2 DEF TypeOK
  <2>5. CASE NameAnswered
    BY <2>0, <2>5 DEF NameAnswered
  <2>6. CASE dispose
    BY <2>0, <2>6 DEF dispose
  <2>7. CASE UNCHANGED vars
    BY <2>0, <2>7 DEF vars
  <2> QED BY <2>1, <2>2, <2>3, <2>4, <2>5, <2>6, <2>7 DEF Next
<1>3. Inv => RoundsOnlyFromChanges
  OBVIOUS
<1> HIDE DEF Inv
<1> QED BY <1>1, <1>2, <1>3, PageTypeCorrect, PTL DEF Spec

\* Before the first position nearStops has not asked, and no row is set.
FirstFix == fix = NoFix => listAsked = 0 /\ changes = 0

\* An open page that knows its position has a build, an answer or a first row to come.
HasMoreToDo ==
  mounted /\ fix # NoFix /\ StopDocs[1] \in Places =>
     dirty \/ asked > 0 \/ named > 0 \/ (listAsked > 0 /\ changes = 0)

\* An open page that knows its position is never at rest: the first answer to a
\* position sets the rows, which builds; a build asks; and an answer builds, or asks
\* for a name whose answer builds.  It is what NeverAtRest needs besides fairness.
THEOREM PageHasMoreToDo == Spec => []HasMoreToDo
<1> USE PageAssumption
<1>1. Init => FirstFix /\ HasMoreToDo
  BY DEF Init, FirstFix, HasMoreToDo
<1>2. TypeOK /\ FirstFix /\ HasMoreToDo /\ [Next]_vars
        => FirstFix' /\ HasMoreToDo'
  <2> SUFFICES ASSUME TypeOK, FirstFix, HasMoreToDo, [Next]_vars
               PROVE  FirstFix' /\ HasMoreToDo'
    OBVIOUS
  <2>0. /\ asked \in Nat /\ named \in Nat /\ listAsked \in Nat /\ changes \in Nat
        /\ builds \in Nat /\ dirty \in BOOLEAN /\ mounted \in BOOLEAN
    BY DEF TypeOK
  <2>1. CASE build
    BY <2>0, <2>1 DEF build, FirstFix, HasMoreToDo
  <2>2. ASSUME NEW p \in Positions, Position(p) PROVE FirstFix' /\ HasMoreToDo'
    <3>1. /\ UNCHANGED <<mounted, dirty, builds, live, asked, named, changes>>
          /\ fix' = p /\ live # {}
          /\ listAsked' = listAsked + Cardinality(live)
      BY <2>2 DEF Position
    <3>2. Cardinality(live) \in Nat \ {0}
      <4>1. IsFiniteSet(1..builds)
        BY <2>0, FS_Interval
      <4>2. IsFiniteSet(live)
        BY <4>1, FS_Subset DEF TypeOK
      <4> QED BY <3>1, <4>2, FS_CardinalityType, FS_EmptySet
    <3>3. listAsked' > 0
      BY <2>0, <3>1, <3>2
    <3>4. p # NoFix
      OBVIOUS
    <3>5. FirstFix'
      BY <3>1, <3>4 DEF FirstFix
    <3>6. CASE fix = NoFix
      BY <3>1, <3>3, <3>5, <3>6 DEF FirstFix, HasMoreToDo
    <3>7. CASE fix # NoFix
      BY <3>1, <3>3, <3>5, <3>7 DEF HasMoreToDo
    <3> QED BY <3>6, <3>7
  <2>3. CASE ListAnswered
    <3>1. /\ UNCHANGED <<mounted, builds, live, fix, asked, named>>
          /\ listAsked > 0 /\ listAsked' = listAsked - 1
          /\ \/ mounted /\ dirty'
             \/ (mounted => changes > 0) /\ UNCHANGED <<changes, dirty>>
      BY <2>3 DEF ListAnswered, RowsChange, RowsStay
    <3>2. fix # NoFix
      BY <3>1 DEF FirstFix
    <3> QED BY <2>0, <3>1, <3>2 DEF FirstFix, HasMoreToDo
  <2>4. CASE BoxAnswered
    <3> DEFINE read == {n \in Docs : Reads(n)}
               atStop == {n \in read : AtStop(n)}
    <3>1. /\ UNCHANGED <<mounted, builds, live, fix, listAsked, changes>>
          /\ named' = named + Cardinality(atStop)
          /\ dirty' = (dirty \/ (mounted /\ read # atStop))
      BY <2>4 DEF BoxAnswered
    <3>2. Cardinality(atStop) \in Nat /\ (atStop # {} => Cardinality(atStop) > 0)
      <4>1. IsFiniteSet(Docs)
        BY FS_Interval DEF Docs
      <4>2. IsFiniteSet(atStop)
        BY <4>1, FS_Subset
      <4> HIDE DEF atStop
      <4> QED BY <4>2, FS_CardinalityType, FS_EmptySet
    <3>3. SUFFICES ASSUME mounted, fix # NoFix, StopDocs[1] \in Places
                   PROVE  dirty' \/ named' > 0
      BY <3>1 DEF FirstFix, HasMoreToDo
    <3>4. 1 \in read
      <4>1. 1 \in Docs
        BY DEF Docs
      <4> QED BY <3>3, <4>1 DEF Reads, Placed
    <3>5. CASE atStop = {}
      BY <3>1, <3>3, <3>4, <3>5
    <3>6. CASE atStop # {}
      <4> HIDE DEF atStop
      <4> QED BY <2>0, <3>1, <3>2, <3>6
    <3> QED BY <3>5, <3>6
  <2>5. CASE NameAnswered
    BY <2>0, <2>5 DEF NameAnswered, FirstFix, HasMoreToDo
  <2>6. CASE dispose
    BY <2>0, <2>6 DEF dispose, FirstFix, HasMoreToDo
  <2>7. CASE UNCHANGED vars
    BY <2>7 DEF vars, FirstFix, HasMoreToDo
  <2> QED BY <2>1, <2>2, <2>3, <2>4, <2>5, <2>6, <2>7 DEF Next
<1> QED BY <1>1, <1>2, PageTypeCorrect, PTL DEF Spec
=============================================================================
