-------------------------- MODULE NavigationProofs --------------------------
(***************************************************************************)
(* The pages of the app, for any stops, any number of pages leaving, and   *)
(* any number of taps and answers on their way.                            *)
(***************************************************************************)
EXTENDS Navigation, SequenceTheorems, FiniteSetTheorems, TLAPS

Bottoms == {"choose", "nearStops", "stops"}

\* Page n of the stack s stands where it may stand.
InPlace(s, n) ==
  /\ s[n] = Root => n = 1
  /\ s[n][1] \in Bottoms => n = 2 /\ s[1] = Root
  /\ s[n][1] \in {"sheet", "map"} /\ s[n][3] = "open" =>
       n > 2 /\ s[2][1] = IF s[n][1] = "sheet" THEN "choose" ELSE "nearStops"

\* Page n of the stack s, when ch and li are the States mounted: an open page has its
\* State, and a sheet that came over its own page shows a stop tapped there.
Fits(s, n, ch, li) ==
  /\ InPlace(s, n)
  /\ s[n][1] = "choose" => ch[s[n][2]] # Gone
  /\ s[n][1] = "nearStops" => li[s[n][2]] # Gone
  /\ s[n][1] = "sheet" /\ s[n][3] = "open" => s[n][2] \in ch[s[2][2]].tapped

StackFits(s, ch, li) ==
  /\ s \in Seq(Pages)
  /\ \A n \in 1..Len(s) : Fits(s, n, ch, li)

\* What is on its way has been tapped.
TapsTapped(ch) ==
  \A c \in Choosers : ch[c] # Gone =>
     \A i \in 1..Len(ch[c].taps) : ch[c].taps[i] \in ch[c].tapped

NavInv ==
  /\ TypeOK
  /\ StackFits(stack, choosers, lists)
  /\ ReturnsToHome
  /\ TapsTapped(choosers)

-----------------------------------------------------------------------------
\* A page by its kind.
LEMMA PageKinds ==
  ASSUME NEW p \in Pages
  PROVE  /\ p[1] \in Bottoms \cup {"root", "sheet", "map"}
         /\ p[1] = "root" <=> p = Root
         /\ p[1] = "choose" => /\ p[2] \in Choosers /\ p[3] \in Ends
                               /\ p = <<"choose", p[2], p[3]>>
         /\ p[1] = "nearStops" => p[2] \in Lists
         /\ p[1] \in {"sheet", "map"} => p[2] \in Stops /\ p[3] \in {"open", "left"}
<1>1. Root[1] = "root"
  BY DEF Root
<1>2. CASE p = Root
  BY <1>1, <1>2 DEF Bottoms
<1>3. CASE p = <<"stops">>
  BY <1>1, <1>3 DEF Bottoms
<1>4. CASE p \in {"choose"} \X Choosers \X Ends
  BY <1>1, <1>4 DEF Bottoms
<1>5. CASE p \in {"nearStops"} \X Lists
  BY <1>1, <1>5 DEF Bottoms
<1>6. CASE p \in {"sheet", "map"} \X Stops \X {"open", "left"}
  BY <1>1, <1>6 DEF Bottoms
<1> QED BY <1>2, <1>3, <1>4, <1>5, <1>6 DEF Pages

\* Pages that go from the top leave the others as they were.
LEMMA FitsLess ==
  ASSUME NEW s, NEW ch, NEW li, StackFits(s, ch, li),
         NEW t \in Seq(Pages), Len(t) <= Len(s), \A n \in 1..Len(t) : t[n] = s[n]
  PROVE  StackFits(t, ch, li)
<1>1. Len(s) \in Nat /\ Len(t) \in Nat
  BY DEF StackFits
<1>2. ASSUME NEW n \in 1..Len(t) PROVE Fits(t, n, ch, li)
  <2>1. Fits(s, n, ch, li) /\ t[n] = s[n] /\ t[1] = s[1]
    BY <1>1 DEF StackFits
  <2>2. n > 2 => t[2] = s[2]
    BY <1>1
  <2> QED BY <2>1, <2>2 DEF Fits, InPlace
<1> QED BY <1>2 DEF StackFits

\* Pages that fit may come on top.
LEMMA FitsMore ==
  ASSUME NEW s, NEW ch, NEW li, StackFits(s, ch, li),
         NEW t \in Seq(Pages), Len(t) >= Len(s), \A n \in 1..Len(s) : t[n] = s[n],
         \A n \in (Len(s) + 1)..Len(t) : Fits(t, n, ch, li)
  PROVE  StackFits(t, ch, li)
<1>1. Len(s) \in Nat /\ Len(t) \in Nat
  BY DEF StackFits
<1>2. ASSUME NEW n \in 1..Len(t) PROVE Fits(t, n, ch, li)
  <2>1. CASE n \in 1..Len(s)
    <3>1. Fits(s, n, ch, li) /\ t[n] = s[n] /\ t[1] = s[1]
      BY <1>1, <2>1 DEF StackFits
    <3>2. n > 2 => t[2] = s[2]
      BY <1>1, <2>1
    <3> QED BY <3>1, <3>2 DEF Fits, InPlace
  <2>2. CASE n \in (Len(s) + 1)..Len(t)
    BY <2>2
  <2> QED BY <1>1, <2>1, <2>2
<1> QED BY <1>2 DEF StackFits

\* The States of the pages that are open may only grow.
LEMMA FitsStates ==
  ASSUME NEW s, NEW ch, NEW li, StackFits(s, ch, li), NEW ch2, NEW li2,
         \A n \in 1..Len(s) :
            /\ s[n][1] = "choose" =>
                 /\ ch2[s[n][2]] # Gone
                 /\ ch[s[n][2]].tapped \subseteq ch2[s[n][2]].tapped
            /\ s[n][1] = "nearStops" => li2[s[n][2]] # Gone
  PROVE  StackFits(s, ch2, li2)
<1>1. Len(s) \in Nat
  BY DEF StackFits
<1>2. ASSUME NEW n \in 1..Len(s) PROVE Fits(s, n, ch2, li2)
  <2>1. Fits(s, n, ch, li)
    BY DEF StackFits
  <2>2. ASSUME s[n][1] = "sheet", s[n][3] = "open"
        PROVE  s[n][2] \in ch2[s[2][2]].tapped
    <3>1. s[2][1] = "choose" /\ 2 \in 1..Len(s) /\ s[n][2] \in ch[s[2][2]].tapped
      BY <1>1, <2>1, <2>2 DEF Fits, InPlace
    <3> QED BY <3>1
  <2> QED BY <2>1, <2>2 DEF Fits
<1> QED BY <1>2 DEF StackFits

\* What the stack says of the page on top and of those that are open.
LEMMA StackFacts ==
  ASSUME NavInv
  PROVE  /\ Depth \in Nat
         /\ \A n \in 1..Depth : stack[n] \in Pages
         /\ AtRoot => Depth = 1 /\ stack[1] = Root /\ stack[1][1] = "root"
         /\ \A kind \in Bottoms : OnTop(kind) => Depth = 2 /\ stack[2][1] = kind
         /\ \A kind \in Bottoms : \A n \in 1..Depth :
               stack[n][1] = kind => n = 2 /\ stack[1] = Root
         /\ OnTop("choose") => choosers[stack[Depth][2]] # Gone
         /\ OnTop("nearStops") => lists[stack[Depth][2]] # Gone
<1>1. Depth \in Nat /\ (stack # << >> => Depth \in 1..Depth)
  BY EmptySeq DEF NavInv, StackFits, Depth
<1>2. \A n \in 1..Depth : stack[n] \in Pages /\ Fits(stack, n, choosers, lists)
  BY <1>1 DEF NavInv, StackFits, Depth
<1>3. AtRoot => Depth = 1 /\ stack[1] = Root /\ stack[1][1] = "root"
  <2> SUFFICES ASSUME AtRoot PROVE Depth = 1 /\ stack[1] = Root /\ stack[1][1] = "root"
    OBVIOUS
  <2>1. Depth \in 1..Depth /\ stack[Depth][1] = "root"
    BY <1>1 DEF AtRoot, OnTop
  <2>2. stack[Depth] = Root
    BY <1>2, <2>1, PageKinds
  <2>3. Depth = 1
    BY <1>2, <2>1, <2>2 DEF Fits, InPlace
  <2> QED BY <2>1, <2>2, <2>3
<1>4. \A kind \in Bottoms : \A n \in 1..Depth :
         stack[n][1] = kind => n = 2 /\ stack[1] = Root
  BY <1>2 DEF Fits, InPlace
<1>5. \A kind \in Bottoms : OnTop(kind) => Depth = 2 /\ stack[2][1] = kind
  BY <1>1, <1>4 DEF OnTop
<1>6. OnTop("choose") => choosers[stack[Depth][2]] # Gone
  BY <1>1, <1>2 DEF OnTop, Fits
<1>7. OnTop("nearStops") => lists[stack[Depth][2]] # Gone
  BY <1>1, <1>2 DEF OnTop, Fits
<1> QED BY <1>1, <1>2, <1>3, <1>4, <1>5, <1>6, <1>7

\* The State of one page takes another value.
LEMMA ChooserTypes ==
  ASSUME TypeOK, NEW c \in Choosers, NEW r \in ChooserState \cup {Gone},
         choosers' = [choosers EXCEPT ![c] = r]
  PROVE  /\ choosers' \in [Choosers -> ChooserState \cup {Gone}]
         /\ choosers'[c] = r
         /\ \A d \in Choosers : d # c => choosers'[d] = choosers[d]
BY DEF TypeOK

LEMMA ListTypes ==
  ASSUME TypeOK, NEW l \in Lists, NEW r \in ListState \cup {Gone},
         lists' = [lists EXCEPT ![l] = r]
  PROVE  /\ lists' \in [Lists -> ListState \cup {Gone}]
         /\ lists'[l] = r
         /\ \A d \in Lists : d # l => lists'[d] = lists[d]
BY DEF TypeOK

\* Steps that leave the stack alone.
LEMMA SameStack ==
  ASSUME NavInv, TypeOK', stack' = stack, TapsTapped(choosers'),
         Open("choose") => tab' = tab,
         \A n \in 1..Depth : stack[n][1] = "choose" =>
            /\ choosers'[stack[n][2]] # Gone
            /\ choosers[stack[n][2]].tapped \subseteq choosers'[stack[n][2]].tapped,
         \A n \in 1..Depth : stack[n][1] = "nearStops" => lists'[stack[n][2]] # Gone
  PROVE  NavInv'
<1>1. StackFits(stack, choosers', lists')
  BY FitsStates DEF NavInv, Depth
<1>2. ReturnsToHome'
  BY DEF NavInv, ReturnsToHome, Open, Depth
<1> QED BY <1>1, <1>2 DEF NavInv, StackFits, Fits, InPlace, TapsTapped

\* A page opened over the root page, with its State.
LEMMA OpenedPage ==
  ASSUME NavInv, TypeOK', AtRoot, NEW p \in Pages, p[1] \in Bottoms, stack' = Append(stack, p),
         tab' = tab, p[1] = "choose" => tab = Home /\ choosers'[p[2]] # Gone,
         p[1] = "nearStops" => lists'[p[2]] # Gone,
         TapsTapped(choosers')
  PROVE  NavInv'
<1>1. Len(stack) = 1 /\ stack[1] = Root /\ stack[1][1] = "root" /\ stack \in Seq(Pages)
  BY StackFacts DEF NavInv, Depth, StackFits
<1>2. /\ stack' \in Seq(Pages) /\ Len(stack') = 2
      /\ stack'[1] = stack[1] /\ stack'[2] = p
  <2> DEFINE t == Append(stack, p)
  <2>0. stack \in Seq(Pages)
    BY <1>1
  <2>1. /\ t \in Seq(Pages) /\ Len(t) = Len(stack) + 1
        /\ \A n \in 1..Len(stack) : t[n] = stack[n]
        /\ t[Len(stack) + 1] = p
    BY <2>0, AppendProperties
  <2>2. stack' = t
    OBVIOUS
  <2> HIDE DEF t
  <2> QED BY <1>1, <2>1, <2>2
<1>3. \A n \in 1..Len(stack) : stack[n][1] # "choose" /\ stack[n][1] # "nearStops"
  BY <1>1
<1>4. StackFits(stack, choosers', lists')
  BY <1>3, FitsStates DEF NavInv
<1>5. Fits(stack', 2, choosers', lists')
  <2>1. p # Root
    BY PageKinds DEF Bottoms
  <2>2. p[1] # "sheet" /\ p[1] # "map"
    BY DEF Bottoms
  <2> QED BY <1>1, <1>2, <2>1, <2>2 DEF Fits, InPlace
<1>6. \A n \in (Len(stack) + 1)..Len(stack') : Fits(stack', n, choosers', lists')
  BY <1>1, <1>2, <1>5
<1>7. StackFits(stack', choosers', lists')
  <2>1. Len(stack') >= Len(stack) /\ \A n \in 1..Len(stack) : stack'[n] = stack[n]
    BY <1>1, <1>2
  <2> QED BY <1>2, <1>4, <1>6, <2>1, FitsMore
<1>8. ReturnsToHome'
  <2>1. Open("choose")' => p[1] = "choose"
    BY <1>1, <1>2 DEF Open, Depth
  <2> QED BY <2>1 DEF ReturnsToHome
<1> QED BY <1>7, <1>8 DEF NavInv, StackFits, Fits, InPlace, TapsTapped

\* Some pages left from the top.
LEMMA LeftPages ==
  ASSUME NavInv, TypeOK', NEW k \in 1..2, stack' = Pop(k),
         tab' = tab, choosers' = choosers, lists' = lists
  PROVE  NavInv'
<1>1. stack \in Seq(Pages) /\ Len(stack) \in Nat
  BY DEF NavInv, StackFits
<1>2. stack' \in Seq(Pages) /\ Len(stack') <= Len(stack) /\ \A n \in 1..Len(stack') : stack'[n] = stack[n]
  <2>1. \A n \in 1..(Len(stack) - k) : stack[n] \in Pages
    BY <1>1
  <2> QED BY <1>1, <2>1, SubSeqProperties DEF Pop, Depth
<1>3. StackFits(stack', choosers, lists)
  BY <1>2, FitsLess DEF NavInv
<1>4. ReturnsToHome'
  <2>1. Open("choose")' => Open("choose")
    BY <1>1, <1>2 DEF Open, Depth
  <2> QED BY <2>1 DEF NavInv, ReturnsToHome
<1> QED BY <1>3, <1>4 DEF NavInv, StackFits, Fits, InPlace, TapsTapped

\* Pages that come late, on top of whatever is there.
LEMMA LatePages ==
  ASSUME NavInv, TypeOK', NEW more \in Seq({"sheet", "map"} \X Stops \X {"open", "left"}),
         stack' = stack \o more, tab' = tab,
         StackFits(stack, choosers', lists'), TapsTapped(choosers'),
         \A m \in 1..Len(more) : more[m][3] = "open" =>
            /\ Depth >= 2
            /\ stack[2][1] = IF more[m][1] = "sheet" THEN "choose" ELSE "nearStops"
            /\ more[m][1] = "sheet" => more[m][2] \in choosers'[stack[2][2]].tapped
  PROVE  NavInv'
<1>1. Len(stack) \in Nat /\ stack \in Seq(Pages) /\ Len(more) \in Nat
  BY DEF NavInv, StackFits
<1>2. more \in Seq(Pages)
  <2>1. {"sheet", "map"} \X Stops \X {"open", "left"} \subseteq Pages
    BY DEF Pages
  <2> QED BY <2>1, SeqMonotonic
<1>3. /\ stack' \in Seq(Pages) /\ Len(stack') = Len(stack) + Len(more)
      /\ \A n \in 1..(Len(stack) + Len(more)) :
            stack'[n] = IF n <= Len(stack) THEN stack[n] ELSE more[n - Len(stack)]
  BY <1>1, <1>2, ConcatProperties
<1>4. \A n \in 1..Len(stack) : stack'[n] = stack[n]
  BY <1>1, <1>3
<1>5. ASSUME NEW n \in (Len(stack) + 1)..Len(stack')
      PROVE  /\ Fits(stack', n, choosers', lists')
             /\ stack'[n][1] \in {"sheet", "map"}
  <2> DEFINE m == n - Len(stack)
  <2>1. m \in 1..Len(more) /\ stack'[n] = more[m]
    BY <1>1, <1>3
  <2>2. more[m][1] \in {"sheet", "map"} /\ more[m] \in Pages
    BY <1>2, <2>1
  <2>3. more[m] # Root
    BY <2>2, PageKinds
  <2>4. more[m][3] = "open" => n > 2 /\ stack'[2] = stack[2]
    BY <1>1, <1>4, <2>1 DEF Depth
  <2> HIDE DEF m
  <2> QED BY <2>1, <2>2, <2>3, <2>4 DEF Fits, InPlace, Bottoms
<1>6. StackFits(stack', choosers', lists')
  <2>1. Len(stack') >= Len(stack) /\ stack' \in Seq(Pages)
    BY <1>1, <1>3
  <2>2. \A n \in (Len(stack) + 1)..Len(stack') : Fits(stack', n, choosers', lists')
    BY <1>5
  <2> QED BY <1>4, <2>1, <2>2, FitsMore
<1>7. ReturnsToHome'
  <2>1. Open("choose")' => Open("choose")
    <3> SUFFICES ASSUME NEW n \in 1..Len(stack'), stack'[n][1] = "choose"
                 PROVE  Open("choose")
      BY DEF Open, Depth
    <3>1. n \in 1..Len(stack)
      BY <1>1, <1>3, <1>5
    <3> QED BY <1>4, <3>1 DEF Open, Depth
  <2> QED BY <2>1 DEF NavInv, ReturnsToHome
<1> QED BY <1>6, <1>7 DEF NavInv, StackFits, Fits, InPlace, TapsTapped

-----------------------------------------------------------------------------
LEMMA NavInit == Init => NavInv
<1> SUFFICES ASSUME Init PROVE NavInv
  OBVIOUS
<1>1. stack = <<Root>> /\ Root \in Pages /\ stack \in Seq(Pages)
      /\ Len(stack) = 1 /\ stack[1] = Root /\ stack[1][1] = "root"
  BY DEF Init, Pages, Root
<1>2. StackFits(stack, choosers, lists)
  BY <1>1 DEF StackFits, Fits, InPlace, Bottoms
<1>3. ReturnsToHome
  BY <1>1 DEF ReturnsToHome, Open, Depth
<1>4. TapsTapped(choosers)
  BY DEF TapsTapped, Init
<1>5. picked \in [Ends -> Stops \cup {NoStop}]
  BY DEF Init, NothingPicked
<1>6. TypeOK
  BY <1>1, <1>5 DEF TypeOK, Init
<1> QED BY <1>2, <1>3, <1>4, <1>6 DEF NavInv

LEMMA ChooseKeeps ==
  ASSUME NavInv, NEW e \in Ends, Choose(e)
  PROVE  NavInv'
<1>1. PICK c \in Choosers : /\ choosers[c] = Gone
                            /\ choosers' = [choosers EXCEPT ![c] = NewChooser]
                            /\ stack' = Append(stack, <<"choose", c, e>>)
  BY DEF Choose, Push
<1> DEFINE p == <<"choose", c, e>>
<1>2. p \in Pages /\ p[1] = "choose" /\ p[2] = c
  BY DEF Pages
<1>3. NewChooser \in ChooserState /\ NewChooser # Gone /\ Len(NewChooser.taps) = 0
  <2>1. NewChooser \in ChooserState /\ Len(NewChooser.taps) = 0
    BY DEF NewChooser, ChooserState
  <2> QED BY <2>1, NavigationAssumption
<1>4. /\ choosers' \in [Choosers -> ChooserState \cup {Gone}]
      /\ choosers'[c] = NewChooser
      /\ \A d \in Choosers : d # c => choosers'[d] = choosers[d]
  BY <1>1, <1>3, ChooserTypes DEF NavInv
<1>5. TapsTapped(choosers')
  BY <1>3, <1>4 DEF NavInv, TapsTapped
<1>6. stack' \in Seq(Pages)
  BY <1>1, <1>2, AppendProperties DEF NavInv, TypeOK
<1>7. TypeOK'
  BY <1>4, <1>6 DEF Choose, NavInv, TypeOK
<1> HIDE DEF p
<1>8. AtRoot /\ tab' = tab /\ tab = Home /\ p[1] \in Bottoms /\ p[1] # "nearStops"
  BY <1>2 DEF Choose, Bottoms
<1>9. stack' = Append(stack, p) /\ choosers'[p[2]] # Gone
  BY <1>1, <1>2, <1>3, <1>4 DEF p
<1> QED BY <1>2, <1>5, <1>7, <1>8, <1>9, OpenedPage

LEMMA NearStopsKeeps ==
  ASSUME NavInv, NearStops
  PROVE  NavInv'
<1>1. PICK l \in Lists : /\ lists' = [lists EXCEPT ![l] = NewList]
                         /\ stack' = Append(stack, <<"nearStops", l>>)
  BY DEF NearStops, Push
<1> DEFINE p == <<"nearStops", l>>
<1>2. p \in Pages /\ p[1] = "nearStops" /\ p[2] = l
  BY DEF Pages
<1>3. NewList \in ListState /\ NewList # Gone
  <2>1. NewList \in ListState
    BY DEF NewList, ListState
  <2> QED BY <2>1, NavigationAssumption
<1>4. lists' \in [Lists -> ListState \cup {Gone}] /\ lists'[l] = NewList
  BY <1>1, <1>3, ListTypes DEF NavInv
<1>5. TapsTapped(choosers')
  BY DEF NearStops, NavInv
<1>6. stack' \in Seq(Pages)
  BY <1>1, <1>2, AppendProperties DEF NavInv, TypeOK
<1>7. TypeOK'
  BY <1>4, <1>6 DEF NearStops, NavInv, TypeOK
<1> HIDE DEF p
<1>8. AtRoot /\ tab' = tab /\ p[1] \in Bottoms /\ p[1] # "choose"
  BY <1>2 DEF NearStops, Bottoms
<1>9. stack' = Append(stack, p) /\ lists'[p[2]] # Gone
  BY <1>1, <1>2, <1>3, <1>4 DEF p
<1> QED BY <1>2, <1>5, <1>7, <1>8, <1>9, OpenedPage

LEMMA StopsPageKeeps ==
  ASSUME NavInv, StopsPage
  PROVE  NavInv'
<1> DEFINE p == <<"stops">>
<1>1. p \in Pages /\ p[1] = "stops"
  BY DEF Pages
<1>2. stack' = Append(stack, p)
  BY DEF StopsPage, Push
<1>3. stack' \in Seq(Pages)
  BY <1>1, <1>2, AppendProperties DEF NavInv, TypeOK
<1>4. TypeOK' /\ TapsTapped(choosers')
  BY <1>3 DEF StopsPage, NavInv, TypeOK
<1> HIDE DEF p
<1>5. AtRoot /\ tab' = tab /\ p[1] \in Bottoms /\ p[1] # "choose" /\ p[1] # "nearStops"
  BY <1>1 DEF StopsPage, Bottoms
<1> QED BY <1>1, <1>2, <1>4, <1>5, OpenedPage

\* The types of a stack after some pages have been left.
LEMMA PopType ==
  ASSUME NavInv, NEW k \in 1..2
  PROVE  Pop(k) \in Seq(Pages)
<1>1. stack \in Seq(Pages) /\ Len(stack) \in Nat
  BY DEF NavInv, StackFits
<1>2. \A n \in 1..(Len(stack) - k) : stack[n] \in Pages
  BY <1>1
<1> QED BY <1>1, <1>2, SubSeqProperties DEF Pop, Depth

LEMMA BackKeeps ==
  ASSUME NavInv, Back
  PROVE  NavInv'
<1>1. stack' \in Seq(Pages)
  BY PopType DEF Back
<1>2. TypeOK'
  BY <1>1 DEF Back, NavInv, TypeOK
<1> QED BY <1>2, LeftPages DEF Back

\* The page a stop is given to is a choose page on the root page, straight under the
\* sheet.
LEMMA GivenTo ==
  ASSUME NavInv, Wybierz, Depth >= 2, stack[Depth - 1][1] = "choose"
  PROVE  /\ Depth = 3 /\ stack[1] = Root
         /\ stack[2][2] \in Choosers /\ stack[2][3] \in Ends
         /\ stack[2] = <<"choose", stack[2][2], stack[2][3]>>
         /\ stack[3][1] = "sheet" /\ stack[3][2] \in Stops
         /\ stack[3][3] = "open" => stack[3][2] \in choosers[stack[2][2]].tapped
<1>1. Depth \in Nat /\ \A n \in 1..Depth : stack[n] \in Pages
  BY StackFacts
<1>2. Depth = 3 /\ stack[1] = Root
  <2>1. Depth - 1 \in 1..Depth
    BY <1>1
  <2>2. Depth - 1 = 2 /\ stack[1] = Root
    BY <2>1, StackFacts DEF Bottoms
  <2> QED BY <1>1, <2>2
<1>3. stack[2] \in Pages /\ stack[2][1] = "choose" /\ stack[3] \in Pages
  BY <1>1, <1>2
<1>4. stack[3][1] = "sheet"
  BY <1>2 DEF Wybierz, OnTop
<1>5. Fits(stack, 3, choosers, lists)
  BY <1>2 DEF NavInv, StackFits, Depth
<1> QED BY <1>2, <1>3, <1>4, <1>5, PageKinds DEF Fits

LEMMA WybierzKeeps ==
  ASSUME NavInv, Wybierz
  PROVE  NavInv'
<1>1. stack' \in Seq(Pages)
  BY PopType DEF Wybierz
<1>2. picked' \in [Ends -> Stops \cup {NoStop}]
  <2>1. CASE Depth >= 2 /\ stack[Depth - 1][1] = "choose"
    <3>1. Depth = 3 /\ stack[2][3] \in Ends /\ stack[3][2] \in Stops
      BY <2>1, GivenTo
    <3>2. picked' = [picked EXCEPT ![stack[2][3]] = stack[3][2]]
      BY <2>1, <3>1 DEF Wybierz
    <3> QED BY <3>1, <3>2 DEF NavInv, TypeOK
  <2>2. CASE ~(Depth >= 2 /\ stack[Depth - 1][1] = "choose")
    BY <2>2 DEF Wybierz, NavInv, TypeOK
  <2> QED BY <2>1, <2>2
<1>3. TypeOK'
  BY <1>1, <1>2 DEF Wybierz, NavInv, TypeOK
<1> QED BY <1>3, LeftPages DEF Wybierz

\* The State of a choose page has changed; only that of a page that has been left
\* may be gone.
LEMMA ChooserChanged ==
  ASSUME NavInv, NEW c \in Choosers, NEW r \in ChooserState \cup {Gone},
         choosers' = [choosers EXCEPT ![c] = r],
         r = Gone => ~IsOpen("choose", c),
         r # Gone => /\ choosers[c] # Gone => choosers[c].tapped \subseteq r.tapped
                     /\ \A i \in 1..Len(r.taps) : r.taps[i] \in r.tapped
  PROVE  /\ choosers' \in [Choosers -> ChooserState \cup {Gone}]
         /\ TapsTapped(choosers')
         /\ \A n \in 1..Depth : stack[n][1] = "choose" =>
               /\ choosers'[stack[n][2]] # Gone
               /\ choosers[stack[n][2]].tapped \subseteq choosers'[stack[n][2]].tapped
<1>1. /\ choosers' \in [Choosers -> ChooserState \cup {Gone}]
      /\ choosers'[c] = r
      /\ \A d \in Choosers : d # c => choosers'[d] = choosers[d]
  BY ChooserTypes DEF NavInv
<1>2. TapsTapped(choosers')
  BY <1>1 DEF NavInv, TapsTapped
<1>3. ASSUME NEW n \in 1..Depth, stack[n][1] = "choose"
      PROVE  /\ choosers'[stack[n][2]] # Gone
             /\ choosers[stack[n][2]].tapped \subseteq choosers'[stack[n][2]].tapped
  <2>1. stack[n] \in Pages /\ choosers[stack[n][2]] # Gone
    BY <1>3, StackFacts DEF NavInv, StackFits, Fits, Depth
  <2>2. stack[n][2] \in Choosers
    BY <1>3, <2>1, PageKinds
  <2>3. CASE stack[n][2] = c
    BY <1>1, <1>3, <2>1, <2>3 DEF IsOpen
  <2>4. CASE stack[n][2] # c
    BY <1>1, <2>1, <2>2, <2>4
  <2> QED BY <2>3, <2>4
<1> QED BY <1>1, <1>2, <1>3

LEMMA MarkersComeKeeps ==
  ASSUME NavInv, NEW c \in Choosers, MarkersCome(c)
  PROVE  NavInv'
<1> DEFINE M == {StopDocs[n] : n \in 1..Len(StopDocs)}
           r == [choosers[c] EXCEPT !.markers = M]
<1>1. choosers[c] \in ChooserState
  BY DEF MarkersCome, NavInv, TypeOK
<1>2. M \in SUBSET Stops
  BY NavigationAssumption
<1> HIDE DEF M
<1>3. r \in ChooserState /\ r.tapped = choosers[c].tapped /\ r.taps = choosers[c].taps
  BY <1>1, <1>2 DEF ChooserState
<1>4. choosers' = [choosers EXCEPT ![c] = r]
  BY DEF MarkersCome, M
<1>5. \A i \in 1..Len(r.taps) : r.taps[i] \in r.tapped
  BY <1>3 DEF MarkersCome, NavInv, TapsTapped
<1>6. r # Gone
  BY <1>3, NavigationAssumption
<1> HIDE DEF r
<1>7. /\ choosers' \in [Choosers -> ChooserState \cup {Gone}]
      /\ TapsTapped(choosers')
      /\ \A n \in 1..Depth : stack[n][1] = "choose" =>
            /\ choosers'[stack[n][2]] # Gone
            /\ choosers[stack[n][2]].tapped \subseteq choosers'[stack[n][2]].tapped
  BY <1>3, <1>4, <1>5, <1>6, ChooserChanged
<1>8. TypeOK'
  BY <1>7 DEF MarkersCome, NavInv, TypeOK
<1>9. \A n \in 1..Depth : stack[n][1] = "nearStops" => lists'[stack[n][2]] # Gone
  BY DEF MarkersCome, NavInv, StackFits, Fits, Depth
<1> QED BY <1>7, <1>8, <1>9, SameStack DEF MarkersCome

LEMMA TapKeeps ==
  ASSUME NavInv, NEW c \in Choosers, NEW s \in Stops, Tap(c, s)
  PROVE  NavInv'
<1> DEFINE tapped2 == choosers[c].tapped \cup {s}
           taps2 == Append(choosers[c].taps, s)
           r == [choosers[c] EXCEPT !.tapped = tapped2, !.taps = taps2]
<1>1. choosers[c] \in ChooserState /\ choosers[c] # Gone
  <2>1. choosers[c] # Gone
    BY StackFacts DEF Tap
  <2> QED BY <2>1 DEF NavInv, TypeOK
<1>2. choosers[c].taps \in Seq(Stops) /\ tapped2 \in SUBSET Stops
  BY <1>1 DEF ChooserState
<1>3. /\ taps2 \in Seq(Stops) /\ Len(taps2) = Len(choosers[c].taps) + 1
      /\ \A i \in 1..Len(choosers[c].taps) : taps2[i] = choosers[c].taps[i]
      /\ taps2[Len(choosers[c].taps) + 1] = s
  BY <1>2, AppendProperties
<1>4. \A i \in 1..Len(taps2) : taps2[i] \in tapped2
  <2> SUFFICES ASSUME NEW i \in 1..Len(taps2) PROVE taps2[i] \in tapped2
    OBVIOUS
  <2>1. i \in 1..Len(choosers[c].taps) \/ i = Len(choosers[c].taps) + 1
    BY <1>2, <1>3
  <2>2. \A j \in 1..Len(choosers[c].taps) : choosers[c].taps[j] \in choosers[c].tapped
    BY <1>1 DEF NavInv, TapsTapped
  <2> QED BY <1>3, <2>1, <2>2
<1>5. choosers' = [choosers EXCEPT ![c] = r]
  BY DEF Tap
<1>6. choosers[c].tapped \subseteq tapped2
  OBVIOUS
<1> HIDE DEF tapped2, taps2
<1>7. r \in ChooserState /\ r.tapped = tapped2 /\ r.taps = taps2
  BY <1>1, <1>2, <1>3 DEF ChooserState
<1> HIDE DEF r
<1>8. r # Gone
  BY <1>7, NavigationAssumption
<1>9. /\ choosers[c].tapped \subseteq r.tapped
      /\ \A i \in 1..Len(r.taps) : r.taps[i] \in r.tapped
  BY <1>4, <1>6, <1>7
<1>10. /\ choosers' \in [Choosers -> ChooserState \cup {Gone}]
       /\ TapsTapped(choosers')
       /\ \A n \in 1..Depth : stack[n][1] = "choose" =>
             /\ choosers'[stack[n][2]] # Gone
             /\ choosers[stack[n][2]].tapped \subseteq choosers'[stack[n][2]].tapped
  BY <1>5, <1>7, <1>8, <1>9, ChooserChanged
<1>11. TypeOK'
  BY <1>10 DEF Tap, NavInv, TypeOK
<1>12. \A n \in 1..Depth : stack[n][1] = "nearStops" => lists'[stack[n][2]] # Gone
  BY DEF Tap, NavInv, StackFits, Fits, Depth
<1> QED BY <1>10, <1>11, <1>12, SameStack DEF Tap

LEMMA ChooserDisposedKeeps ==
  ASSUME NavInv, NEW c \in Choosers, ChooserDisposed(c)
  PROVE  NavInv'
<1>1. /\ choosers' \in [Choosers -> ChooserState \cup {Gone}]
      /\ TapsTapped(choosers')
      /\ \A n \in 1..Depth : stack[n][1] = "choose" =>
            /\ choosers'[stack[n][2]] # Gone
            /\ choosers[stack[n][2]].tapped \subseteq choosers'[stack[n][2]].tapped
  BY ChooserChanged DEF ChooserDisposed
<1>2. TypeOK'
  BY <1>1 DEF ChooserDisposed, NavInv, TypeOK
<1>3. \A n \in 1..Depth : stack[n][1] = "nearStops" => lists'[stack[n][2]] # Gone
  BY DEF ChooserDisposed, NavInv, StackFits, Fits, Depth
<1> QED BY <1>1, <1>2, <1>3, SameStack DEF ChooserDisposed

\* A page whose State is open is the second.
LEMMA OpenPage ==
  ASSUME NavInv, NEW kind \in Bottoms, NEW state, WhenItCame(kind, state) = "open"
  PROVE  Depth >= 2 /\ stack[2][1] = kind /\ stack[2][2] = state
<1>1. IsOpen(kind, state)
  BY DEF WhenItCame
<1>2. PICK n \in 1..Depth : stack[n][1] = kind /\ stack[n][2] = state
  BY <1>1 DEF IsOpen
<1>3. n = 2 /\ Depth \in Nat
  BY <1>2, StackFacts
<1> QED BY <1>2, <1>3

LEMMA onTapKeeps ==
  ASSUME NavInv, NEW c \in Choosers, onTap(c)
  PROVE  NavInv'
<1> DEFINE taps2 == Tail(choosers[c].taps)
           r == [choosers[c] EXCEPT !.taps = taps2]
           s == Head(choosers[c].taps)
           w == WhenItCame("choose", c)
           p == <<"sheet", s, w>>
<1>1. choosers[c] \in ChooserState /\ choosers[c] # Gone
  BY DEF onTap, NavInv, TypeOK
<1>2. choosers[c].taps \in Seq(Stops) /\ choosers[c].taps # << >>
  BY <1>1 DEF ChooserState, onTap
<1>3. /\ s \in Stops /\ taps2 \in Seq(Stops)
      /\ Len(taps2) = Len(choosers[c].taps) - 1
      /\ \A i \in 1..Len(taps2) : taps2[i] = choosers[c].taps[i + 1]
  BY <1>2, HeadTailProperties
<1>4. \A i \in 1..Len(choosers[c].taps) : choosers[c].taps[i] \in choosers[c].tapped
  BY <1>1 DEF NavInv, TapsTapped
<1>5. s \in choosers[c].tapped
  <2>1. Len(choosers[c].taps) \in Nat \ {0}
    BY <1>2, EmptySeq
  <2>2. s = choosers[c].taps[1]
    BY <1>2 DEF Head
  <2> QED BY <1>4, <2>1, <2>2
<1>6. \A i \in 1..Len(taps2) : taps2[i] \in choosers[c].tapped
  <2>1. Len(choosers[c].taps) \in Nat
    BY <1>2
  <2> QED BY <1>3, <1>4, <2>1
<1>7. choosers' = [choosers EXCEPT ![c] = r] /\ stack' = Append(stack, p)
  BY DEF onTap, Chosen, Push
<1>8. w \in {"open", "left"}
  BY DEF WhenItCame
<1> HIDE DEF taps2, s, w
<1>9. r \in ChooserState /\ r.tapped = choosers[c].tapped /\ r.taps = taps2
  BY <1>1, <1>3 DEF ChooserState
<1> HIDE DEF r
<1>10. r # Gone
  BY <1>9, NavigationAssumption
<1>11. /\ choosers' \in [Choosers -> ChooserState \cup {Gone}]
       /\ TapsTapped(choosers')
       /\ \A n \in 1..Depth : stack[n][1] = "choose" =>
             /\ choosers'[stack[n][2]] # Gone
             /\ choosers[stack[n][2]].tapped \subseteq choosers'[stack[n][2]].tapped
  BY <1>6, <1>7, <1>9, <1>10, ChooserChanged
<1>12. StackFits(stack, choosers', lists')
  <2>1. \A n \in 1..Depth : stack[n][1] = "nearStops" => lists'[stack[n][2]] # Gone
    BY DEF onTap, NavInv, StackFits, Fits, Depth
  <2> QED BY <1>11, <2>1, FitsStates DEF NavInv, Depth
<1> DEFINE more == <<p>>
<1>13. /\ more \in Seq({"sheet", "map"} \X Stops \X {"open", "left"})
       /\ Len(more) = 1 /\ more[1] = p
  BY <1>3, <1>8
<1>14. stack \in Seq(Pages) /\ p \in Pages
  BY <1>3, <1>8 DEF Pages, NavInv, StackFits
<1>15. stack' = stack \o more /\ stack' \in Seq(Pages)
  <2> HIDE DEF p
  <2>1. Append(stack, p) = stack \o <<p>> /\ Append(stack, p) \in Seq(Pages)
    BY <1>14, AppendIsConcat, AppendProperties
  <2> QED BY <1>7, <2>1
<1>16. TypeOK'
  BY <1>11, <1>15 DEF onTap, NavInv, TypeOK
<1>17. p[3] = "open" => Depth >= 2 /\ stack[2][1] = "choose" /\ stack[2][2] = c
  BY OpenPage DEF w, Bottoms
<1>18. choosers'[c].tapped = choosers[c].tapped
  BY <1>7, <1>9 DEF NavInv, TypeOK
<1>19. \A m \in 1..Len(more) : more[m][3] = "open" =>
          /\ Depth >= 2
          /\ stack[2][1] = IF more[m][1] = "sheet" THEN "choose" ELSE "nearStops"
          /\ more[m][1] = "sheet" => more[m][2] \in choosers'[stack[2][2]].tapped
  <2> SUFFICES ASSUME NEW m \in 1..Len(more), more[m][3] = "open"
               PROVE  /\ Depth >= 2
                      /\ stack[2][1] = IF more[m][1] = "sheet" THEN "choose" ELSE "nearStops"
                      /\ more[m][1] = "sheet" => more[m][2] \in choosers'[stack[2][2]].tapped
    OBVIOUS
  <2>1. more[m] = p /\ p[1] = "sheet" /\ p[2] = s
    BY <1>13
  <2> HIDE DEF p, more
  <2> QED BY <1>5, <1>17, <1>18, <2>1
<1> HIDE DEF more, p
<1> QED BY <1>11, <1>12, <1>13, <1>15, <1>16, <1>19, LatePages DEF onTap

-----------------------------------------------------------------------------
\* The State of a page of the nearest stops has changed.
LEMMA ListChanged ==
  ASSUME NavInv, NEW l \in Lists, NEW r \in ListState \cup {Gone},
         lists' = [lists EXCEPT ![l] = r],
         r = Gone => ~IsOpen("nearStops", l)
  PROVE  /\ lists' \in [Lists -> ListState \cup {Gone}]
         /\ \A n \in 1..Depth : stack[n][1] = "nearStops" => lists'[stack[n][2]] # Gone
<1>1. /\ lists' \in [Lists -> ListState \cup {Gone}]
      /\ lists'[l] = r
      /\ \A d \in Lists : d # l => lists'[d] = lists[d]
  BY ListTypes DEF NavInv
<1>2. ASSUME NEW n \in 1..Depth, stack[n][1] = "nearStops"
      PROVE  lists'[stack[n][2]] # Gone
  <2>1. stack[n] \in Pages /\ lists[stack[n][2]] # Gone
    BY <1>2, StackFacts DEF NavInv, StackFits, Fits, Depth
  <2>2. stack[n][2] \in Lists
    BY <1>2, <2>1, PageKinds
  <2>3. CASE stack[n][2] = l
    BY <1>1, <1>2, <2>3 DEF IsOpen
  <2>4. CASE stack[n][2] # l
    BY <1>1, <2>1, <2>2, <2>4
  <2> QED BY <2>3, <2>4
<1> QED BY <1>1, <1>2

\* Steps that change the State of a page of the nearest stops and not the stack.
LEMMA ListKeeps ==
  ASSUME NavInv, NEW l \in Lists, NEW r \in ListState \cup {Gone},
         lists' = [lists EXCEPT ![l] = r],
         r = Gone => ~IsOpen("nearStops", l),
         UNCHANGED <<tab, stack, picked, choosers>>
  PROVE  NavInv'
<1>1. /\ lists' \in [Lists -> ListState \cup {Gone}]
      /\ \A n \in 1..Depth : stack[n][1] = "nearStops" => lists'[stack[n][2]] # Gone
  BY ListChanged
<1>2. TypeOK' /\ TapsTapped(choosers')
  BY <1>1 DEF NavInv, TypeOK
<1>3. \A n \in 1..Depth : stack[n][1] = "choose" =>
         /\ choosers'[stack[n][2]] # Gone
         /\ choosers[stack[n][2]].tapped \subseteq choosers'[stack[n][2]].tapped
  BY DEF NavInv, StackFits, Fits, Depth
<1> QED BY <1>1, <1>2, <1>3, SameStack

LEMMA RowChangesKeeps ==
  ASSUME NavInv, NEW l \in Lists, RowChanges(l)
  PROVE  NavInv'
<1>1. PICK i \in Rows, n \in Names : lists' = [lists EXCEPT ![l].rows[i] = n]
  BY DEF RowChanges
<1> DEFINE rows2 == [lists[l].rows EXCEPT ![i] = n]
           r == [lists[l] EXCEPT !.rows = rows2]
<1>2. lists[l] \in ListState
  BY DEF RowChanges, NavInv, TypeOK
<1>3. rows2 \in [Rows -> Names \cup {Blank}]
  BY <1>2 DEF ListState
<1>4. lists' = [lists EXCEPT ![l] = r]
  BY <1>1
<1> HIDE DEF rows2
<1>5. r \in ListState
  BY <1>2, <1>3 DEF ListState
<1> HIDE DEF r
<1>6. r # Gone
  BY <1>5, NavigationAssumption
<1> QED BY <1>4, <1>5, <1>6, ListKeeps DEF RowChanges

LEMMA MapButtonKeeps ==
  ASSUME NavInv, NEW l \in Lists, NEW i \in Rows, MapButton(l, i)
  PROVE  NavInv'
<1> DEFINE lookups2 == [lists[l].lookups EXCEPT ![i] = @ + 1]
           r == [lists[l] EXCEPT !.lookups = lookups2]
<1>1. lists[l] \in ListState
  <2>1. lists[l] # Gone
    BY StackFacts DEF MapButton
  <2> QED BY <2>1 DEF NavInv, TypeOK
<1>2. lookups2 \in [Rows -> Nat]
  BY <1>1 DEF ListState
<1>3. lists' = [lists EXCEPT ![l] = r]
  BY DEF MapButton
<1> HIDE DEF lookups2
<1>4. r \in ListState
  BY <1>1, <1>2 DEF ListState
<1> HIDE DEF r
<1>5. r # Gone
  BY <1>4, NavigationAssumption
<1> QED BY <1>3, <1>4, <1>5, ListKeeps DEF MapButton

LEMMA ListDisposedKeeps ==
  ASSUME NavInv, NEW l \in Lists, ListDisposed(l)
  PROVE  NavInv'
BY ListKeeps DEF ListDisposed

\* An answer brings maps, and nothing else.
LEMMA MapsOfAnswer ==
  ASSUME NEW K, K \subseteq 1..Len(StopDocs), NEW found \in InOrder(K),
         NEW w \in {"open", "left"}
  PROVE  [n \in DOMAIN found |-> <<"map", StopDocs[found[n]], w>>] \in Seq({"map"} \X Stops \X {w})
<1>1. StopDocs \in Seq(Stops) /\ Len(StopDocs) \in Nat
  BY NavigationAssumption
<1>2. Cardinality(K) \in Nat
  <2>1. IsFiniteSet(1..Len(StopDocs))
    BY <1>1, FS_Interval
  <2>2. IsFiniteSet(K)
    BY <2>1, FS_Subset
  <2> QED BY <2>2, FS_CardinalityType
<1>3. found \in [1..Cardinality(K) -> K]
  BY DEF InOrder
<1>4. \A n \in 1..Cardinality(K) : StopDocs[found[n]] \in Stops
  <2> SUFFICES ASSUME NEW n \in 1..Cardinality(K) PROVE StopDocs[found[n]] \in Stops
    OBVIOUS
  <2>1. found[n] \in 1..Len(StopDocs)
    BY <1>3
  <2> QED BY <1>1, <2>1
<1> QED BY <1>2, <1>3, <1>4

LEMMA MapsCome ==
  ASSUME NEW l \in Lists, NEW i \in Rows, MapAnswered(l, i)
  PROVE  \E more \in Seq({"map"} \X Stops \X {WhenItCame("nearStops", l)}) :
            stack' = stack \o more
<1> DEFINE w == WhenItCame("nearStops", l)
<1>1. w \in {"open", "left"}
  BY DEF WhenItCame
<1>2. Named(lists[l].rows[i]) \subseteq 1..Len(StopDocs)
  BY DEF Named
<1>3. PICK found \in InOrder(Named(lists[l].rows[i])) :
         stack' = stack \o [n \in DOMAIN found |-> <<"map", StopDocs[found[n]], w>>]
  BY DEF MapAnswered, Opened
<1> HIDE DEF w
<1>4. [n \in DOMAIN found |-> <<"map", StopDocs[found[n]], w>>] \in Seq({"map"} \X Stops \X {w})
  BY <1>1, <1>2, MapsOfAnswer
<1> QED BY <1>3, <1>4 DEF w

LEMMA MapAnsweredKeeps ==
  ASSUME NavInv, NEW l \in Lists, NEW i \in Rows, MapAnswered(l, i)
  PROVE  NavInv'
<1> DEFINE lookups2 == [lists[l].lookups EXCEPT ![i] = @ - 1]
           r == [lists[l] EXCEPT !.lookups = lookups2]
           w == WhenItCame("nearStops", l)
<1>1. lists[l] \in ListState /\ lists[l].lookups[i] > 0
  BY DEF MapAnswered, NavInv, TypeOK
<1>2. lookups2 \in [Rows -> Nat]
  BY <1>1 DEF ListState
<1>3. lists' = [lists EXCEPT ![l] = r]
  BY DEF MapAnswered
<1>4. w \in {"open", "left"}
  BY DEF WhenItCame
<1>5. PICK more \in Seq({"map"} \X Stops \X {w}) : stack' = stack \o more
  BY MapsCome
<1>6. w = "open" => Depth >= 2 /\ stack[2][1] = "nearStops"
  BY OpenPage DEF Bottoms
<1> HIDE DEF lookups2, w
<1>7. r \in ListState
  BY <1>1, <1>2 DEF ListState
<1> HIDE DEF r
<1>8. r # Gone
  BY <1>7, NavigationAssumption
<1>9. /\ lists' \in [Lists -> ListState \cup {Gone}]
      /\ \A n \in 1..Depth : stack[n][1] = "nearStops" => lists'[stack[n][2]] # Gone
  BY <1>3, <1>7, <1>8, ListChanged
<1>10. choosers' = choosers /\ tab' = tab /\ picked' = picked
  BY DEF MapAnswered
<1>11. StackFits(stack, choosers', lists') /\ TapsTapped(choosers')
  <2>1. \A n \in 1..Depth : stack[n][1] = "choose" =>
           /\ choosers'[stack[n][2]] # Gone
           /\ choosers[stack[n][2]].tapped \subseteq choosers'[stack[n][2]].tapped
    BY <1>10 DEF NavInv, StackFits, Fits, Depth
  <2>2. StackFits(stack, choosers', lists')
    BY <1>9, <2>1, FitsStates DEF NavInv, Depth
  <2> QED BY <1>10, <2>2 DEF NavInv
<1>12. more \in Seq({"sheet", "map"} \X Stops \X {"open", "left"})
  <2>1. {"map"} \X Stops \X {w} \subseteq {"sheet", "map"} \X Stops \X {"open", "left"}
    BY <1>4
  <2> QED BY <1>5, <2>1, SeqMonotonic
<1>13. stack' \in Seq(Pages)
  <2>1. {"sheet", "map"} \X Stops \X {"open", "left"} \subseteq Pages
    BY DEF Pages
  <2>2. more \in Seq(Pages) /\ stack \in Seq(Pages)
    BY <1>12, <2>1, SeqMonotonic DEF NavInv, StackFits
  <2> QED BY <1>5, <2>2, ConcatProperties
<1>14. TypeOK'
  BY <1>9, <1>10, <1>13 DEF NavInv, TypeOK
<1>15. \A m \in 1..Len(more) : more[m][3] = "open" =>
          /\ Depth >= 2
          /\ stack[2][1] = IF more[m][1] = "sheet" THEN "choose" ELSE "nearStops"
          /\ more[m][1] = "sheet" => more[m][2] \in choosers'[stack[2][2]].tapped
  <2>1. \A m \in 1..Len(more) : more[m][1] = "map" /\ more[m][3] = w
    BY <1>5
  <2> QED BY <1>6, <2>1
<1> QED BY <1>5, <1>10, <1>11, <1>12, <1>14, <1>15, LatePages

-----------------------------------------------------------------------------
LEMMA NavStep == NavInv /\ [Next]_vars => NavInv'
<1> SUFFICES ASSUME NavInv, [Next]_vars PROVE NavInv'
  OBVIOUS
<1>1. UNCHANGED <<stack, choosers, lists>> =>
        /\ TapsTapped(choosers')
        /\ \A n \in 1..Depth : stack[n][1] = "choose" =>
              /\ choosers'[stack[n][2]] # Gone
              /\ choosers[stack[n][2]].tapped \subseteq choosers'[stack[n][2]].tapped
        /\ \A n \in 1..Depth : stack[n][1] = "nearStops" => lists'[stack[n][2]] # Gone
  BY DEF NavInv, StackFits, Fits, Depth
<1>2. ASSUME NEW index \in {Home, LinesTab, MapTab}, _onItemTapped(index) PROVE NavInv'
  <2>1. picked' \in [Ends -> Stops \cup {NoStop}]
    BY <1>2 DEF _onItemTapped, NothingPicked, NavInv, TypeOK
  <2>2. TypeOK'
    BY <1>2, <2>1 DEF _onItemTapped, NavInv, TypeOK
  <2>3. ~Open("choose")
    <3>1. Depth = 1 /\ stack[1][1] = "root"
      BY <1>2, StackFacts DEF _onItemTapped
    <3> QED BY <3>1 DEF Open
  <2> QED BY <1>1, <1>2, <2>2, <2>3, SameStack DEF _onItemTapped
<1>3. CASE UNCHANGED vars
  <2>1. TypeOK'
    BY <1>3 DEF vars, NavInv, TypeOK
  <2> QED BY <1>1, <1>3, <2>1, SameStack DEF vars
<1> QED BY <1>2, <1>3, ChooseKeeps, NearStopsKeeps, StopsPageKeeps, BackKeeps, TapKeeps,
           MarkersComeKeeps, onTapKeeps, ChooserDisposedKeeps, WybierzKeeps, MapButtonKeeps,
           MapAnsweredKeeps, RowChangesKeeps, ListDisposedKeeps DEF Next

\* Every page stands where it may stand, has its State while it is open, and shows what
\* was tapped on the page it came over: NavInv holds in every state.
THEOREM NavigationInvariant == Spec => []NavInv
BY NavInit, NavStep, PTL DEF Spec

\* The types of the pages and of what is on its way.
THEOREM NavigationTypeCorrect == Spec => []TypeOK
<1>1. NavInv => TypeOK
  BY DEF NavInv
<1> QED BY <1>1, NavigationInvariant, PTL

\* What comes on top leaves the root page where it is.
LEMMA RootUnder ==
  ASSUME NEW s \in Seq(Pages), s # << >>, NEW p
  PROVE  Append(s, p) # << >> /\ Append(s, p)[1] = s[1]
<1>1. s \in Seq(Pages \cup {p})
  BY SeqMonotonic
<1>2. Len(s) \in Nat \ {0}
  BY EmptySeq
<1>3. /\ Append(s, p) # << >>
      /\ \A n \in 1..Len(s) : Append(s, p)[n] = s[n]
  BY <1>1, AppendProperties
<1> QED BY <1>2, <1>3

LEMMA RootUnderMaps ==
  ASSUME NEW s \in Seq(Pages), s # << >>, NEW S, NEW more \in Seq(S)
  PROVE  s \o more # << >> /\ (s \o more)[1] = s[1]
<1>1. s \in Seq(Pages \cup S) /\ more \in Seq(Pages \cup S)
  BY SeqMonotonic
<1>2. Len(s) \in Nat \ {0} /\ Len(more) \in Nat
  BY EmptySeq
<1>3. /\ Len(s \o more) = Len(s) + Len(more)
      /\ \A n \in 1..(Len(s) + Len(more)) :
            (s \o more)[n] = IF n <= Len(s) THEN s[n] ELSE more[n - Len(s)]
  BY <1>1, ConcatProperties
<1> QED BY <1>2, <1>3, EmptySeq

\* The root page is popped only by 'Wybierz' on a sheet straight over it, that of a
\* choose page left before the sheet came, whatever is tapped and pressed twice and
\* however many pages are leaving.
THEOREM RootPageStays == Spec => RootStays
<1>1. NavInv /\ [Next]_vars =>
        [OnRoot /\ ~OnRoot' => Depth = 2 /\ OnTop("sheet") /\ stack[2][3] = "left"]_vars
  <2> SUFFICES ASSUME NavInv, Next, OnRoot, ~OnRoot'
               PROVE  Depth = 2 /\ OnTop("sheet") /\ stack[2][3] = "left"
    OBVIOUS
  <2>1. /\ Depth \in Nat /\ Depth >= 1 /\ Depth = Len(stack)
        /\ stack \in Seq(Pages) /\ stack # << >> /\ stack[1] = Root
    BY EmptySeq DEF NavInv, StackFits, Depth, OnRoot
  <2>2. \A p : stack' # Append(stack, p)
    BY <2>1, RootUnder DEF OnRoot
  <2>3. stack' # stack
    BY DEF OnRoot
  <2>4. ASSUME NEW k \in 1..2, stack' = Pop(k), Depth > k PROVE FALSE
    <3>1. \A n \in 1..(Len(stack) - k) : stack[n] \in Pages
      BY <2>1
    <3>2. stack' \in Seq(Pages) /\ Len(stack') = Depth - k /\ stack'[1] = stack[1]
      BY <2>1, <2>4, <3>1, SubSeqProperties DEF Pop
    <3> QED BY <2>1, <2>4, <3>2, EmptySeq DEF OnRoot
  <2>5. stack[1][1] = "root"
    BY <2>1 DEF Root
  <2>6. ~Back
    <3> SUFFICES ASSUME Back PROVE FALSE
      OBVIOUS
    <3>1. Depth # 1
      BY <2>1, <2>5 DEF Back, HasBackButton, AtRoot, OnTop
    <3> QED BY <2>1, <2>4, <3>1 DEF Back
  <2>7. ASSUME NEW l \in Lists, NEW i \in Rows, MapAnswered(l, i) PROVE FALSE
    BY <2>1, <2>7, MapsCome, RootUnderMaps DEF OnRoot
  <2>8. Wybierz
    BY <2>2, <2>3, <2>6, <2>7 DEF Next, _onItemTapped, Choose, NearStops, StopsPage, Tap,
       MarkersCome, onTap, ChooserDisposed, MapButton, RowChanges, ListDisposed, Push
  <2>9. OnTop("sheet") /\ Depth = 2
    <3>1. OnTop("sheet") /\ stack' = Pop(2)
      BY <2>8 DEF Wybierz
    <3>2. Depth # 1
      BY <2>5, <3>1 DEF OnTop
    <3> QED BY <2>1, <2>4, <3>1, <3>2
  <2>10. stack[2][3] = "left"
    <3>0. stack[2][1] = "sheet" /\ 2 \in 1..Len(stack)
      BY <2>1, <2>9 DEF OnTop
    <3>1. stack[2] \in Pages /\ stack[2][1] = "sheet" /\ Fits(stack, 2, choosers, lists)
      BY <2>1, <3>0 DEF NavInv, StackFits
    <3>2. stack[2][3] # "open"
      BY <3>1 DEF Fits, InPlace
    <3> QED BY <3>1, <3>2, PageKinds
  <2> QED BY <2>9, <2>10
<1> QED BY <1>1, NavigationInvariant, PTL DEF Spec, RootStays

\* A page that comes late stands over one of the kind it belongs to, unless it belongs
\* to a page left before it came.
THEOREM LatePagesStayOverTheirs == Spec => []LatePagesOverTheirs
<1>1. NavInv => LatePagesOverTheirs
  <2> SUFFICES ASSUME NavInv, NEW n \in 1..Depth
               PROVE  /\ stack[n] = Root => n = 1
                      /\ stack[n][1] \in {"choose", "nearStops", "stops"} => n = 2 /\ OnRoot
                      /\ stack[n][1] \in {"sheet", "map"} /\ stack[n][3] = "open" =>
                           n > 2 /\ stack[2][1] = IF stack[n][1] = "sheet" THEN "choose"
                                                 ELSE "nearStops"
    BY DEF LatePagesOverTheirs
  <2>1. InPlace(stack, n)
    BY DEF NavInv, StackFits, Fits, Depth
  <2>2. stack # << >>
    BY EmptySeq DEF Depth
  <2> QED BY <2>1, <2>2 DEF InPlace, Bottoms, OnRoot
<1> QED BY <1>1, NavigationInvariant, PTL

\* The home page is there when a choose page returns to it.
THEOREM ChoiceReturnsToHome == Spec => []ReturnsToHome
<1>1. NavInv => ReturnsToHome
  BY DEF NavInv
<1> QED BY <1>1, NavigationInvariant, PTL

\* A button takes a stop from the page it opened only, and one tapped on that very page
\* unless the sheet belongs to a page left before it came.
THEOREM PicksAreTapped == Spec => PicksTapped
<1> DEFINE Step(e) == picked'[e] # picked[e] /\ picked'[e] # NoStop =>
                        /\ Depth = 3 /\ OnTop("sheet") /\ stack' = <<Root>>
                        /\ \E c \in Choosers :
                              /\ stack[2] = <<"choose", c, e>>
                              /\ stack[3][3] = "open" => picked'[e] \in choosers[c].tapped
<1>1. NavInv /\ [Next]_vars => [\A e \in Ends : Step(e)]_vars
  <2> SUFFICES ASSUME NavInv, Next, NEW e \in Ends,
                      picked'[e] # picked[e], picked'[e] # NoStop
               PROVE  /\ Depth = 3 /\ OnTop("sheet") /\ stack' = <<Root>>
                      /\ \E c \in Choosers :
                            /\ stack[2] = <<"choose", c, e>>
                            /\ stack[3][3] = "open" => picked'[e] \in choosers[c].tapped
    OBVIOUS
  <2>1. \A index \in {Home, LinesTab, MapTab} : ~_onItemTapped(index)
    BY DEF _onItemTapped, NothingPicked
  <2>2. Wybierz
    BY <2>1 DEF Next, Choose, NearStops, StopsPage, Back, MarkersCome, Tap, onTap,
                ChooserDisposed, RowChanges, MapButton, MapAnswered, ListDisposed
  <2>3. Depth >= 2 /\ stack[Depth - 1][1] = "choose"
    BY <2>2 DEF Wybierz
  <2>4. /\ Depth = 3 /\ stack[1] = Root
        /\ stack[2][2] \in Choosers /\ stack[2][3] \in Ends
        /\ stack[2] = <<"choose", stack[2][2], stack[2][3]>>
        /\ stack[3][3] = "open" => stack[3][2] \in choosers[stack[2][2]].tapped
    BY <2>2, <2>3, GivenTo
  <2>5. picked' = [picked EXCEPT ![stack[2][3]] = stack[3][2]]
    BY <2>2, <2>3, <2>4 DEF Wybierz
  <2>6. stack[2][3] = e /\ picked'[e] = stack[3][2]
    BY <2>4, <2>5 DEF NavInv, TypeOK
  <2>7. stack' = <<Root>>
    <3>1. stack \in Seq(Pages) /\ Len(stack) = 3 /\ stack' = SubSeq(stack, 1, 1)
      BY <2>2, <2>4 DEF Wybierz, Pop, Depth, NavInv, StackFits
    <3>2. \A n \in 1..1 : stack[n] \in Pages
      BY <3>1
    <3>3. stack' \in Seq(Pages) /\ Len(stack') = 1 /\ stack'[1] = stack[1]
      BY <3>1, <3>2, SubSeqProperties
    <3> QED BY <2>4, <3>3
  <2>8. OnTop("sheet")
    BY <2>2 DEF Wybierz
  <2> QED BY <2>4, <2>6, <2>7, <2>8
<1> QED BY <1>1, NavigationInvariant, PTL DEF Spec, PicksTapped
=============================================================================
