------------------------ MODULE FirestoreReadsProofs ------------------------
(***************************************************************************)
(* What holds of reading through the Firestore client for any queries,     *)
(* readers and number of faults.                                           *)
(***************************************************************************)
EXTENDS FirestoreReads, SequenceTheorems, FiniteSetTheorems, TLAPS

-----------------------------------------------------------------------------
(***************************************************************************)
(* The connection.                                                         *)
(***************************************************************************)
\* The timer runs for a target or on an open stream: a client that it takes
\* offline is one that somebody reads from, or one that can still hear.
TimerHasReason == tracker.timer => watched # {} \/ IsOpen

ConnectionInv == ConnectionTypeOK /\ TrackerSound /\ TimerHasReason

LEMMA ConnectionStart == ConnectionInit => ConnectionInv
<1> SUFFICES ASSUME ConnectionInit PROVE ConnectionInv
  OBVIOUS
<1> USE DEF ConnectionInit
<1>1. tracker \in Trackers /\ ~tracker.timer /\ tracker.state = "Unknown"
  BY DEF Trackers, OnlineStates, MaxFailures
<1>2. ConnectionTypeOK
  BY <1>1 DEF ConnectionTypeOK, StreamStates
<1>3. TrackerSound
  BY <1>1 DEF TrackerSound
<1> QED BY <1>1, <1>2, <1>3 DEF ConnectionInv, TimerHasReason

\* What the handlers of the tracker make of it.
LEMMA UpdatedTracker ==
  ASSUME NEW s \in OnlineStates
  PROVE  /\ UpdateState(s) \in Trackers
         /\ UpdateState(s).state = s
         /\ UpdateState(s).failures = 0
         /\ UpdateState(s).timer = FALSE
  BY DEF UpdateState, Trackers, MaxFailures

LEMMA StartedTracker ==
  ASSUME NEW k \in Trackers
  PROVE  /\ HandleWatchStreamStart(k) \in Trackers
         /\ k.failures # 0 => HandleWatchStreamStart(k) = k
         /\ k.failures = 0 => /\ HandleWatchStreamStart(k).state = "Unknown"
                              /\ HandleWatchStreamStart(k).failures = 0
  BY DEF HandleWatchStreamStart, Trackers, OnlineStates

LEMMA FailedTracker ==
  ASSUME NEW k \in Trackers, k.state = "Online" => k.failures = 0 /\ k.timer = FALSE
  PROVE  /\ HandleWatchStreamFailure(k) \in Trackers
         /\ k.state = "Online" => /\ HandleWatchStreamFailure(k).state = "Unknown"
                                  /\ HandleWatchStreamFailure(k).failures = 0
         /\ k.state # "Online" => /\ HandleWatchStreamFailure(k).state = "Offline"
                                  /\ HandleWatchStreamFailure(k).failures # 0
                                  /\ HandleWatchStreamFailure(k).timer = FALSE
  BY DEF HandleWatchStreamFailure, Trackers, OnlineStates, MaxFailures

LEMMA ConnectionStep ==
  ASSUME ConnectionInv, [ConnectionNext]_connection
  PROVE  ConnectionInv'
<1> USE DEF ConnectionInv, ConnectionTypeOK, TrackerSound, TimerHasReason, StreamStates, IsStarted, IsOpen
<1>0. {"Unknown", "Online", "Offline"} \subseteq OnlineStates
  BY DEF OnlineStates
<1>1. ASSUME NEW t \in Targets, Listen(t) PROVE ConnectionInv'
  <2>1. CASE ~IsStarted
    <3>1. tracker' = HandleWatchStreamStart(tracker) /\ stream' \in {"Starting", "Backoff"}
      BY <1>1, <2>1 DEF Listen, Started
    <3> QED BY <1>1, <2>1, <3>1, StartedTracker DEF Listen
  <2>2. CASE IsStarted
    <3>1. watched' \subseteq Targets /\ watched' # {} /\ UNCHANGED <<stream, tracker>>
      BY <1>1, <2>2 DEF Listen
    <3>2. UNCHANGED idle \/ idle' = FALSE
      BY <1>1, <2>2 DEF Listen, Write
    <3>3. ~idle'
      BY <1>1, <2>2, <3>2 DEF Listen, Write
    <3> QED BY <2>2, <3>1, <3>2, <3>3
  <2> QED BY <2>1, <2>2
<1>2. ASSUME NEW t \in Targets, StopListening(t) PROVE ConnectionInv'
  <2>1. CASE watched' = {} /\ ~IsOpen
    <3> DEFINE fresh == UpdateState("Unknown")
    <3>1. fresh \in Trackers /\ fresh.state = "Unknown" /\ fresh.failures = 0 /\ ~fresh.timer
      BY <1>0, UpdatedTracker
    <3>2. tracker' = fresh /\ ~idle' /\ idle' \in BOOLEAN /\ stream' = stream
      BY <1>2, <2>1 DEF StopListening
    <3>3. tracker' \in Trackers /\ tracker'.state = "Unknown" /\ ~tracker'.timer
      BY <3>1, <3>2
    <3> HIDE DEF fresh
    <3>4. ConnectionTypeOK'
      BY <2>1, <3>2, <3>3
    <3>5. TrackerSound'
      BY <2>1, <3>2, <3>3
    <3>6. TimerHasReason'
      BY <3>3
    <3> HIDE DEF ConnectionTypeOK, TrackerSound, TimerHasReason
    <3> QED BY <3>4, <3>5, <3>6
  <2>2. CASE ~(watched' = {} /\ ~IsOpen)
    BY <1>2, <2>2 DEF StopListening
  <2> QED BY <2>1, <2>2
<1>3. CASE OnWatchStreamOpen
  BY <1>3 DEF OnWatchStreamOpen, Write
<1>4. CASE BackoffElapses
  BY <1>4 DEF BackoffElapses
<1>5. CASE IdleTimeout
  BY <1>0, <1>5, UpdatedTracker DEF IdleTimeout
<1>6. CASE OnWatchStreamChange
  BY <1>0, <1>6, UpdatedTracker DEF OnWatchStreamChange
<1>7. CASE OnWatchStreamError
  <2>1. CASE watched = {}
    BY <1>0, <1>7, <2>1, UpdatedTracker DEF OnWatchStreamError
  <2>2. CASE watched # {}
    <3> DEFINE failed == HandleWatchStreamFailure(tracker)
    <3>1. failed \in Trackers /\ (failed.failures # 0 => failed.state = "Offline" /\ ~failed.timer)
      <4>1. tracker.state = "Online" => tracker.failures = 0 /\ tracker.timer = FALSE
        BY DEF Trackers
      <4> QED BY <4>1, FailedTracker
    <3>2. tracker' = HandleWatchStreamStart(failed) /\ stream' = "Backoff"
      BY <1>7, <2>2 DEF OnWatchStreamError
    <3> HIDE DEF failed
    <3> QED BY <1>7, <2>2, <3>1, <3>2, StartedTracker DEF OnWatchStreamError
  <2> QED BY <2>1, <2>2
<1>8. CASE OnlineStateTimeout
  <2>1. tracker' \in Trackers
    BY <1>8 DEF OnlineStateTimeout, Trackers, OnlineStates
  <2>2. tracker'.state = "Offline" /\ ~tracker'.timer
    BY <1>8 DEF OnlineStateTimeout, Trackers
  <2>3. IsStarted /\ UNCHANGED <<stream, idle, watched>>
    BY <1>8 DEF OnlineStateTimeout
  <2>4. ConnectionTypeOK'
    BY <2>1, <2>3
  <2>5. watched # {} \/ IsOpen
    BY <1>8 DEF OnlineStateTimeout
  <2>6. TrackerSound' /\ TimerHasReason'
    BY <2>2, <2>3, <2>5
  <2> HIDE DEF ConnectionTypeOK, TrackerSound, TimerHasReason
  <2> QED BY <2>4, <2>6
<1>9. CASE RestartNetwork
  <2> DEFINE fresh == UpdateState("Unknown")
  <2>1. fresh \in Trackers /\ fresh.state = "Unknown" /\ fresh.failures = 0 /\ ~fresh.timer
    BY <1>0, UpdatedTracker
  <2>2. /\ idle' = FALSE /\ watched' = watched
        /\ watched = {} => stream' = "Initial" /\ tracker' = fresh
        /\ watched # {} => stream' = "Starting" /\ tracker' = HandleWatchStreamStart(fresh)
    BY <1>9 DEF RestartNetwork
  <2> HIDE DEF fresh
  <2> QED BY <2>1, <2>2, StartedTracker
<1>10. CASE UNCHANGED connection
  BY <1>10 DEF connection
<1> QED
  BY <1>1, <1>2, <1>3, <1>4, <1>5, <1>6, <1>7, <1>8, <1>9, <1>10 DEF ConnectionNext

\* Every task of the client changes its connection by a step of WatchConnection.
LEMMA TaskIsConnectionStep == [Next]_vars => [ConnectionNext]_connection
<1> SUFFICES ASSUME [Next]_vars PROVE [ConnectionNext]_connection
  OBVIOUS
<1> USE DEF ConnectionNext
<1>1. ASSUME NEW l \in Listeners, AddQueryListener(l) PROVE [ConnectionNext]_connection
  BY <1>1, ReadsAssumption DEF AddQueryListener
<1>2. ASSUME NEW l \in Listeners, RemoveQueryListener(l) PROVE [ConnectionNext]_connection
  BY <1>2, ReadsAssumption DEF RemoveQueryListener
<1>3. CASE StreamOpens \/ StreamIdles \/ OnlineTimerFires \/ BackoffEnds \/ Fault
  BY <1>3 DEF StreamOpens, StreamIdles, OnlineTimerFires, BackoffEnds, Fault
<1>4. CASE Network
  BY <1>4 DEF Network, ResponseComes, BackendAnswers
<1>5. CASE User \/ OnEvent
  BY <1>5 DEF User, AddSnapshotListener, StopLive, OnEvent
<1>6. CASE UNCHANGED vars \/ \E q \in Targets : Publish(q)
  BY <1>6 DEF vars, Publish
<1> QED BY <1>1, <1>2, <1>3, <1>4, <1>5, <1>6 DEF Next, Client

\* Whatever the network does, no assertion of the tracker, the stream or
\* OnWatchStreamClose fires, and no watched target is left without a stream.
THEOREM ReadsTrackerSound == SilentSpec => []TrackerSound
<1>1. Init => ConnectionInv
  BY ConnectionStart DEF Init
<1>2. ConnectionInv /\ [Next]_vars => ConnectionInv'
  BY ConnectionStep, TaskIsConnectionStep
<1>3. ConnectionInv => TrackerSound
  BY DEF ConnectionInv
<1> QED BY <1>1, <1>2, <1>3, PTL DEF SilentSpec

-----------------------------------------------------------------------------
(***************************************************************************)
(* What is told.                                                           *)
(***************************************************************************)
ReadsTypes ==
  /\ told \in [Listeners -> Seq(Answers)]
  /\ events \in Seq(Events)
  /\ listeners \in [Targets -> SUBSET Listeners]
  /\ view \in [Targets -> [docs : Versions, current : BOOLEAN]]
  /\ cache \in [Targets -> Versions]
  /\ updates \in [Targets -> Versions]
  /\ rows \in [Targets -> Versions]
  /\ now \in Versions
  /\ lastVersion \in Versions
  /\ responses \in Seq(Messages)
  /\ state \in [Targets -> [out : Int, current : BOOLEAN]]

\* A get that has been answered hears no more.
AnsweredAreMuted == \A g \in Gets : told[g] # << >> => g \in muted

\* The client knows nothing newer than the database has.
NothingNewer ==
  /\ \A q \in Targets : updates[q] <= rows[q] /\ cache[q] <= rows[q] /\ rows[q] <= now
  /\ \A n \in DOMAIN responses :
        responses[n].type = "Document" => responses[n].docs <= rows[responses[n].target]

\* A view shows the documents of the local store.
ViewsShowCache == \A q \in Targets : listeners[q] # {} => view[q].docs = cache[q]

\* What was told, what is about to be told and what the local store has come in
\* this order, query by query.
ToldInOrder ==
  \A l \in Listeners : \A k \in DOMAIN told[l] :
     /\ told[l][k].docs <= cache[asks[l]]
     /\ \A n \in DOMAIN events :
          asks[events[n].to] = asks[l] => told[l][k].docs <= events[n].docs

EventsInOrder ==
  \A n \in DOMAIN events :
     /\ events[n].docs <= cache[asks[events[n].to]]
     /\ \A m \in DOMAIN events :
          m < n /\ asks[events[m].to] = asks[events[n].to] => events[m].docs <= events[n].docs

ReadsInv ==
  /\ ReadsTypes
  /\ AnsweredAreMuted
  /\ NothingNewer
  /\ ViewsShowCache
  /\ ToldInOrder
  /\ EventsInOrder

LEMMA ReadsStart == Init => ReadsInv
<1> SUFFICES ASSUME Init PROVE ReadsInv
  OBVIOUS
<1> USE ReadsAssumption DEF Init
<1>1. 0 \in Versions /\ 1 \in Versions
  BY DEF Versions
<1>2. << >> \in Seq(Answers) /\ << >> \in Seq(Events) /\ << >> \in Seq(Messages)
  BY EmptySeq
<1>3. ReadsTypes
  BY <1>1, <1>2 DEF ReadsTypes, NoView, NewState
<1>4. AnsweredAreMuted /\ ViewsShowCache
  BY DEF AnsweredAreMuted, ViewsShowCache, Listeners
<1>5. NothingNewer
  BY DEF NothingNewer
<1>6. ToldInOrder /\ EventsInOrder
  BY DEF ToldInOrder, EventsInOrder
<1> QED BY <1>3, <1>4, <1>5, <1>6 DEF ReadsInv

\* The documents of what is handed on are those of the views, which show the local
\* store, which has grown no older: the order of the events is kept.
LEMMA HandedOn ==
  ASSUME ReadsInv, RaiseEvents, told' = told,
         cache' \in [Targets -> Versions],
         view' \in [Targets -> [docs : Versions, current : BOOLEAN]],
         \A q \in Targets : cache[q] <= cache'[q],
         ViewsShowCache'
  PROVE  events' \in Seq(Events) /\ ToldInOrder' /\ EventsInOrder'
<1> USE ReadsAssumption
<1> DEFINE all == {l \in Listeners : Raises(l)}
<1>1. PICK s \in SetToSeqs(all) :
        events' = events \o [n \in DOMAIN s |-> Event(s[n], view'[asks[s[n]]])]
  BY DEF RaiseEvents
<1> DEFINE more == [n \in DOMAIN s |-> Event(s[n], view'[asks[s[n]]])]
<1>2. /\ Cardinality(all) \in Nat
      /\ s \in [1..Cardinality(all) -> all]
  <2>1. IsFiniteSet(all)
    BY FS_Subset
  <2> QED BY <2>1, FS_CardinalityType DEF SetToSeqs
<1> DEFINE c == Cardinality(all)
<1>3. \A n \in 1..c : /\ more[n] \in Events
                      /\ more[n].docs = cache'[asks[more[n].to]]
  <2> SUFFICES ASSUME NEW n \in 1..c
               PROVE  more[n] \in Events /\ more[n].docs = cache'[asks[more[n].to]]
    OBVIOUS
  <2>1. s[n] \in Listeners /\ Raises(s[n])
    BY <1>2
  <2>2. more[n] = Event(s[n], view'[asks[s[n]]])
    BY <1>2
  <2>3. asks[s[n]] \in Targets /\ listeners'[asks[s[n]]] # {}
    BY <2>1 DEF Raises
  <2>4. view'[asks[s[n]]] \in [docs : Versions, current : BOOLEAN]
    BY <2>3
  <2>5. view'[asks[s[n]]].docs = cache'[asks[s[n]]]
    BY <2>3 DEF ViewsShowCache
  <2> DEFINE v == view'[asks[s[n]]]
  <2>6. v.docs \in Versions /\ (~v.current) \in BOOLEAN
    BY <2>4
  <2>7. more[n] = [to |-> s[n], docs |-> v.docs, fromCache |-> ~v.current]
    BY <2>2 DEF Event
  <2> HIDE DEF more, v
  <2>8. more[n].to = s[n] /\ more[n].docs = v.docs
    BY <2>7
  <2>9. more[n] \in Events
    BY <2>1, <2>6, <2>7 DEF Events
  <2> QED BY <2>5, <2>8, <2>9 DEF v
<1>4. more \in Seq(Events) /\ Len(more) = c
  <2>1. more \in [1..c -> Events]
    BY <1>2, <1>3
  <2>2. c \in Nat
    BY <1>2
  <2> HIDE DEF more, c
  <2>3. more \in Seq(Events)
    BY <2>1, <2>2
  <2> QED BY <2>1, <2>2, <2>3, LenProperties
<1>5. events \in Seq(Events)
  BY DEF ReadsInv, ReadsTypes
<1> HIDE DEF more, c
<1>6. /\ events' \in Seq(Events)
      /\ DOMAIN events' = 1..(Len(events) + c)
      /\ \A n \in 1..(Len(events) + c) :
           events'[n] = IF n <= Len(events) THEN events[n] ELSE more[n - Len(events)]
  BY <1>1, <1>4, <1>5, ConcatProperties, LenProperties DEF more
<1>7. Len(events) \in Nat /\ DOMAIN events = 1..Len(events) /\ c \in Nat
  BY <1>2, <1>5, LenProperties DEF c
<1>8. \A n \in 1..Len(events) : events[n] \in Events
  BY <1>5, ElementOfSeq
<1>9. \A n \in DOMAIN events' :
        \/ n \in DOMAIN events /\ events'[n] = events[n]
        \/ /\ n \notin DOMAIN events
           /\ events'[n].docs = cache'[asks[events'[n].to]]
           /\ events'[n] \in Events
  <2> SUFFICES ASSUME NEW n \in DOMAIN events', n \notin DOMAIN events
               PROVE  /\ events'[n].docs = cache'[asks[events'[n].to]]
                      /\ events'[n] \in Events
    BY <1>6, <1>7
  <2>1. n - Len(events) \in 1..c /\ events'[n] = more[n - Len(events)]
    BY <1>6, <1>7
  <2> QED BY <1>3, <2>1
<1>10. \A q \in Targets : cache[q] \in Int /\ cache'[q] \in Int
  BY DEF ReadsInv, ReadsTypes, Versions
<1>11. \A n \in DOMAIN events : /\ events[n].docs \in Int
                                /\ events[n].to \in Listeners
                                /\ asks[events[n].to] \in Targets
  BY <1>7, <1>8 DEF Events, Versions
<1>12. ToldInOrder'
  <2> SUFFICES ASSUME NEW l \in Listeners, NEW k \in DOMAIN told[l]
               PROVE  /\ told[l][k].docs <= cache'[asks[l]]
                      /\ \A n \in DOMAIN events' :
                           asks[events'[n].to] = asks[l] => told[l][k].docs <= events'[n].docs
    BY DEF ToldInOrder
  <2>1. told[l][k].docs \in Int /\ asks[l] \in Targets
    <3>1. told[l] \in Seq(Answers)
      BY DEF ReadsInv, ReadsTypes
    <3>2. told[l][k] \in Answers
      BY <3>1, LenProperties, ElementOfSeq
    <3> QED BY <3>2 DEF Answers, Versions
  <2>2. told[l][k].docs <= cache[asks[l]]
    BY DEF ReadsInv, ToldInOrder
  <2>3. told[l][k].docs <= cache'[asks[l]]
    BY <1>10, <2>1, <2>2
  <2>4. ASSUME NEW n \in DOMAIN events', asks[events'[n].to] = asks[l]
        PROVE  told[l][k].docs <= events'[n].docs
    <3>1. CASE n \in DOMAIN events /\ events'[n] = events[n]
      BY <2>4, <3>1 DEF ReadsInv, ToldInOrder
    <3>2. CASE events'[n].docs = cache'[asks[events'[n].to]]
      BY <2>3, <2>4, <3>2
    <3> QED BY <1>9, <3>1, <3>2
  <2> QED BY <2>3, <2>4
<1>13. EventsInOrder'
  <2> SUFFICES ASSUME NEW n \in DOMAIN events'
               PROVE  /\ events'[n].docs <= cache'[asks[events'[n].to]]
                      /\ \A m \in DOMAIN events' :
                           m < n /\ asks[events'[m].to] = asks[events'[n].to]
                             => events'[m].docs <= events'[n].docs
    BY DEF EventsInOrder
  <2>1. CASE n \in DOMAIN events /\ events'[n] = events[n]
    <3>1. events[n].docs <= cache[asks[events[n].to]]
      BY <2>1 DEF ReadsInv, EventsInOrder
    <3>2. events'[n].docs <= cache'[asks[events'[n].to]]
      BY <1>10, <1>11, <2>1, <3>1
    <3>3. ASSUME NEW m \in DOMAIN events', m < n, asks[events'[m].to] = asks[events'[n].to]
          PROVE  events'[m].docs <= events'[n].docs
      <4>1. m \in DOMAIN events /\ events'[m] = events[m]
        BY <1>6, <1>7, <2>1, <3>3
      <4> QED BY <2>1, <3>3, <4>1 DEF ReadsInv, EventsInOrder
    <3> QED BY <3>2, <3>3
  <2>2. CASE events'[n].docs = cache'[asks[events'[n].to]] /\ events'[n] \in Events
    <3> DEFINE q == asks[events'[n].to]
    <3>1. q \in Targets
      BY <2>2 DEF Events
    <3>2. ASSUME NEW m \in DOMAIN events', m < n, asks[events'[m].to] = q
          PROVE  events'[m].docs <= events'[n].docs
      <4>1. CASE m \in DOMAIN events /\ events'[m] = events[m]
        <5>1. events[m].docs <= cache[q]
          BY <3>2, <4>1 DEF ReadsInv, EventsInOrder
        <5> QED BY <1>10, <1>11, <2>2, <3>1, <4>1, <5>1
      <4>2. CASE events'[m].docs = cache'[asks[events'[m].to]]
        BY <1>10, <2>2, <3>1, <3>2, <4>2
      <4> QED BY <1>9, <4>1, <4>2
    <3> QED BY <1>10, <2>2, <3>1, <3>2
  <2> QED BY <1>9, <2>1, <2>2
<1> QED BY <1>6, <1>12, <1>13

\* A task of the worker queue that leaves the local store alone.
LEMMA ConnectionTaskKeeps ==
  ASSUME ReadsInv, ConnectionTask, UNCHANGED <<updates, responses>> \/ NewStream,
         state' \in [Targets -> [out : Int, current : BOOLEAN]]
  PROVE  ReadsInv'
<1> USE ReadsAssumption
<1>1. /\ UNCHANGED <<muted, told, listeners, cache, lastVersion, rows, now>>
      /\ RaiseEvents
      /\ view' = ViewsHearing(tracker'.state)
  BY DEF ConnectionTask, user, database
<1>2. ReadsTypes
  BY DEF ReadsInv
<1>3. \A q \in Targets : cache[q] \in Int /\ rows[q] \in Int /\ 0 <= rows[q]
  BY <1>2 DEF ReadsTypes, Versions
<1>4. /\ view' \in [Targets -> [docs : Versions, current : BOOLEAN]]
      /\ \A q \in Targets : view'[q].docs = view[q].docs
  BY <1>1, <1>2 DEF ViewsHearing, ReadsTypes
<1>5. ViewsShowCache'
  BY <1>1, <1>4 DEF ReadsInv, ViewsShowCache
<1>6. events' \in Seq(Events) /\ ToldInOrder' /\ EventsInOrder'
  <2>1. \A q \in Targets : cache[q] <= cache'[q]
    BY <1>1, <1>3
  <2>2. cache' \in [Targets -> Versions]
    BY <1>1, <1>2 DEF ReadsTypes
  <2> QED BY <1>1, <1>4, <1>5, <2>1, <2>2, HandedOn
<1>7. AnsweredAreMuted'
  BY <1>1 DEF ReadsInv, AnsweredAreMuted
<1>8. NothingNewer' /\ updates' \in [Targets -> Versions] /\ responses' \in Seq(Messages)
  <2>1. CASE UNCHANGED <<updates, responses>>
    BY <1>1, <1>2, <2>1 DEF ReadsInv, NothingNewer, ReadsTypes
  <2>2. CASE NewStream
    <3>1. updates' = [q \in Targets |-> 0] /\ responses' = << >>
      BY <2>2 DEF NewStream
    <3>2. 0 \in Versions
      BY DEF Versions
    <3>3. << >> \in Seq(Messages)
      BY EmptySeq
    <3>4. NothingNewer'
      BY <1>1, <1>3, <3>1 DEF ReadsInv, NothingNewer
    <3> QED BY <3>1, <3>2, <3>3, <3>4
  <2> QED BY <2>1, <2>2
<1>9. ReadsTypes'
  BY <1>1, <1>2, <1>4, <1>6, <1>8 DEF ReadsTypes
<1> QED BY <1>5, <1>6, <1>7, <1>8, <1>9 DEF ReadsInv

LEMMA PendingTyped ==
  ASSUME NEW q \in Targets, state \in [Targets -> [out : Int, current : BOOLEAN]]
  PROVE  RecordPendingTargetRequest(q) \in [Targets -> [out : Int, current : BOOLEAN]]
<1> DEFINE pending == [state[q] EXCEPT !.out = state[q].out + 1]
<1>1. pending \in [out : Int, current : BOOLEAN]
  OBVIOUS
<1>2. RecordPendingTargetRequest(q) = [state EXCEPT ![q] = pending]
  BY DEF RecordPendingTargetRequest
<1> HIDE DEF pending
<1> QED BY <1>1, <1>2

LEMMA AddQueryListenerKeeps ==
  ASSUME ReadsInv, NEW l \in Listeners, AddQueryListener(l)
  PROVE  ReadsInv'
<1> USE ReadsAssumption
<1> DEFINE q == asks[l]
<1>1. /\ UNCHANGED <<muted, told, cache, lastVersion, updates, responses, rows, now>>
      /\ state' = state \/ state' = RecordPendingTargetRequest(q)
      /\ RaiseEvents
      /\ listeners' = [listeners EXCEPT ![q] = @ \cup {l}]
      /\ \/ /\ listeners[q] = {}
            /\ view' = [view EXCEPT ![q] = [docs |-> cache[q], current |-> FALSE]]
         \/ listeners[q] # {} /\ view' = view
  BY DEF AddQueryListener, Send, wire, user, database
<1>2. ReadsTypes /\ q \in Targets
  BY DEF ReadsInv
<1>3. listeners' \in [Targets -> SUBSET Listeners]
  BY <1>1, <1>2 DEF ReadsTypes
<1>4. view' \in [Targets -> [docs : Versions, current : BOOLEAN]]
  <2>1. [docs |-> cache[q], current |-> FALSE] \in [docs : Versions, current : BOOLEAN]
    BY <1>2 DEF ReadsTypes
  <2> QED BY <1>1, <1>2, <2>1 DEF ReadsTypes
<1>5. ViewsShowCache'
  <2> SUFFICES ASSUME NEW p \in Targets, listeners'[p] # {} PROVE view'[p].docs = cache[p]
    BY <1>1 DEF ViewsShowCache
  <2>1. CASE p = q /\ listeners[q] = {}
    BY <1>1, <1>2, <2>1 DEF ReadsTypes
  <2>2. CASE ~(p = q /\ listeners[q] = {})
    <3>1. view'[p] = view[p] /\ listeners[p] # {}
      BY <1>1, <1>2, <2>2 DEF ReadsTypes
    <3> QED BY <3>1 DEF ReadsInv, ViewsShowCache
  <2> QED BY <2>1, <2>2
<1>6. events' \in Seq(Events) /\ ToldInOrder' /\ EventsInOrder'
  <2>1. \A p \in Targets : cache[p] <= cache'[p]
    BY <1>1, <1>2 DEF ReadsTypes, Versions
  <2>2. cache' \in [Targets -> Versions]
    BY <1>1, <1>2 DEF ReadsTypes
  <2> QED BY <1>1, <1>4, <1>5, <2>1, <2>2, HandedOn
<1>7. AnsweredAreMuted' /\ NothingNewer'
  BY <1>1 DEF ReadsInv, AnsweredAreMuted, NothingNewer
<1>8. state' \in [Targets -> [out : Int, current : BOOLEAN]]
  BY <1>1, <1>2, PendingTyped DEF ReadsTypes
<1>9. ReadsTypes'
  BY <1>1, <1>2, <1>3, <1>4, <1>6, <1>8 DEF ReadsTypes
<1> QED BY <1>5, <1>6, <1>7, <1>9 DEF ReadsInv

LEMMA RemoveQueryListenerKeeps ==
  ASSUME ReadsInv, NEW l \in Listeners, RemoveQueryListener(l)
  PROVE  ReadsInv'
<1> USE ReadsAssumption
<1> DEFINE q == asks[l]
<1>1. /\ UNCHANGED <<muted, told, events, cache, lastVersion, updates, responses, rows, now>>
      /\ state' = state \/ state' = RecordPendingTargetRequest(q)
      /\ listeners' = [listeners EXCEPT ![q] = @ \ {l}]
      /\ \/ /\ listeners[q] = {l}
            /\ view' = [view EXCEPT ![q] = NoView]
         \/ listeners[q] # {l} /\ view' = view
  BY DEF RemoveQueryListener, Send, wire, user, database
<1>2. ReadsTypes /\ q \in Targets
  BY DEF ReadsInv
<1>3. NoView \in [docs : Versions, current : BOOLEAN]
  BY DEF NoView, Versions
<1>4. view' \in [Targets -> [docs : Versions, current : BOOLEAN]]
  BY <1>1, <1>2, <1>3 DEF ReadsTypes
<1>5. ViewsShowCache'
  <2> SUFFICES ASSUME NEW p \in Targets, listeners'[p] # {} PROVE view'[p].docs = cache[p]
    BY <1>1 DEF ViewsShowCache
  <2>1. listeners[p] # {} /\ view'[p] = view[p]
    BY <1>1, <1>2 DEF ReadsTypes
  <2> QED BY <2>1 DEF ReadsInv, ViewsShowCache
<1>6. ReadsTypes'
  <2>1. state' \in [Targets -> [out : Int, current : BOOLEAN]]
    BY <1>1, <1>2, PendingTyped DEF ReadsTypes
  <2> QED BY <1>1, <1>2, <1>4, <2>1 DEF ReadsTypes
<1>7. AnsweredAreMuted' /\ NothingNewer' /\ ToldInOrder' /\ EventsInOrder'
  BY <1>1 DEF ReadsInv, AnsweredAreMuted, NothingNewer, ToldInOrder, EventsInOrder
<1> QED BY <1>5, <1>6, <1>7 DEF ReadsInv

LEMMA ResponseComesKeeps ==
  ASSUME ReadsInv, ResponseComes
  PROVE  ReadsInv'
<1> USE ReadsAssumption
<1>1. /\ UNCHANGED <<muted, told, listeners, rows, now>>
      /\ RaiseEvents
      /\ responses # << >> /\ responses' = Tail(responses)
  BY DEF ResponseComes, user, database
<1>2. ReadsTypes
  BY DEF ReadsInv
<1> DEFINE m == Head(responses)
<1>3. /\ m \in Messages
      /\ m.type = "Document" => m.docs <= rows[m.target]
      /\ responses' \in Seq(Messages)
      /\ \A n \in DOMAIN responses' : n + 1 \in DOMAIN responses /\ responses'[n] = responses[n + 1]
  <2>1. responses \in Seq(Messages)
    BY <1>2 DEF ReadsTypes
  <2>2. m \in Messages /\ Tail(responses) \in Seq(Messages)
        /\ Len(Tail(responses)) = Len(responses) - 1
        /\ \A n \in 1..Len(Tail(responses)) : Tail(responses)[n] = responses[n + 1]
    BY <1>1, <2>1, HeadTailProperties
  <2>3. 1 \in DOMAIN responses /\ m = responses[1]
    BY <1>1, <2>1
  <2>4. m.type = "Document" => m.docs <= rows[m.target]
    BY <2>3 DEF ReadsInv, NothingNewer
  <2>5. Len(responses) \in Nat /\ DOMAIN responses = 1..Len(responses)
    BY <2>1, LenProperties
  <2>6. DOMAIN Tail(responses) = 1..Len(Tail(responses))
    BY <2>2, LenProperties
  <2> QED BY <1>1, <2>2, <2>4, <2>5, <2>6
<1>4. \A q \in Targets : /\ cache[q] \in Int /\ updates[q] \in Int /\ rows[q] \in Int
                         /\ 0 <= rows[q]
                         /\ updates[q] \in Versions
                         /\ updates[q] <= rows[q] /\ cache[q] <= rows[q] /\ rows[q] <= now
  BY <1>2 DEF ReadsTypes, Versions, ReadsInv, NothingNewer
<1>5. /\ cache' \in [Targets -> Versions]
      /\ updates' \in [Targets -> Versions]
      /\ view' \in [Targets -> [docs : Versions, current : BOOLEAN]]
      /\ \A q \in Targets : cache[q] <= cache'[q] /\ cache'[q] <= rows[q] /\ updates'[q] <= rows[q]
      /\ ViewsShowCache'
      /\ lastVersion' \in Versions
  <2> lastVersion \in Int /\ m.docs \in Int /\ m.docs \in Versions
    BY <1>2, <1>3 DEF ReadsTypes, Messages, Versions
  <2>1. CASE m.type = "Snapshot" /\ MayRaise(m.docs)
    <3>1. /\ cache' = [q \in Targets |-> Newer(cache[q], updates[q])]
          /\ updates' = [q \in Targets |-> 0]
          /\ view' = [q \in Targets |->
                IF listeners[q] = {} THEN view[q]
                ELSE [docs |-> cache'[q],
                      current |-> IF IsActiveTarget(q) THEN state[q].current
                                                       ELSE view[q].current]]
          /\ lastVersion' = m.docs
      BY <2>1 DEF ResponseComes, RaiseWatchSnapshot
    <3> HIDE DEF m
    <3>2. \A q \in Targets : /\ Newer(cache[q], updates[q]) \in Versions
                             /\ cache[q] <= Newer(cache[q], updates[q])
                             /\ Newer(cache[q], updates[q]) <= rows[q]
      BY <1>2, <1>4 DEF Newer, ReadsTypes
    <3>3. /\ cache' \in [Targets -> Versions]
          /\ \A q \in Targets : cache[q] <= cache'[q] /\ cache'[q] <= rows[q]
      BY <3>1, <3>2
    <3>4. /\ updates' \in [Targets -> Versions]
          /\ \A q \in Targets : updates'[q] <= rows[q]
      BY <1>4, <3>1 DEF Versions
    <3>5. /\ view' \in [Targets -> [docs : Versions, current : BOOLEAN]]
          /\ ViewsShowCache'
      <4>1. \A q \in Targets :
              /\ view'[q] \in [docs : Versions, current : BOOLEAN]
              /\ listeners[q] # {} => view'[q].docs = cache'[q]
        BY <1>2, <3>1, <3>3 DEF ReadsTypes
      <4> QED BY <1>1, <3>1, <4>1 DEF ViewsShowCache
    <3> QED BY <3>1, <3>3, <3>4, <3>5
  <2>2. CASE m.type = "Snapshot" /\ ~MayRaise(m.docs)
    <3>1. UNCHANGED <<view, cache, updates, lastVersion>>
      BY <2>2 DEF ResponseComes, RaiseWatchSnapshot
    <3> QED
      BY <1>1, <1>2, <1>4, <3>1 DEF ReadsTypes, ReadsInv, ViewsShowCache
  <2>3. CASE m.type # "Snapshot"
    <3>1. UNCHANGED <<view, cache, lastVersion>> /\ HandleDocumentChange(m)
      BY <2>3 DEF ResponseComes
    <3>2. \/ updates' = updates
          \/ m.type = "Document" /\ updates' = [updates EXCEPT ![m.target] = m.docs]
      BY <3>1 DEF HandleDocumentChange
    <3>3. m.target \in Targets /\ m.docs \in Versions
      BY <1>3 DEF Messages
    <3> HIDE DEF m
    <3>4. updates' \in [Targets -> Versions]
      BY <1>2, <3>2, <3>3 DEF ReadsTypes
    <3>5. \A q \in Targets : updates'[q] <= rows[q]
      BY <1>2, <1>3, <1>4, <3>2, <3>3 DEF ReadsTypes
    <3> QED
      BY <1>1, <1>2, <1>4, <3>1, <3>4, <3>5 DEF ReadsTypes, ReadsInv, ViewsShowCache
  <2> QED BY <2>1, <2>2, <2>3
<1> HIDE DEF m
<1>6. events' \in Seq(Events) /\ ToldInOrder' /\ EventsInOrder'
  BY <1>1, <1>5, HandedOn
<1>7. AnsweredAreMuted'
  BY <1>1 DEF ReadsInv, AnsweredAreMuted
<1>8. NothingNewer'
  BY <1>1, <1>3, <1>4, <1>5 DEF ReadsInv, NothingNewer
<1>9. state' \in [Targets -> [out : Int, current : BOOLEAN]]
  <2>1. state' = state \/ HandleTargetChange(m)
    BY DEF ResponseComes, m
  <2>2. m.target \in Targets
    BY <1>3 DEF Messages
  <2>3. state[m.target] \in [out : Int, current : BOOLEAN]
    BY <1>2, <2>2 DEF ReadsTypes
  <2> DEFINE answered == [state[m.target] EXCEPT !.out = @ - 1]
  <2>4. answered \in [out : Int, current : BOOLEAN]
    BY <2>3
  <2>5. CASE HandleTargetChange(m)
    <3>1. PICK s \in [out : Int, current : BOOLEAN] : state' = [state EXCEPT ![m.target] = s]
      <4>1. NewState \in [out : Int, current : BOOLEAN]
        BY DEF NewState
      <4>2. [state[m.target] EXCEPT !.current = TRUE] \in [out : Int, current : BOOLEAN]
        BY <2>3
      <4> QED BY <2>3, <2>4, <2>5, <4>1, <4>2 DEF HandleTargetChange
    <3> QED BY <1>2, <2>2, <3>1 DEF ReadsTypes
  <2> QED BY <1>2, <2>1, <2>5 DEF ReadsTypes
<1>10. ReadsTypes'
  BY <1>1, <1>2, <1>3, <1>5, <1>6, <1>9 DEF ReadsTypes
<1> QED BY <1>5, <1>6, <1>7, <1>8, <1>10 DEF ReadsInv

\* An event that is run leaves the executor; if somebody hears it, it is told.
LEMMA OnEventKeeps ==
  ASSUME ReadsInv, OnEvent
  PROVE  ReadsInv' /\ [Pages!Next]_<<rows, told>>
<1> USE ReadsAssumption
<1> DEFINE e == Head(events)
           l == e.to
           heard == [docs |-> e.docs, fromCache |-> e.fromCache]
<1>1. /\ UNCHANGED <<listeners, view, cache, lastVersion, state, updates, responses, rows, now>>
      /\ events # << >> /\ events' = Tail(events)
  BY DEF OnEvent, client, wire, database
<1>2. ReadsTypes
  BY DEF ReadsInv
<1>3. /\ e \in Events /\ e = events[1] /\ 1 \in DOMAIN events
      /\ events' \in Seq(Events)
      /\ \A n \in DOMAIN events' : n + 1 \in DOMAIN events /\ events'[n] = events[n + 1]
  <2>1. events \in Seq(Events)
    BY <1>2 DEF ReadsTypes
  <2>2. e \in Events /\ Tail(events) \in Seq(Events)
        /\ Len(Tail(events)) = Len(events) - 1
        /\ \A n \in 1..Len(Tail(events)) : Tail(events)[n] = events[n + 1]
    BY <1>1, <2>1, HeadTailProperties
  <2>3. 1 \in DOMAIN events /\ e = events[1]
    BY <1>1, <2>1
  <2>4. Len(events) \in Nat /\ DOMAIN events = 1..Len(events)
    BY <2>1, LenProperties
  <2>5. DOMAIN Tail(events) = 1..Len(Tail(events))
    BY <2>2, LenProperties
  <2> QED BY <1>1, <2>2, <2>3, <2>4, <2>5
<1>4. l \in Listeners /\ asks[l] \in Targets /\ heard \in Answers /\ heard.docs = e.docs
  BY <1>3 DEF Events, Answers
<1>5. \/ UNCHANGED <<told, muted>>
      \/ l \in Gets \ muted /\ told' = [told EXCEPT ![l] = Append(@, heard)] /\ muted' = muted \cup {l}
      \/ l \in Lives /\ told' = [told EXCEPT ![l] = <<heard>>] /\ UNCHANGED muted
  BY DEF OnEvent, RemoveListener
<1> HIDE DEF e, heard
<1>6. l \in Gets \ muted => told[l] = << >>
  BY DEF ReadsInv, AnsweredAreMuted
<1> DEFINE L == l
<1>7. Append(<< >>, heard) = <<heard>>
  OBVIOUS
<1>8. \/ UNCHANGED <<told, muted>>
      \/ /\ told' = [told EXCEPT ![L] = <<heard>>]
         /\ L \in Gets => told[L] = << >> /\ muted' = muted \cup {L}
         /\ L \notin Gets => muted' = muted
  BY <1>4, <1>2, <1>5, <1>6, <1>7 DEF ReadsTypes
<1>9. /\ L \in Listeners /\ asks[L] \in Targets /\ heard \in Answers /\ heard.docs \in Int
      /\ heard.docs = events[1].docs /\ L = events[1].to
  BY <1>3, <1>4 DEF Answers, Versions
<1>10. \A n \in DOMAIN events : n \in Nat /\ 1 <= n
  BY <1>2, LenProperties DEF ReadsTypes
<1>11. \A n \in DOMAIN events' : n \in Nat /\ 1 <= n
  BY <1>3, LenProperties
<1> HIDE DEF L
<1>12. \A k \in Listeners : \A n \in DOMAIN told[k] :
         asks[k] = asks[L] => told[k][n].docs <= heard.docs
  BY <1>3, <1>9 DEF ReadsInv, ToldInOrder
<1>13. /\ heard.docs <= cache[asks[L]]
       /\ \A n \in DOMAIN events' : asks[events'[n].to] = asks[L] => heard.docs <= events'[n].docs
  <2>1. heard.docs <= cache[asks[L]]
    BY <1>3, <1>9 DEF ReadsInv, EventsInOrder
  <2>2. ASSUME NEW n \in DOMAIN events', asks[events'[n].to] = asks[L]
        PROVE  heard.docs <= events'[n].docs
    <3>1. n + 1 \in DOMAIN events /\ events'[n] = events[n + 1] /\ 1 < n + 1
      BY <1>3, <1>11
    <3> QED BY <1>3, <1>9, <2>2, <3>1 DEF ReadsInv, EventsInOrder
  <2> QED BY <2>1, <2>2
<1>14. heard.docs <= rows[asks[L]]
  <2>1. cache[asks[L]] <= rows[asks[L]]
    BY <1>9 DEF ReadsInv, NothingNewer
  <2>2. cache[asks[L]] \in Int /\ rows[asks[L]] \in Int
    BY <1>2, <1>9 DEF ReadsTypes, Versions
  <2> QED BY <1>9, <1>13, <2>1, <2>2
<1>15. EventsInOrder'
  <2>1. ASSUME NEW n \in DOMAIN events'
        PROVE  events'[n].docs <= cache[asks[events'[n].to]]
    BY <1>3 DEF ReadsInv, EventsInOrder
  <2>2. ASSUME NEW n \in DOMAIN events', NEW m \in DOMAIN events', m < n,
               asks[events'[m].to] = asks[events'[n].to]
        PROVE  events'[m].docs <= events'[n].docs
    <3>1. /\ n + 1 \in DOMAIN events /\ events'[n] = events[n + 1]
          /\ m + 1 \in DOMAIN events /\ events'[m] = events[m + 1]
          /\ m + 1 < n + 1
      BY <1>3, <1>11, <2>2
    <3> QED BY <2>2, <3>1 DEF ReadsInv, EventsInOrder
  <2> QED BY <1>1, <2>1, <2>2 DEF EventsInOrder
<1>16. \A k \in Listeners : \A i \in DOMAIN told[k] :
         /\ told[k][i].docs <= cache[asks[k]]
         /\ \A n \in DOMAIN events' :
              asks[events'[n].to] = asks[k] => told[k][i].docs <= events'[n].docs
  BY <1>3 DEF ReadsInv, ToldInOrder
<1>17. NothingNewer' /\ ViewsShowCache'
  BY <1>1 DEF ReadsInv, NothingNewer, ViewsShowCache
<1>18. CASE UNCHANGED <<told, muted>>
  <2>1. AnsweredAreMuted' /\ ToldInOrder'
    BY <1>1, <1>16, <1>18 DEF ReadsInv, AnsweredAreMuted, ToldInOrder
  <2>2. ReadsTypes'
    BY <1>1, <1>2, <1>3, <1>18 DEF ReadsTypes
  <2> QED BY <1>1, <1>15, <1>17, <1>18, <2>1, <2>2 DEF ReadsInv
<1>19. CASE /\ told' = [told EXCEPT ![L] = <<heard>>]
            /\ L \in Gets => told[L] = << >> /\ muted' = muted \cup {L}
            /\ L \notin Gets => muted' = muted
  <2>1. <<heard>> \in Seq(Answers) /\ DOMAIN <<heard>> = {1} /\ <<heard>>[1] = heard
    BY <1>9
  <2>2. told' \in [Listeners -> Seq(Answers)]
    BY <1>2, <1>19, <2>1 DEF ReadsTypes
  <2>3. ReadsTypes'
    BY <1>1, <1>2, <1>3, <2>2 DEF ReadsTypes
  <2>4. \A k \in Listeners : told'[k] = IF k = L THEN <<heard>> ELSE told[k]
    BY <1>2, <1>19 DEF ReadsTypes
  <2>5. AnsweredAreMuted'
    BY <1>19, <2>4 DEF ReadsInv, AnsweredAreMuted, Listeners
  <2>6. ToldInOrder'
    <3> SUFFICES ASSUME NEW k \in Listeners, NEW i \in DOMAIN told'[k]
                 PROVE  /\ told'[k][i].docs <= cache[asks[k]]
                        /\ \A n \in DOMAIN events' :
                             asks[events'[n].to] = asks[k] => told'[k][i].docs <= events'[n].docs
      BY <1>1 DEF ToldInOrder
    <3>1. CASE k = L
      BY <1>13, <2>1, <2>4, <3>1
    <3>2. CASE k # L
      BY <1>16, <2>4, <3>2
    <3> QED BY <3>1, <3>2
  <2>7. Pages!Tell(L, heard)
    BY <1>1, <1>7, <1>12, <1>14, <1>19, <1>9
       DEF Pages!Tell, Pages!Heard, Pages!Listeners, Listeners
  <2>8. Pages!Next
    BY <1>9, <2>7 DEF Pages!Next, Pages!Listeners, Pages!Events, Listeners, Answers, Versions
  <2> QED BY <1>15, <1>17, <2>3, <2>5, <2>6, <2>8 DEF ReadsInv
<1> QED BY <1>8, <1>18, <1>19

\* The database is written, and the backend may say so.
LEMMA PublishKeeps ==
  ASSUME ReadsInv, NEW q \in Targets, Publish(q)
  PROVE  ReadsInv' /\ Pages!Next
<1> USE ReadsAssumption
<1>1. /\ UNCHANGED <<muted, told, events, listeners, view, cache, lastVersion, state, updates>>
      /\ now < MaxVersion /\ now' = now + 1
      /\ rows' = [rows EXCEPT ![q] = now']
  BY DEF Publish, user, client
<1>2. ReadsTypes
  BY DEF ReadsInv
<1>3. now \in Nat /\ now' \in Versions /\ rows[q] \in Versions /\ rows[q] <= now
  BY <1>1, <1>2 DEF ReadsTypes, Versions, ReadsInv, NothingNewer
<1>4. \A p \in Targets :
        /\ rows[p] \in Int /\ rows'[p] \in Int /\ rows[p] <= rows'[p] /\ rows'[p] <= now'
        /\ updates[p] \in Int /\ cache[p] \in Int
        /\ updates[p] <= rows[p] /\ cache[p] <= rows[p]
  <2>1. \A p \in Targets : rows[p] \in Versions /\ rows[p] <= now /\ rows[p] \in Int
    BY <1>2 DEF ReadsTypes, Versions, ReadsInv, NothingNewer
  <2>2. \A p \in Targets : updates[p] \in Int /\ cache[p] \in Int
                           /\ updates[p] <= rows[p] /\ cache[p] <= rows[p]
    BY <1>2 DEF ReadsTypes, Versions, ReadsInv, NothingNewer
  <2>3. \A p \in Targets : rows'[p] = IF p = q THEN now' ELSE rows[p]
    BY <1>1, <1>2 DEF ReadsTypes
  <2> QED BY <1>1, <1>3, <2>1, <2>2, <2>3
<1>5. rows' \in [Targets -> Versions]
  BY <1>1, <1>2, <1>3 DEF ReadsTypes
<1>6. responses \in Seq(Messages)
      /\ \A n \in DOMAIN responses : /\ responses[n] \in Messages
                                     /\ responses[n].type = "Document" =>
                                          responses[n].docs <= rows[responses[n].target]
  BY <1>2, LenProperties, ElementOfSeq DEF ReadsTypes, ReadsInv, NothingNewer
<1> DEFINE more == << Message("Document", q, now'), Message("Snapshot", q, now') >>
<1>7. /\ responses' \in Seq(Messages)
      /\ \A n \in DOMAIN responses' : \/ n \in DOMAIN responses /\ responses'[n] = responses[n]
                                      \/ /\ responses'[n].docs = now'
                                         /\ responses'[n].target = q
  <2>1. CASE q \in serving
    <3>1. more[1] \in Messages /\ more[2] \in Messages
      BY <1>3 DEF Message, Messages
    <3>2. more \in Seq(Messages) /\ Len(more) = 2
      BY <3>1
    <3>3. \A n \in 1..2 : more[n].docs = now' /\ more[n].target = q
      BY DEF Message
    <3>4. responses' = responses \o more
      BY <2>1 DEF Publish
    <3> HIDE DEF more
    <3>5. Len(responses) \in Nat /\ DOMAIN responses = 1..Len(responses)
      BY <1>6, LenProperties
    <3>6. /\ responses' \in Seq(Messages)
          /\ Len(responses') = Len(responses) + 2
          /\ \A n \in 1..(Len(responses) + 2) :
               responses'[n] = IF n <= Len(responses) THEN responses[n]
                                                      ELSE more[n - Len(responses)]
      <4>1. responses \in Seq(Messages)
        BY <1>6
      <4>2. Len(more) = 2 /\ more \in Seq(Messages)
        BY <3>2
      <4>3. /\ responses \o more \in Seq(Messages)
            /\ Len(responses \o more) = Len(responses) + Len(more)
            /\ \A n \in 1..(Len(responses) + Len(more)) :
                 (responses \o more)[n] = IF n <= Len(responses) THEN responses[n]
                                                    ELSE more[n - Len(responses)]
        BY <4>1, <4>2, ConcatProperties
      <4> QED BY <3>4, <4>2, <4>3
    <3>7. DOMAIN responses' = 1..(Len(responses) + 2)
      BY <3>6, LenProperties
    <3>8. ASSUME NEW n \in DOMAIN responses', n \notin DOMAIN responses
          PROVE  responses'[n].docs = now' /\ responses'[n].target = q
      <4>1. n - Len(responses) \in 1..2 /\ responses'[n] = more[n - Len(responses)]
        BY <3>5, <3>6, <3>7, <3>8
      <4> QED BY <3>3, <4>1
    <3>9. \A n \in DOMAIN responses' : n \in DOMAIN responses => responses'[n] = responses[n]
      BY <3>5, <3>6, <3>7
    <3> QED BY <3>6, <3>8, <3>9
  <2>2. CASE q \notin serving
    BY <1>6, <2>2 DEF Publish
  <2> QED BY <2>1, <2>2
<1>8. NothingNewer'
  <2>1. ASSUME NEW n \in DOMAIN responses', responses'[n].type = "Document"
        PROVE  responses'[n].docs <= rows'[responses'[n].target]
    <3>1. CASE n \in DOMAIN responses /\ responses'[n] = responses[n]
      <4>1. /\ responses[n].target \in Targets /\ responses[n].docs \in Int
            /\ responses[n].docs <= rows[responses[n].target]
        BY <1>6, <2>1, <3>1 DEF Messages, Versions
      <4> QED BY <1>4, <3>1, <4>1
    <3>2. CASE responses'[n].docs = now' /\ responses'[n].target = q
      BY <1>1, <1>2, <1>3, <3>2 DEF ReadsTypes, Versions
    <3> QED BY <1>7, <3>1, <3>2
  <2>2. \A p \in Targets : updates'[p] <= rows'[p] /\ cache'[p] <= rows'[p]
    BY <1>1, <1>4
  <2> QED BY <1>4, <2>1, <2>2 DEF NothingNewer
<1>9. AnsweredAreMuted' /\ ViewsShowCache' /\ ToldInOrder' /\ EventsInOrder'
  BY <1>1 DEF ReadsInv, AnsweredAreMuted, ViewsShowCache, ToldInOrder, EventsInOrder
<1>10. ReadsTypes'
  BY <1>1, <1>2, <1>3, <1>5, <1>7 DEF ReadsTypes
<1>11. Pages!Publish(q)
  <2>1. now' \in (rows[q] + 1)..MaxVersion
    BY <1>1, <1>3 DEF Versions
  <2> QED BY <1>1, <2>1 DEF Pages!Publish
<1> QED BY <1>8, <1>9, <1>10, <1>11 DEF ReadsInv, Pages!Next

\* The backend answers a request with what the database has.
LEMMA BackendAnswersKeeps ==
  ASSUME ReadsInv, BackendAnswers
  PROVE  ReadsInv'
<1> USE ReadsAssumption
<1>1. UNCHANGED <<muted, told, events, listeners, view, cache, lastVersion, state, updates,
                  rows, now>>
  BY DEF BackendAnswers, user, client, database
<1>2. ReadsTypes
  BY DEF ReadsInv
<1>3. \A p \in Targets : rows[p] \in Versions /\ rows[p] <= now
  BY <1>2 DEF ReadsTypes, ReadsInv, NothingNewer
<1>4. 0 \in Versions /\ now \in Versions
  BY <1>2 DEF ReadsTypes, Versions
<1>5. PICK more \in Seq(Messages) :
        /\ responses' = responses \o more
        /\ \A n \in DOMAIN more : more[n].type = "Document" =>
                                    more[n].docs <= rows[more[n].target]
  <2>1. PICK q \in Targets :
          \/ responses' = responses \o
               << Message("Added", q, 0), Message("Document", q, rows[q]),
                  Message("Current", q, 0), Message("Snapshot", q, now) >>
          \/ responses' = Append(responses, Message("Removed", q, 0))
    BY DEF BackendAnswers
  <2>2. \A type \in {"Added", "Removed", "Current"} :
          Message(type, q, 0) \in Messages /\ Message(type, q, 0).type # "Document"
    BY <1>4 DEF Message, Messages
  <2>3. Message("Snapshot", q, now) \in Messages /\ Message("Snapshot", q, now).type # "Document"
    BY <1>4 DEF Message, Messages
  <2>4. /\ Message("Document", q, rows[q]) \in Messages
        /\ Message("Document", q, rows[q]).docs = rows[q]
        /\ Message("Document", q, rows[q]).target = q
    BY <1>3 DEF Message, Messages
  <2>5. rows[q] \in Int
    BY <1>3 DEF Versions
  <2> DEFINE a == Message("Added", q, 0)
             d == Message("Document", q, rows[q])
             c == Message("Current", q, 0)
             s == Message("Snapshot", q, now)
             r == Message("Removed", q, 0)
  <2>6. CASE responses' = responses \o <<a, d, c, s>>
    <3>1. /\ {a, d, c, s} \subseteq Messages
          /\ \A x \in {a, d, c, s} : x.type = "Document" => x.docs <= rows[x.target]
      BY <2>2, <2>3, <2>4, <2>5
    <3> HIDE DEF a, d, c, s
    <3> DEFINE more == <<a, d, c, s>>
    <3>2. more \in Seq(Messages) /\ DOMAIN more = 1..4 /\ \A n \in 1..4 : more[n] \in {a, d, c, s}
      BY <3>1
    <3>3. responses' = responses \o more
      BY <2>6
    <3> HIDE DEF more
    <3>4. \A n \in DOMAIN more : more[n].type = "Document" =>
                                 more[n].docs <= rows[more[n].target]
      BY <3>1, <3>2
    <3> QED BY <3>2, <3>3, <3>4
  <2>7. CASE responses' = Append(responses, r)
    <3>1. r \in Messages /\ r.type # "Document"
      BY <2>2
    <3> HIDE DEF r
    <3> DEFINE more == <<r>>
    <3>2. more \in Seq(Messages) /\ DOMAIN more = {1} /\ more[1] = r
      BY <3>1
    <3>3. responses' = responses \o more
      BY <1>2, <2>7, <3>1, AppendIsConcat DEF ReadsTypes
    <3> HIDE DEF more
    <3> QED BY <3>1, <3>2, <3>3
  <2> QED BY <2>1, <2>6, <2>7
<1>6. responses \in Seq(Messages)
  BY <1>2 DEF ReadsTypes
<1>7. /\ responses' \in Seq(Messages)
      /\ Len(responses') = Len(responses) + Len(more)
      /\ \A n \in 1..(Len(responses) + Len(more)) :
           responses'[n] = IF n <= Len(responses) THEN responses[n]
                                                  ELSE more[n - Len(responses)]
  BY <1>5, <1>6, ConcatProperties
<1>8. NothingNewer'
  <2>1. /\ Len(responses) \in Nat /\ DOMAIN responses = 1..Len(responses)
        /\ Len(more) \in Nat /\ DOMAIN more = 1..Len(more)
        /\ DOMAIN responses' = 1..Len(responses')
    BY <1>5, <1>6, <1>7, LenProperties
  <2>2. ASSUME NEW n \in DOMAIN responses', responses'[n].type = "Document"
        PROVE  responses'[n].docs <= rows[responses'[n].target]
    <3>1. CASE n <= Len(responses)
      <4>1. n \in DOMAIN responses /\ responses'[n] = responses[n]
        BY <1>7, <2>1, <3>1
      <4> QED BY <2>2, <4>1 DEF ReadsInv, NothingNewer
    <3>2. CASE ~(n <= Len(responses))
      <4>1. n - Len(responses) \in DOMAIN more /\ responses'[n] = more[n - Len(responses)]
        BY <1>7, <2>1, <3>2
      <4> QED BY <1>5, <2>2, <4>1
    <3> QED BY <3>1, <3>2
  <2> QED BY <1>1, <2>2 DEF ReadsInv, NothingNewer
<1>9. AnsweredAreMuted' /\ ViewsShowCache' /\ ToldInOrder' /\ EventsInOrder'
  BY <1>1 DEF ReadsInv, AnsweredAreMuted, ViewsShowCache, ToldInOrder, EventsInOrder
<1>10. ReadsTypes'
  BY <1>1, <1>2, <1>7 DEF ReadsTypes
<1> QED BY <1>8, <1>9, <1>10 DEF ReadsInv

\* What each step makes of the invariant and of what the pages see.
LEMMA ReadsStep == ReadsInv /\ [Next]_vars => ReadsInv' /\ [Pages!Next]_<<rows, told>>
<1> SUFFICES ASSUME ReadsInv, [Next]_vars PROVE ReadsInv' /\ [Pages!Next]_<<rows, told>>
  OBVIOUS
<1> USE ReadsAssumption
<1>1. ASSUME NEW l \in Listeners, AddQueryListener(l)
      PROVE  ReadsInv' /\ UNCHANGED <<rows, told>>
  BY <1>1, AddQueryListenerKeeps DEF AddQueryListener, user, database
<1>2. ASSUME NEW l \in Listeners, RemoveQueryListener(l)
      PROVE  ReadsInv' /\ UNCHANGED <<rows, told>>
  BY <1>2, RemoveQueryListenerKeeps DEF RemoveQueryListener, user, database
<1>3. CASE StreamOpens \/ StreamIdles \/ OnlineTimerFires \/ BackoffEnds \/ Fault
  <2>1. ConnectionTask /\ (UNCHANGED <<updates, responses>> \/ NewStream)
    BY <1>3 DEF StreamOpens, StreamIdles, OnlineTimerFires, BackoffEnds, Fault, wire
  <2>2. state' \in [Targets -> [out : Int, current : BOOLEAN]]
    <3>1. /\ [out |-> 0, current |-> FALSE] \in [out : Int, current : BOOLEAN]
          /\ [out |-> 1, current |-> FALSE] \in [out : Int, current : BOOLEAN]
      OBVIOUS
    <3>2. NewState = [out |-> 0, current |-> FALSE]
      BY DEF NewState
    <3> QED BY <1>3, <3>1, <3>2 DEF StreamOpens, StreamIdles, OnlineTimerFires, BackoffEnds, Fault, wire,
                              NewStream, ReadsInv, ReadsTypes
  <2> QED BY <2>1, <2>2, ConnectionTaskKeeps DEF ConnectionTask, user, database
<1>4. CASE ResponseComes
  BY <1>4, ResponseComesKeeps DEF ResponseComes, user, database
<1>5. CASE BackendAnswers
  BY <1>5, BackendAnswersKeeps DEF BackendAnswers, user, database
<1>6. CASE OnEvent
  BY <1>6, OnEventKeeps
<1>7. ASSUME NEW q \in Targets, Publish(q) PROVE ReadsInv' /\ Pages!Next
  BY <1>7, PublishKeeps
<1>8. CASE User \/ UNCHANGED vars
  <2>1. /\ UNCHANGED <<told, events, listeners, view, cache, lastVersion, state, updates,
                       responses, rows, now>>
        /\ muted \subseteq muted'
    BY <1>8 DEF User, AddSnapshotListener, StopLive, RemoveListener, vars, user, client, wire, database
  <2> QED BY <2>1 DEF ReadsInv, ReadsTypes, AnsweredAreMuted, NothingNewer, ViewsShowCache,
                      ToldInOrder, EventsInOrder
<1> QED BY <1>1, <1>2, <1>3, <1>4, <1>5, <1>6, <1>7, <1>8 DEF Next, Client, Network

\* Whatever the network does, for any queries, readers and faults: a get is answered
\* at most once, and no page is told of an older version of a query than it or
\* another reader of that query has been told of.
THEOREM ReadsKeepReading == SilentSpec => KeepsReading
<1>1. Init => ReadsInv /\ Pages!Init
  BY ReadsStart DEF Init, Pages!Init, Pages!Listeners, Listeners
<1>2. ReadsInv /\ [Next]_vars => ReadsInv' /\ [Pages!Next]_<<rows, told>>
  BY ReadsStep
<1> QED BY <1>1, <1>2, PTL DEF SilentSpec, KeepsReading, Pages!Spec

-----------------------------------------------------------------------------
(***************************************************************************)
(* Counting what is on the wire: the places of a sequence that hold        *)
(* members of a set.                                                       *)
(***************************************************************************)
Places(s, S) == {n \in DOMAIN s : s[n] \in S}
Count(s, S) == Cardinality(Places(s, S))

LEMMA CountIsNat ==
  ASSUME NEW T, NEW s \in Seq(T), NEW S
  PROVE  /\ Places(s, S) \subseteq 1..Len(s)
         /\ IsFiniteSet(Places(s, S))
         /\ Count(s, S) \in Nat
         /\ Count(s, S) = 0 <=> Places(s, S) = {}
<1>1. Len(s) \in Nat /\ DOMAIN s = 1..Len(s)
  BY LenProperties
<1>2. Places(s, S) \subseteq 1..Len(s)
  BY <1>1 DEF Places
<1>3. IsFiniteSet(Places(s, S))
  <2>1. IsFiniteSet(1..Len(s))
    BY <1>1, FS_Interval
  <2> QED BY <1>2, <2>1, FS_Subset
<1> QED BY <1>2, <1>3, FS_CardinalityType, FS_EmptySet DEF Count

LEMMA CountEmpty ==
  ASSUME NEW S
  PROVE  Places(<< >>, S) = {} /\ Count(<< >>, S) = 0
<1>1. Places(<< >>, S) = {}
  BY DEF Places
<1> QED BY <1>1, FS_EmptySet DEF Count

LEMMA PlacesConcat ==
  ASSUME NEW T, NEW s \in Seq(T), NEW t \in Seq(T), NEW S, NEW n \in Int
  PROVE  n \in Places(s \o t, S) <=> n \in Places(s, S) \/ n - Len(s) \in Places(t, S)
<1>1. /\ Len(s) \in Nat /\ DOMAIN s = 1..Len(s)
      /\ Len(t) \in Nat /\ DOMAIN t = 1..Len(t)
  BY LenProperties
<1>2. /\ s \o t \in Seq(T)
      /\ Len(s \o t) = Len(s) + Len(t)
      /\ \A i \in 1..(Len(s) + Len(t)) :
           (s \o t)[i] = IF i <= Len(s) THEN s[i] ELSE t[i - Len(s)]
  BY ConcatProperties
<1>3. DOMAIN (s \o t) = 1..(Len(s) + Len(t))
  BY <1>2, LenProperties
<1>4. CASE n \in 1..Len(s)
  BY <1>1, <1>2, <1>3, <1>4 DEF Places
<1>5. CASE n - Len(s) \in 1..Len(t)
  BY <1>1, <1>2, <1>3, <1>5 DEF Places
<1>6. CASE n \notin 1..Len(s) /\ n - Len(s) \notin 1..Len(t)
  BY <1>1, <1>3, <1>6 DEF Places
<1> QED BY <1>4, <1>5, <1>6

LEMMA CountConcat ==
  ASSUME NEW T, NEW s \in Seq(T), NEW t \in Seq(T), NEW S
  PROVE  Count(s \o t, S) = Count(s, S) + Count(t, S)
<1> DEFINE shifted == {n + Len(s) : n \in Places(t, S)}
<1>1. /\ Len(s) \in Nat
      /\ Places(s, S) \subseteq 1..Len(s) /\ Places(t, S) \subseteq 1..Len(t)
      /\ IsFiniteSet(Places(s, S)) /\ IsFiniteSet(Places(t, S))
      /\ Count(s, S) \in Nat /\ Count(t, S) \in Nat
  BY CountIsNat, LenProperties
<1>2. s \o t \in Seq(T) /\ Places(s \o t, S) \subseteq 1..Len(s \o t)
  <2>1. s \o t \in Seq(T)
    BY ConcatProperties
  <2> QED BY <2>1, CountIsNat
<1>3. Places(s \o t, S) = Places(s, S) \cup shifted
  <2>1. ASSUME NEW n \in Places(s \o t, S) PROVE n \in Places(s, S) \cup shifted
    <3>1. n \in Int
      BY <1>2, LenProperties
    <3>2. n \in Places(s, S) \/ n - Len(s) \in Places(t, S)
      BY <2>1, <3>1, PlacesConcat
    <3>3. n = (n - Len(s)) + Len(s)
      BY <1>1, <3>1
    <3> QED BY <3>2, <3>3
  <2>2. ASSUME NEW n \in Places(s, S) PROVE n \in Places(s \o t, S)
    <3>1. n \in Int
      BY <1>1
    <3> QED BY <3>1, PlacesConcat
  <2>3. ASSUME NEW n \in Places(t, S) PROVE n + Len(s) \in Places(s \o t, S)
    <3>1. n + Len(s) \in Int /\ (n + Len(s)) - Len(s) = n
      BY <1>1
    <3> QED BY <2>3, <3>1, PlacesConcat
  <2> QED BY <2>1, <2>2, <2>3
<1>4. Places(s, S) \cap shifted = {}
  BY <1>1
<1>5. IsFiniteSet(shifted) /\ Cardinality(shifted) = Count(t, S)
  <2> DEFINE f == [n \in Places(t, S) |-> n + Len(s)]
  <2>1. f \in [Places(t, S) -> shifted]
    OBVIOUS
  <2>2. \A m, n \in Places(t, S) : f[m] = f[n] => m = n
    BY <1>1
  <2>3. \A x \in shifted : \E n \in Places(t, S) : f[n] = x
    OBVIOUS
  <2>4. f \in Bijection(Places(t, S), shifted)
    BY <2>1, <2>2, <2>3 DEF Bijection, Injection, Surjection, IsInjective
  <2>5. ExistsBijection(Places(t, S), shifted)
    BY <2>4 DEF ExistsBijection
  <2> QED BY <1>1, <2>5, FS_Bijection DEF Count
<1>6. Cardinality(Places(s \o t, S)) =
        Cardinality(Places(s, S)) + Cardinality(shifted) - Cardinality({})
  BY <1>1, <1>3, <1>4, <1>5, FS_Union
<1> QED BY <1>1, <1>5, <1>6, FS_EmptySet DEF Count

LEMMA CountSingle ==
  ASSUME NEW e, NEW S
  PROVE  /\ Places(<<e>>, S) = IF e \in S THEN {1} ELSE {}
         /\ Count(<<e>>, S) = IF e \in S THEN 1 ELSE 0
<1>1. Places(<<e>>, S) = IF e \in S THEN {1} ELSE {}
  BY DEF Places
<1> QED BY <1>1, FS_EmptySet, FS_Singleton DEF Count

LEMMA CountTail ==
  ASSUME NEW T, NEW s \in Seq(T), s # << >>, NEW S
  PROVE  /\ Count(s, S) = Count(Tail(s), S) + (IF Head(s) \in S THEN 1 ELSE 0)
         /\ \A n \in Int : n \in Places(Tail(s), S) <=> 1 <= n /\ n + 1 \in Places(s, S)
         /\ 1 \in Places(s, S) <=> Head(s) \in S
<1>1. /\ Head(s) \in T /\ Head(s) = s[1]
      /\ Tail(s) \in Seq(T)
      /\ Len(Tail(s)) = Len(s) - 1
      /\ \A n \in 1..Len(Tail(s)) : Tail(s)[n] = s[n + 1]
  BY HeadTailProperties
<1>2. Len(s) \in Nat /\ DOMAIN s = 1..Len(s) /\ DOMAIN Tail(s) = 1..Len(Tail(s)) /\ Len(s) >= 1
  BY <1>1, LenProperties
<1>3. <<Head(s)>> \in Seq(T) /\ Len(<<Head(s)>>) = 1 /\ <<Head(s)>>[1] = Head(s)
  BY <1>1
<1>4. s = <<Head(s)>> \o Tail(s)
  <2> DEFINE h == <<Head(s)>>
             t == Tail(s)
  <2>1. h \in Seq(T) /\ t \in Seq(T) /\ Len(h) = 1 /\ h[1] = s[1] /\ Len(t) = Len(s) - 1
        /\ \A n \in 1..Len(t) : t[n] = s[n + 1]
    BY <1>1, <1>3
  <2> HIDE DEF h, t
  <2>2. /\ h \o t \in Seq(T)
        /\ Len(h \o t) = Len(h) + Len(t)
        /\ \A n \in 1..(Len(h) + Len(t)) :
             (h \o t)[n] = IF n <= Len(h) THEN h[n] ELSE t[n - Len(h)]
    <3>1. h \in Seq(T) /\ t \in Seq(T)
      BY <2>1
    <3> QED BY <3>1, ConcatProperties
  <2>3. Len(h \o t) = Len(s)
    BY <1>2, <2>1, <2>2
  <2>4. \A n \in 1..Len(s) : s[n] = (h \o t)[n]
    BY <1>2, <2>1, <2>2
  <2>5. s = h \o t
    BY <2>2, <2>3, <2>4, SeqEqual
  <2> QED BY <2>5 DEF h, t
<1>5. Count(s, S) = Count(<<Head(s)>>, S) + Count(Tail(s), S)
  <2> DEFINE h == <<Head(s)>>
             t == Tail(s)
  <2>1. h \in Seq(T) /\ t \in Seq(T) /\ s = h \o t
    BY <1>1, <1>3, <1>4
  <2> HIDE DEF h, t
  <2>2. Count(h \o t, S) = Count(h, S) + Count(t, S)
    BY <2>1, CountConcat
  <2> QED BY <2>1, <2>2 DEF h, t
<1>6. Count(Tail(s), S) \in Nat
  BY <1>1, CountIsNat
<1>7. \A n \in Int : n \in Places(Tail(s), S) <=> 1 <= n /\ n + 1 \in Places(s, S)
  BY <1>1, <1>2 DEF Places
<1>8. 1 \in Places(s, S) <=> Head(s) \in S
  BY <1>1, <1>2 DEF Places
<1> QED BY <1>5, <1>6, <1>7, <1>8, CountSingle

-----------------------------------------------------------------------------
(***************************************************************************)
(* What is in sync.  A document that reaches a client with no request for  *)
(* its target unanswered was sent after the last of them, and it comes     *)
(* before any snapshot that may put the view in sync.                      *)
(***************************************************************************)
RequestsOf(q) == {"watch", "unwatch"} \X {q}
AnswersOf(q) == {m \in Messages : m.type \in {"Added", "Removed"} /\ m.target = q}
DocumentsOf(q) == {m \in Messages : m.type = "Document" /\ m.target = q}

\* Only an open stream carries anything.
WireTypes ==
  /\ watched \subseteq Targets /\ serving \subseteq Targets
  /\ requests \in Seq({"watch", "unwatch"} \X Targets)
  /\ since \in [Targets -> Versions]
  /\ ~IsOpen => requests = << >> /\ responses = << >> /\ serving = {}

\* The client counts the requests that are on their way and those whose answer is.
RequestsCounted ==
  \A q \in Targets :
     state[q].out = Count(requests, RequestsOf(q)) + Count(responses, AnswersOf(q))

\* A target is watched for those who listen, and what is asked for last is to watch it.
WatchedForListeners == \A q \in Targets : q \in watched <=> listeners[q] # {}

AskedLast ==
  \A q \in watched : \A n \in Places(requests, {<<"unwatch", q>>}) :
     \E k \in Places(requests, {<<"watch", q>>}) : n < k

SinceIsPast == \A q \in Targets : since[q] <= rows[q]

\* Every answer about q comes before the n-th response.
Settled(q, n) == \A k \in Places(responses, AnswersOf(q)) : k < n

\* What comes after the answer to the last request for q is no older than the view
\* of q, and comes before the first snapshot after that answer.
NewsOf(q) ==
  /\ \A n \in Places(responses, DocumentsOf(q)) :
        Settled(q, n) => responses[n].docs >= since[q]
  /\ \/ Newer(cache[q], updates[q]) >= since[q]
     \/ \E n \in Places(responses, DocumentsOf(q)) :
          /\ Settled(q, n)
          /\ \A k \in 1..(n - 1) : responses[k].type = "Snapshot" => ~Settled(q, k)

NewsAreFresh ==
  \A q \in watched : IsOpen /\ Places(requests, RequestsOf(q)) = {} => NewsOf(q)

FreshParts ==
  /\ WireTypes
  /\ RequestsCounted
  /\ WatchedForListeners
  /\ AskedLast
  /\ SinceIsPast
  /\ NewsAreFresh
  /\ InSyncIsFresh

LEMMA FreshStart == Init => FreshParts
<1> SUFFICES ASSUME Init PROVE FreshParts
  OBVIOUS
<1> USE ReadsAssumption DEF Init
<1>1. stream = "Initial" /\ watched = {}
  BY DEF ConnectionInit
<1>2. << >> \in Seq({"watch", "unwatch"} \X Targets)
  BY EmptySeq
<1>3. WireTypes
  BY <1>1, <1>2 DEF WireTypes, Versions
<1>4. RequestsCounted
  BY CountEmpty DEF RequestsCounted, NewState
<1>5. WatchedForListeners /\ AskedLast /\ SinceIsPast /\ NewsAreFresh /\ InSyncIsFresh
  BY <1>1 DEF WatchedForListeners, AskedLast, SinceIsPast, NewsAreFresh, InSyncIsFresh
<1> QED BY <1>3, <1>4, <1>5 DEF FreshParts

\* No view becomes newer, or in sync: what the connection makes of the views.
ViewsOnlyLeaveSync ==
  \A q \in Targets : /\ view'[q].docs = view[q].docs
                     /\ view'[q].current => view[q].current

LEMMA ViewsLeaveSync ==
  ASSUME ReadsInv, FreshParts, ViewsOnlyLeaveSync, UNCHANGED <<listeners, since>>
  PROVE  InSyncIsFresh'
  BY DEF FreshParts, InSyncIsFresh, ViewsOnlyLeaveSync

LEMMA HearingLeavesSync ==
  ASSUME ReadsInv, ConnectionTask
  PROVE  ViewsOnlyLeaveSync
<1>1. view \in [Targets -> [docs : Versions, current : BOOLEAN]]
  BY DEF ReadsInv, ReadsTypes
<1> QED BY <1>1 DEF ConnectionTask, ViewsHearing, ViewsOnlyLeaveSync

\* A task that leaves the wire alone, and what is watched while the stream is open.
LEMMA WireAloneKeeps ==
  ASSUME FreshParts, UNCHANGED <<wire, cache>>, IsOpen' <=> IsOpen,
         IsOpen => UNCHANGED <<watched, since>>,
         since' \in [Targets -> Versions], watched' \subseteq Targets,
         WatchedForListeners', SinceIsPast', InSyncIsFresh'
  PROVE  FreshParts'
<1> USE DEF wire
<1>1. WireTypes' /\ RequestsCounted'
  BY DEF FreshParts, WireTypes, RequestsCounted
<1>2. CASE IsOpen
  <2>1. \A q \in Targets : NewsOf(q) => NewsOf(q)'
    BY <1>2 DEF NewsOf, Settled
  <2>2. AskedLast' /\ NewsAreFresh'
    BY <1>2, <2>1 DEF FreshParts, WireTypes, AskedLast, NewsAreFresh
  <2> QED BY <1>1, <2>2 DEF FreshParts
<1>3. CASE ~IsOpen
  <2>1. requests' = << >> /\ ~IsOpen'
    BY <1>3 DEF FreshParts, WireTypes
  <2>2. AskedLast'
    BY <2>1, CountEmpty DEF AskedLast
  <2>3. NewsAreFresh'
    BY <2>1 DEF NewsAreFresh
  <2> QED BY <1>1, <2>2, <2>3 DEF FreshParts
<1> QED BY <1>2, <1>3

\* A task that makes at most the views leave sync.
LEMMA LeavingSyncKeeps ==
  ASSUME ReadsInv, FreshParts, ViewsOnlyLeaveSync,
         UNCHANGED <<wire, cache, rows, since, listeners, watched>>, IsOpen' <=> IsOpen
  PROVE  FreshParts'
<1>1. WatchedForListeners' /\ SinceIsPast'
  BY DEF FreshParts, WatchedForListeners, SinceIsPast
<1>2. since' \in [Targets -> Versions] /\ watched' \subseteq Targets
  BY DEF FreshParts, WireTypes
<1> QED BY <1>1, <1>2, ViewsLeaveSync, WireAloneKeeps

\* A stream that is made anew carries nothing.
LEMMA NewStreamKeeps ==
  ASSUME ReadsInv, FreshParts, ViewsOnlyLeaveSync, NewStream, ~IsOpen',
         UNCHANGED <<rows, since, listeners, watched>>
  PROVE  FreshParts'
<1>1. requests' = << >> /\ responses' = << >> /\ serving' = {}
      /\ state' = [q \in Targets |-> NewState]
  BY DEF NewStream
<1>2. << >> \in Seq({"watch", "unwatch"} \X Targets)
  BY EmptySeq
<1>3. WireTypes'
  BY <1>1, <1>2 DEF FreshParts, WireTypes
<1>4. RequestsCounted'
  BY <1>1, CountEmpty DEF RequestsCounted, NewState
<1>5. AskedLast'
  BY <1>1, CountEmpty DEF AskedLast
<1>6. WatchedForListeners' /\ SinceIsPast' /\ NewsAreFresh'
  BY DEF FreshParts, WatchedForListeners, SinceIsPast, NewsAreFresh
<1> QED BY <1>3, <1>4, <1>5, <1>6, ViewsLeaveSync DEF FreshParts

\* A stream that opens asks once for each target that is watched.
LEMMA StreamOpensKeeps ==
  ASSUME ReadsInv, FreshParts, StreamOpens
  PROVE  FreshParts'
<1> USE ReadsAssumption
<1>1. PICK s \in SetToSeqs(watched) : requests' = [n \in DOMAIN s |-> <<"watch", s[n]>>]
  BY DEF StreamOpens
<1>2. /\ UNCHANGED <<updates, responses, serving, listeners, cache, since, rows, watched>>
      /\ ~IsOpen /\ IsOpen'
      /\ state' = [q \in Targets |->
                     IF q \in watched THEN [out |-> 1, current |-> FALSE] ELSE NewState]
      /\ ConnectionTask
  BY DEF StreamOpens, ConnectionTask, OnWatchStreamOpen, IsOpen, database
<1>3. watched \subseteq Targets /\ IsFiniteSet(watched) /\ responses = << >>
  <2>1. watched \subseteq Targets /\ responses = << >>
    BY <1>2 DEF FreshParts, WireTypes
  <2> QED BY <2>1, FS_Subset
<1> DEFINE c == Cardinality(watched)
<1>4. /\ c \in Nat /\ s \in [1..c -> watched]
      /\ \A i, j \in 1..c : i # j => s[i] # s[j]
  BY <1>3, FS_CardinalityType DEF SetToSeqs
<1> HIDE DEF c
<1>5. \A q \in watched : \E n \in 1..c : s[n] = q
  <2>1. s \in Injection(1..c, watched)
    BY <1>4 DEF Injection, IsInjective
  <2>2. IsFiniteSet(1..c) /\ Cardinality(1..c) = c
    BY <1>4, FS_Interval
  <2>3. s \in Surjection(1..c, watched)
    BY <1>3, <2>1, <2>2, FS_Injection DEF c
  <2> QED BY <2>3 DEF Surjection
<1>6. /\ requests' \in [1..c -> {"watch", "unwatch"} \X Targets]
      /\ \A n \in 1..c : requests'[n] = <<"watch", s[n]>>
  BY <1>1, <1>3, <1>4
<1>7. requests' \in Seq({"watch", "unwatch"} \X Targets) /\ DOMAIN requests' = 1..c
  BY <1>4, <1>6
<1>8. \A q \in Targets : Count(requests', RequestsOf(q)) = IF q \in watched THEN 1 ELSE 0
  <2> SUFFICES ASSUME NEW q \in Targets
               PROVE  Count(requests', RequestsOf(q)) = IF q \in watched THEN 1 ELSE 0
    OBVIOUS
  <2>1. \A n \in 1..c : requests'[n] \in RequestsOf(q) <=> s[n] = q
    BY <1>6 DEF RequestsOf
  <2>2. CASE q \in watched
    <3>1. PICK n \in 1..c : s[n] = q
      BY <1>5, <2>2
    <3>2. Places(requests', RequestsOf(q)) = {n}
      BY <1>4, <1>7, <2>1, <3>1 DEF Places
    <3> QED BY <2>2, <3>2, FS_Singleton DEF Count
  <2>3. CASE q \notin watched
    <3>1. Places(requests', RequestsOf(q)) = {}
      BY <1>4, <1>7, <2>1, <2>3 DEF Places
    <3> QED BY <2>3, <3>1, FS_EmptySet DEF Count
  <2> QED BY <2>2, <2>3
<1>9. WireTypes'
  BY <1>2, <1>7 DEF FreshParts, WireTypes
<1>10. RequestsCounted'
  <2>1. \A q \in Targets : Count(responses', AnswersOf(q)) = 0
    BY <1>2, <1>3, CountEmpty
  <2>2. \A q \in Targets : state'[q].out = IF q \in watched THEN 1 ELSE 0
    BY <1>2 DEF NewState
  <2> QED BY <1>8, <2>1, <2>2 DEF RequestsCounted
<1>11. AskedLast'
  BY <1>6, <1>7 DEF AskedLast, Places
<1>12. NewsAreFresh'
  <2>1. ASSUME NEW q \in watched PROVE Places(requests', RequestsOf(q)) # {}
    <3>1. PICK n \in 1..c : s[n] = q
      BY <1>5
    <3>2. requests'[n] \in RequestsOf(q)
      BY <1>6, <3>1 DEF RequestsOf
    <3> QED BY <1>7, <3>2 DEF Places
  <2> QED BY <1>2, <2>1 DEF NewsAreFresh
<1>13. WatchedForListeners' /\ SinceIsPast'
  BY <1>2 DEF FreshParts, WatchedForListeners, SinceIsPast
<1> QED
  BY <1>2, <1>9, <1>10, <1>11, <1>12, <1>13, HearingLeavesSync, ViewsLeaveSync DEF FreshParts

\* A request about q joins the others, and is counted.
LEMMA Asked ==
  ASSUME ReadsInv, FreshParts, NEW q \in Targets, NEW r \in {"watch", "unwatch"}, Send(r, q)
  PROVE  /\ requests' \in Seq({"watch", "unwatch"} \X Targets)
         /\ RequestsCounted'
         /\ Len(requests) + 1 \in Places(requests', {<<r, q>>})
         /\ Places(requests', RequestsOf(q)) # {}
         /\ \A n \in Places(requests', {<<r, q>>}) : n <= Len(requests) + 1
         /\ \A p \in Targets \ {q} : \A S \in {RequestsOf(p), {<<"watch", p>>}, {<<"unwatch", p>>}} :
              Places(requests', S) = Places(requests, S)
         /\ \A x : x # <<r, q>> => Places(requests', {x}) = Places(requests, {x})
<1> DEFINE e == <<r, q>>
           T == {"watch", "unwatch"} \X Targets
<1>1. /\ requests' = Append(requests, e)
      /\ state' = RecordPendingTargetRequest(q)
      /\ responses' = responses
  BY DEF Send
<1>2. requests \in Seq(T) /\ e \in T
  BY DEF FreshParts, WireTypes
<1>3. <<e>> \in Seq(T)
  BY <1>2
<1> HIDE DEF e, T
<1>4. requests' = requests \o <<e>> /\ requests' \in Seq(T)
  BY <1>1, <1>2, AppendIsConcat, AppendProperties
<1>5. \A S : /\ Count(requests', S) = Count(requests, S) + (IF e \in S THEN 1 ELSE 0)
             /\ \A n \in Int : n \in Places(requests', S) <=>
                  n \in Places(requests, S) \/ (e \in S /\ n = Len(requests) + 1)
  <2> TAKE S
  <2> DEFINE one == <<e>>
  <2>1. one \in Seq(T) /\ requests' = requests \o one
    BY <1>3, <1>4
  <2>2. /\ Places(one, S) = IF e \in S THEN {1} ELSE {}
        /\ Count(one, S) = IF e \in S THEN 1 ELSE 0
    BY CountSingle
  <2> HIDE DEF one
  <2>3. Count(requests \o one, S) = Count(requests, S) + Count(one, S)
    BY <1>2, <2>1, CountConcat
  <2>4. ASSUME NEW n \in Int
        PROVE  n \in Places(requests', S) <=>
                 n \in Places(requests, S) \/ (e \in S /\ n = Len(requests) + 1)
    <3>1. n \in Places(requests \o one, S) <=>
            n \in Places(requests, S) \/ n - Len(requests) \in Places(one, S)
      BY <1>2, <2>1, PlacesConcat
    <3>2. Len(requests) \in Nat
      BY <1>2, LenProperties
    <3> QED BY <2>1, <2>2, <3>1, <3>2
  <2> QED BY <2>1, <2>2, <2>3, <2>4
<1>6. \A S : /\ Places(requests, S) \subseteq 1..Len(requests)
             /\ Places(requests', S) \subseteq 1..Len(requests')
             /\ Count(requests, S) \in Nat
  BY <1>2, <1>4, CountIsNat
<1>7. Len(requests) \in Nat /\ Len(requests') \in Nat
  BY <1>2, <1>4, LenProperties
<1>8. \A S : e \notin S => Places(requests', S) = Places(requests, S)
  <2> SUFFICES ASSUME NEW S, e \notin S
               PROVE  Places(requests', S) = Places(requests, S)
    OBVIOUS
  <2>1. Places(requests', S) \subseteq Int /\ Places(requests, S) \subseteq Int
    BY <1>6
  <2>2. \A n \in Int : n \in Places(requests', S) <=> n \in Places(requests, S)
    BY <1>5
  <2> QED BY <2>1, <2>2
<1>9. e \in {e} /\ e \in RequestsOf(q)
  BY DEF RequestsOf, e
<1>10. \A p \in Targets \ {q} : \A S \in {RequestsOf(p), {<<"watch", p>>}, {<<"unwatch", p>>}} :
         e \notin S
  BY DEF RequestsOf, e
<1>11. RequestsCounted'
  <2> SUFFICES ASSUME NEW p \in Targets
               PROVE  state'[p].out = Count(requests', RequestsOf(p)) + Count(responses', AnswersOf(p))
    BY DEF RequestsCounted
  <2>1. state'[p].out = state[p].out + (IF p = q THEN 1 ELSE 0)
    <3>1. state \in [Targets -> [out : Int, current : BOOLEAN]]
      BY DEF ReadsInv, ReadsTypes
    <3> QED BY <1>1, <3>1 DEF RecordPendingTargetRequest
  <2>2. Count(requests', RequestsOf(p)) = Count(requests, RequestsOf(p)) + (IF p = q THEN 1 ELSE 0)
    BY <1>5, <1>6, <1>9, <1>10
  <2>3. Count(responses, AnswersOf(p)) \in Nat /\ Count(requests, RequestsOf(p)) \in Nat
    BY <1>6, CountIsNat DEF ReadsInv, ReadsTypes
  <2>4. state[p].out = Count(requests, RequestsOf(p)) + Count(responses, AnswersOf(p))
    BY DEF FreshParts, RequestsCounted
  <2> QED BY <1>1, <2>1, <2>2, <2>3, <2>4
<1>12. Len(requests) + 1 \in Places(requests', {e}) /\ Len(requests) + 1 \in Places(requests', RequestsOf(q))
  BY <1>5, <1>7, <1>9
<1>13. Len(requests') = Len(requests) + 1
  BY <1>1, <1>2, AppendProperties
<1>14. \A n \in Places(requests', {e}) : n <= Len(requests) + 1
  BY <1>6, <1>7, <1>13
<1>15. \A x : x # e => Places(requests', {x}) = Places(requests, {x})
  BY <1>8
<1>16. \A p \in Targets \ {q} : \A S \in {RequestsOf(p), {<<"watch", p>>}, {<<"unwatch", p>>}} :
         Places(requests', S) = Places(requests, S)
  BY <1>8, <1>10
<1> QED BY <1>4, <1>11, <1>12, <1>14, <1>15, <1>16 DEF e, T

LEMMA AddingKeepsFresh ==
  ASSUME ReadsInv, FreshParts, NEW l \in Listeners, AddQueryListener(l)
  PROVE  FreshParts'
<1> USE ReadsAssumption
<1> DEFINE q == asks[l]
<1>1. /\ UNCHANGED <<cache, updates, responses, serving, rows>>
      /\ listeners' = [listeners EXCEPT ![q] = @ \cup {l}]
  BY DEF AddQueryListener, Send, wire, database
<1>2. /\ q \in Targets
      /\ listeners \in [Targets -> SUBSET Listeners]
      /\ view \in [Targets -> [docs : Versions, current : BOOLEAN]]
      /\ rows \in [Targets -> Versions] /\ since \in [Targets -> Versions]
  BY DEF ReadsInv, ReadsTypes, FreshParts, WireTypes
<1> HIDE DEF q
<1>3. CASE listeners[q] # {}
  <2>1. UNCHANGED <<connection, view, since, wire>>
    BY <1>3 DEF AddQueryListener, q
  <2>2. UNCHANGED <<wire, cache, rows, watched, since>> /\ IsOpen' = IsOpen
    BY <1>1, <2>1 DEF connection, IsOpen
  <2>3. WatchedForListeners'
    BY <1>1, <1>2, <1>3, <2>2 DEF FreshParts, WatchedForListeners
  <2>4. InSyncIsFresh'
    BY <1>1, <1>2, <1>3, <2>1 DEF FreshParts, InSyncIsFresh
  <2>5. SinceIsPast' /\ since' \in [Targets -> Versions] /\ watched' \subseteq Targets
    BY <2>2 DEF FreshParts, SinceIsPast, WireTypes
  <2> QED BY <2>2, <2>3, <2>4, <2>5, WireAloneKeeps
<1>4. CASE listeners[q] = {}
  <2>1. /\ view' = [view EXCEPT ![q] = [docs |-> cache[q], current |-> FALSE]]
        /\ since' = [since EXCEPT ![q] = rows[q]]
        /\ Listen(q)
        /\ IF IsOpen THEN Send("watch", q) ELSE UNCHANGED wire
    BY <1>4 DEF AddQueryListener, q
  <2>2. q \notin watched /\ watched' = watched \cup {q} /\ (IsOpen' <=> IsOpen)
    BY <2>1 DEF Listen, IsOpen, IsStarted, Started
  <2>3. WatchedForListeners'
    BY <1>1, <1>2, <2>2 DEF FreshParts, WatchedForListeners
  <2>4. \A p \in Targets : /\ since'[p] = IF p = q THEN rows[q] ELSE since[p]
                           /\ p # q => view'[p] = view[p] /\ listeners'[p] = listeners[p]
                           /\ p = q => ~view'[p].current
    BY <1>1, <1>2, <2>1
  <2>5. SinceIsPast'
    <3>1. rows[q] <= rows[q]
      BY <1>2 DEF Versions
    <3> QED BY <1>1, <2>4, <3>1 DEF FreshParts, SinceIsPast
  <2>6. InSyncIsFresh'
    BY <2>4 DEF FreshParts, InSyncIsFresh
  <2>7. since' \in [Targets -> Versions] /\ watched' \subseteq Targets
    BY <1>2, <2>1, <2>2 DEF FreshParts, WireTypes
  <2>8. CASE ~IsOpen
    BY <1>1, <2>1, <2>2, <2>3, <2>5, <2>6, <2>7, <2>8, WireAloneKeeps
  <2>9. CASE IsOpen
    <3>1. Send("watch", q) /\ IsOpen'
      BY <2>1, <2>2, <2>9
    <3>2. /\ requests' \in Seq({"watch", "unwatch"} \X Targets)
          /\ RequestsCounted'
          /\ Len(requests) + 1 \in Places(requests', {<<"watch", q>>})
          /\ Places(requests', RequestsOf(q)) # {}
          /\ \A p \in Targets \ {q} : \A S \in {RequestsOf(p), {<<"watch", p>>}, {<<"unwatch", p>>}} :
               Places(requests', S) = Places(requests, S)
          /\ Places(requests', {<<"unwatch", q>>}) = Places(requests, {<<"unwatch", q>>})
      BY <1>2, <3>1, Asked
    <3>3. WireTypes'
      <4>1. requests' \in Seq({"watch", "unwatch"} \X Targets)
        BY <3>2
      <4>2. serving' \subseteq Targets
        BY <1>1 DEF FreshParts, WireTypes
      <4> QED BY <2>7, <3>1, <4>1, <4>2 DEF WireTypes
    <3>4. AskedLast'
      <4> SUFFICES ASSUME NEW p \in watched', NEW n \in Places(requests', {<<"unwatch", p>>})
                   PROVE  \E k \in Places(requests', {<<"watch", p>>}) : n < k
        BY DEF AskedLast
      <4>1. CASE p = q
        <5>1. n \in Places(requests, {<<"unwatch", q>>})
          BY <3>2, <4>1
        <5>2. n \in 1..Len(requests) /\ Len(requests) \in Nat
          BY <5>1, CountIsNat, LenProperties DEF FreshParts, WireTypes
        <5>3. n < Len(requests) + 1
          BY <5>2
        <5> QED BY <3>2, <4>1, <5>3
      <4>2. CASE p # q
        <5>1. p \in watched /\ p \in Targets \ {q}
          BY <2>2, <4>2, <2>7
        <5>2. /\ Places(requests', {<<"unwatch", p>>}) = Places(requests, {<<"unwatch", p>>})
              /\ Places(requests', {<<"watch", p>>}) = Places(requests, {<<"watch", p>>})
          BY <3>2, <5>1
        <5> QED BY <5>1, <5>2 DEF FreshParts, AskedLast
      <4> QED BY <4>1, <4>2
    <3>5. NewsAreFresh'
      <4> SUFFICES ASSUME NEW p \in watched', Places(requests', RequestsOf(p)) = {}
                   PROVE  NewsOf(p)'
        BY DEF NewsAreFresh
      <4>1. p # q /\ p \in watched /\ p \in Targets \ {q}
        BY <2>2, <2>7, <3>2
      <4>2. Places(requests, RequestsOf(p)) = {}
        BY <3>2, <4>1
      <4>3. NewsOf(p)
        BY <2>9, <4>1, <4>2 DEF FreshParts, NewsAreFresh
      <4>4. since'[p] = since[p]
        BY <2>4, <4>1
      <4> QED BY <1>1, <4>3, <4>4 DEF NewsOf, Settled
    <3> QED BY <2>3, <2>5, <2>6, <3>2, <3>3, <3>4, <3>5 DEF FreshParts
  <2> QED BY <2>8, <2>9
<1> QED BY <1>3, <1>4

LEMMA RemovingKeepsFresh ==
  ASSUME ReadsInv, FreshParts, NEW l \in Listeners, RemoveQueryListener(l)
  PROVE  FreshParts'
<1> USE ReadsAssumption
<1> DEFINE q == asks[l]
<1>1. /\ UNCHANGED <<cache, updates, responses, serving, rows>>
      /\ listeners' = [listeners EXCEPT ![q] = @ \ {l}]
  BY DEF RemoveQueryListener, Send, wire, database
<1>2. /\ q \in Targets
      /\ listeners \in [Targets -> SUBSET Listeners]
      /\ view \in [Targets -> [docs : Versions, current : BOOLEAN]]
      /\ rows \in [Targets -> Versions] /\ since \in [Targets -> Versions]
  BY DEF ReadsInv, ReadsTypes, FreshParts, WireTypes
<1> HIDE DEF q
<1>3. CASE listeners[q] # {l}
  <2>1. UNCHANGED <<connection, view, since, wire>>
    BY <1>3 DEF RemoveQueryListener, q
  <2>2. UNCHANGED <<wire, cache, rows, watched, since>> /\ IsOpen' = IsOpen
    BY <1>1, <2>1 DEF connection, IsOpen
  <2>3. WatchedForListeners'
    <3>1. \A p \in Targets : listeners'[p] = {} <=> listeners[p] = {}
      BY <1>1, <1>2, <1>3
    <3> QED BY <2>2, <3>1 DEF FreshParts, WatchedForListeners
  <2>4. InSyncIsFresh'
    BY <1>1, <1>2, <2>1 DEF FreshParts, InSyncIsFresh
  <2>5. SinceIsPast' /\ since' \in [Targets -> Versions] /\ watched' \subseteq Targets
    BY <2>2 DEF FreshParts, SinceIsPast, WireTypes
  <2> QED BY <2>2, <2>3, <2>4, <2>5, WireAloneKeeps
<1>4. CASE listeners[q] = {l}
  <2>1. /\ view' = [view EXCEPT ![q] = NoView]
        /\ since' = [since EXCEPT ![q] = 0]
        /\ StopListening(q)
        /\ IF IsOpen THEN Send("unwatch", q) ELSE UNCHANGED wire
    BY <1>4 DEF RemoveQueryListener, q
  <2>2. q \in watched /\ watched' = watched \ {q} /\ (IsOpen' <=> IsOpen)
    BY <2>1 DEF StopListening, IsOpen
  <2>3. WatchedForListeners'
    BY <1>1, <1>2, <1>4, <2>2 DEF FreshParts, WatchedForListeners
  <2>4. \A p \in Targets : /\ since'[p] = IF p = q THEN 0 ELSE since[p]
                           /\ p # q => view'[p] = view[p] /\ listeners'[p] = listeners[p]
                           /\ p = q => ~view'[p].current
    BY <1>1, <1>2, <2>1 DEF NoView
  <2>5. SinceIsPast'
    <3>1. 0 <= rows[q]
      BY <1>2 DEF Versions
    <3> QED BY <1>1, <2>4, <3>1 DEF FreshParts, SinceIsPast
  <2>6. InSyncIsFresh'
    BY <2>4 DEF FreshParts, InSyncIsFresh
  <2>7. since' \in [Targets -> Versions] /\ watched' \subseteq Targets
    <3>1. 0 \in Versions
      BY DEF Versions
    <3> QED BY <1>2, <2>1, <2>2, <3>1 DEF FreshParts, WireTypes
  <2>8. CASE ~IsOpen
    BY <1>1, <2>1, <2>2, <2>3, <2>5, <2>6, <2>7, <2>8, WireAloneKeeps
  <2>9. CASE IsOpen
    <3>1. Send("unwatch", q) /\ IsOpen'
      BY <2>1, <2>2, <2>9
    <3>2. /\ requests' \in Seq({"watch", "unwatch"} \X Targets)
          /\ RequestsCounted'
          /\ \A p \in Targets \ {q} : \A S \in {RequestsOf(p), {<<"watch", p>>}, {<<"unwatch", p>>}} :
               Places(requests', S) = Places(requests, S)
      BY <1>2, <3>1, Asked
    <3>3. WireTypes'
      <4>1. requests' \in Seq({"watch", "unwatch"} \X Targets)
        BY <3>2
      <4>2. serving' \subseteq Targets
        BY <1>1 DEF FreshParts, WireTypes
      <4> QED BY <2>7, <3>1, <4>1, <4>2 DEF WireTypes
    <3>4. \A p \in watched' : p \in watched /\ p \in Targets \ {q}
      BY <2>2, <2>7
    <3>5. AskedLast'
      BY <3>2, <3>4 DEF FreshParts, AskedLast
    <3>6. NewsAreFresh'
      <4> SUFFICES ASSUME NEW p \in watched', Places(requests', RequestsOf(p)) = {}
                   PROVE  NewsOf(p)'
        BY DEF NewsAreFresh
      <4>1. NewsOf(p)
        BY <2>9, <3>2, <3>4 DEF FreshParts, NewsAreFresh
      <4>2. since'[p] = since[p]
        BY <2>4, <3>4
      <4> QED BY <1>1, <4>1, <4>2 DEF NewsOf, Settled
    <3> QED BY <2>3, <2>5, <2>6, <3>2, <3>3, <3>5, <3>6 DEF FreshParts
  <2> QED BY <2>8, <2>9
<1> QED BY <1>3, <1>4

\* What the backend adds is no answer about q and no older document of q.
LEMMA NewsAppended ==
  ASSUME ReadsInv, NEW q \in Targets, NewsOf(q), NEW more \in Seq(Messages),
         responses' = responses \o more,
         Places(more, AnswersOf(q)) = {},
         \A n \in Places(more, DocumentsOf(q)) : more[n].docs >= since[q],
         UNCHANGED <<cache, updates, since>>
  PROVE  NewsOf(q)'
<1>1. responses \in Seq(Messages)
  BY DEF ReadsInv, ReadsTypes
<1>2. /\ responses' \in Seq(Messages)
      /\ Len(responses') = Len(responses) + Len(more)
      /\ \A n \in 1..(Len(responses) + Len(more)) :
           responses'[n] = IF n <= Len(responses) THEN responses[n]
                                                  ELSE more[n - Len(responses)]
  BY <1>1, ConcatProperties
<1>3. Len(responses) \in Nat /\ Len(more) \in Nat
  BY <1>1, LenProperties
<1>4. \A S : /\ Places(responses, S) \subseteq 1..Len(responses)
             /\ Places(more, S) \subseteq 1..Len(more)
             /\ Places(responses', S) \subseteq 1..Len(responses')
  BY <1>1, <1>2, CountIsNat
<1>5. \A S : \A n \in Int : n \in Places(responses', S) <=>
               n \in Places(responses, S) \/ n - Len(responses) \in Places(more, S)
  BY <1>1, PlacesConcat
<1>6. Places(responses', AnswersOf(q)) = Places(responses, AnswersOf(q))
  <2>1. /\ Places(responses', AnswersOf(q)) \subseteq Int
        /\ Places(responses, AnswersOf(q)) \subseteq Int
    BY <1>2, <1>3, <1>4
  <2>2. \A n \in Int : n \in Places(responses', AnswersOf(q)) <=> n \in Places(responses, AnswersOf(q))
    BY <1>5
  <2> QED BY <2>1, <2>2
<1>7. \A n : Settled(q, n)' <=> Settled(q, n)
  BY <1>6 DEF Settled
<1>8. ASSUME NEW n \in Places(responses', DocumentsOf(q)), Settled(q, n)'
      PROVE  responses'[n].docs >= since[q]
  <2>1. n \in 1..(Len(responses) + Len(more))
    BY <1>2, <1>4
  <2>2. CASE n \in Places(responses, DocumentsOf(q))
    <3>1. responses'[n] = responses[n]
      BY <1>2, <1>3, <1>4, <2>1, <2>2
    <3>2. Settled(q, n)
      BY <1>7, <1>8
    <3> QED BY <2>2, <3>1, <3>2 DEF NewsOf
  <2>3. CASE n - Len(responses) \in Places(more, DocumentsOf(q))
    <3>1. responses'[n] = more[n - Len(responses)]
      BY <1>2, <1>3, <1>4, <2>1, <2>3
    <3> QED BY <2>3, <3>1
  <2> QED BY <1>5, <2>1, <2>2, <2>3
<1>9. ASSUME NEW n \in Places(responses, DocumentsOf(q)), Settled(q, n),
             \A k \in 1..(n - 1) : responses[k].type = "Snapshot" => ~Settled(q, k)
      PROVE  /\ n \in Places(responses', DocumentsOf(q))
             /\ Settled(q, n)'
             /\ \A k \in 1..(n - 1) : responses'[k].type = "Snapshot" => ~Settled(q, k)'
  <2>1. n \in 1..Len(responses)
    BY <1>4
  <2>2. \A k \in 1..(n - 1) : responses'[k] = responses[k]
    BY <1>2, <1>3, <2>1
  <2>3. n \in Places(responses', DocumentsOf(q))
    BY <1>5, <2>1
  <2> QED BY <1>7, <1>9, <2>2, <2>3
<1> QED BY <1>8, <1>9 DEF NewsOf

LEMMA PublishingKeepsFresh ==
  ASSUME ReadsInv, FreshParts, NEW q \in Targets, Publish(q)
  PROVE  FreshParts'
<1> USE ReadsAssumption
<1>1. /\ UNCHANGED <<requests, state, serving, updates, cache, since, view, listeners, watched, stream>>
      /\ now < MaxVersion /\ now' = now + 1
      /\ rows' = [rows EXCEPT ![q] = now']
  BY DEF Publish, connection, client
<1>2. /\ rows \in [Targets -> Versions] /\ since \in [Targets -> Versions] /\ now \in Versions
      /\ responses \in Seq(Messages) /\ watched \subseteq Targets
      /\ requests \in Seq({"watch", "unwatch"} \X Targets)
      /\ \A p \in Targets : rows[p] <= now /\ since[p] <= rows[p]
  BY DEF ReadsInv, ReadsTypes, NothingNewer, FreshParts, WireTypes, SinceIsPast
<1>3. \A p \in Targets : rows[p] \in Int /\ since[p] \in Int /\ now \in Int
  BY <1>2 DEF Versions
<1>4. SinceIsPast'
  <2>1. \A p \in Targets : rows'[p] = IF p = q THEN now + 1 ELSE rows[p]
    BY <1>1, <1>2
  <2> QED BY <1>1, <1>2, <1>3, <2>1 DEF SinceIsPast
<1>5. IsOpen' <=> IsOpen
  BY <1>1 DEF IsOpen
<1>6. WatchedForListeners' /\ InSyncIsFresh' /\ AskedLast'
  BY <1>1 DEF FreshParts, WatchedForListeners, InSyncIsFresh, AskedLast
<1>7. CASE q \notin serving
  <2>1. UNCHANGED <<wire, cache>>
    BY <1>1, <1>7 DEF Publish, wire
  <2>2. since' \in [Targets -> Versions] /\ watched' \subseteq Targets
    BY <1>1, <1>2
  <2> QED BY <1>1, <1>4, <1>5, <1>6, <2>1, <2>2, WireAloneKeeps
<1>8. CASE q \in serving
  <2> DEFINE d == Message("Document", q, now')
             s == Message("Snapshot", q, now')
             more == <<d, s>>
  <2>1. IsOpen
    BY <1>8 DEF FreshParts, WireTypes
  <2>2. responses' = responses \o more
    BY <1>8 DEF Publish
  <2>3. now' \in Versions
    BY <1>1, <1>2 DEF Versions
  <2>4. /\ d \in Messages /\ s \in Messages /\ d.type = "Document" /\ s.type = "Snapshot"
        /\ d.docs = now' /\ d.target = q
    BY <2>3 DEF Message, Messages
  <2> HIDE DEF d, s
  <2>5. more \in Seq(Messages) /\ DOMAIN more = 1..2 /\ more[1] = d /\ more[2] = s
    BY <2>4
  <2> HIDE DEF more
  <2>6. \A p \in Targets : Places(more, AnswersOf(p)) = {}
    BY <2>4, <2>5 DEF Places, AnswersOf
  <2>7. \A p \in Targets : \A n \in Places(more, DocumentsOf(p)) : more[n].docs >= since[p]
    <3> SUFFICES ASSUME NEW p \in Targets, NEW n \in Places(more, DocumentsOf(p))
                 PROVE  more[n].docs >= since[p]
      OBVIOUS
    <3>1. n = 1
      BY <2>4, <2>5 DEF Places, DocumentsOf
    <3> QED BY <1>1, <1>2, <1>3, <2>4, <2>5, <3>1
  <2>8. responses' \in Seq(Messages)
    BY <1>2, <2>2, <2>5, ConcatProperties
  <2>9. WireTypes'
    BY <1>1, <1>2, <1>5, <2>1 DEF FreshParts, WireTypes
  <2>10. RequestsCounted'
    <3> SUFFICES ASSUME NEW p \in Targets
                 PROVE  Count(responses', AnswersOf(p)) = Count(responses, AnswersOf(p))
      BY <1>1 DEF FreshParts, RequestsCounted
    <3>1. Count(responses \o more, AnswersOf(p)) = Count(responses, AnswersOf(p)) + Count(more, AnswersOf(p))
      BY <1>2, <2>5, CountConcat
    <3>2. Count(more, AnswersOf(p)) = 0
      BY <2>5, <2>6, CountIsNat
    <3>3. Count(responses, AnswersOf(p)) \in Nat
      BY <1>2, CountIsNat
    <3> QED BY <2>2, <3>1, <3>2, <3>3
  <2>11. NewsAreFresh'
    <3> SUFFICES ASSUME NEW p \in watched, Places(requests, RequestsOf(p)) = {}
                 PROVE  NewsOf(p)'
      BY <1>1 DEF NewsAreFresh
    <3>1. NewsOf(p) /\ p \in Targets
      BY <1>2, <2>1 DEF FreshParts, NewsAreFresh
    <3> QED BY <1>1, <2>2, <2>5, <2>6, <2>7, <3>1, NewsAppended
  <2> QED BY <1>4, <1>6, <2>9, <2>10, <2>11 DEF FreshParts
<1> QED BY <1>7, <1>8

\* A request that is answered is counted on as an answer; the answer to the last
\* request brings what the database has, before the first snapshot after it.
LEMMA AnsweringKeepsFresh ==
  ASSUME ReadsInv, FreshParts, BackendAnswers
  PROVE  FreshParts'
<1> USE ReadsAssumption
<1>1. /\ UNCHANGED <<state, updates, cache, since, view, listeners, rows, watched, stream>>
      /\ requests # << >> /\ requests' = Tail(requests)
      /\ IsOpen /\ IsOpen'
  BY DEF BackendAnswers, connection, client, database, IsOpen
<1>2. /\ rows \in [Targets -> Versions] /\ since \in [Targets -> Versions] /\ now \in Versions
      /\ responses \in Seq(Messages) /\ watched \subseteq Targets /\ serving \subseteq Targets
      /\ \A p \in Targets : since[p] <= rows[p]
  BY DEF ReadsInv, ReadsTypes, FreshParts, WireTypes, SinceIsPast
<1> DEFINE T == {"watch", "unwatch"} \X Targets
<1>3. requests \in Seq(T)
  BY DEF FreshParts, WireTypes
<1> HIDE DEF T
<1>4. requests' \in Seq(T)
  BY <1>1, <1>3, HeadTailProperties
<1>5. \A S : /\ Count(requests, S) = Count(requests', S) + (IF Head(requests) \in S THEN 1 ELSE 0)
             /\ \A n \in Int : n \in Places(requests', S) <=> 1 <= n /\ n + 1 \in Places(requests, S)
             /\ 1 \in Places(requests, S) <=> Head(requests) \in S
             /\ Places(requests', S) \subseteq 1..Len(requests')
             /\ Places(requests, S) \subseteq 1..Len(requests)
             /\ Count(requests', S) \in Nat
  BY <1>1, <1>3, <1>4, CountTail, CountIsNat
<1>6. Len(requests) \in Nat /\ Len(requests') \in Nat /\ Len(responses) \in Nat
  BY <1>2, <1>3, <1>4, LenProperties
<1>7. AskedLast'
  <2> SUFFICES ASSUME NEW p \in watched, NEW n \in Places(requests', {<<"unwatch", p>>})
               PROVE  \E k \in Places(requests', {<<"watch", p>>}) : n < k
    BY <1>1 DEF AskedLast
  <2>1. n \in Int /\ 1 <= n /\ n + 1 \in Places(requests, {<<"unwatch", p>>})
    BY <1>5, <1>6
  <2>2. PICK k \in Places(requests, {<<"watch", p>>}) : n + 1 < k
    BY <2>1 DEF FreshParts, AskedLast
  <2>3. k \in Int
    BY <1>5, <1>6
  <2>4. k - 1 \in Places(requests', {<<"watch", p>>})
    <3>1. k - 1 \in Int /\ 1 <= k - 1 /\ (k - 1) + 1 = k
      BY <2>1, <2>2, <2>3
    <3> QED BY <1>5, <3>1
  <2> QED BY <2>1, <2>2, <2>3, <2>4
<1>8. ASSUME NEW q \in Targets, NEW r \in {"watch", "unwatch"}, Head(requests) = <<r, q>>,
             NEW more \in Seq(Messages), responses' = responses \o more,
             serving' \subseteq Targets,
             Places(more, AnswersOf(q)) = {1},
             \A p \in Targets \ {q} : Places(more, AnswersOf(p)) = {} /\ Places(more, DocumentsOf(p)) = {},
             r = "watch" => /\ Places(more, DocumentsOf(q)) = {2}
                            /\ more[2].docs = rows[q]
      PROVE  FreshParts'
  <2>1. /\ responses' \in Seq(Messages)
        /\ Len(responses') = Len(responses) + Len(more)
        /\ \A n \in 1..(Len(responses) + Len(more)) :
             responses'[n] = IF n <= Len(responses) THEN responses[n]
                                                    ELSE more[n - Len(responses)]
    BY <1>2, <1>8, ConcatProperties
  <2>2. \A p \in Targets : Head(requests) \in RequestsOf(p) <=> p = q
    BY <1>8 DEF RequestsOf
  <2>3. WireTypes'
    <3>1. requests' \in Seq({"watch", "unwatch"} \X Targets)
      BY <1>4 DEF T
    <3> QED BY <1>1, <1>2, <1>8, <3>1 DEF WireTypes
  <2>4. RequestsCounted'
    <3> SUFFICES ASSUME NEW p \in Targets
                 PROVE  state[p].out = Count(requests', RequestsOf(p)) + Count(responses', AnswersOf(p))
      BY <1>1 DEF RequestsCounted
    <3>1. Count(responses \o more, AnswersOf(p)) = Count(responses, AnswersOf(p)) + Count(more, AnswersOf(p))
      BY <1>2, <1>8, CountConcat
    <3>2. Count(more, AnswersOf(p)) = IF p = q THEN 1 ELSE 0
      BY <1>8, FS_EmptySet, FS_Singleton DEF Count
    <3>3. Count(requests, RequestsOf(p)) = Count(requests', RequestsOf(p)) + (IF p = q THEN 1 ELSE 0)
      BY <1>5, <2>2
    <3>4. Count(responses, AnswersOf(p)) \in Nat /\ Count(requests', RequestsOf(p)) \in Nat
      BY <1>2, <1>5, CountIsNat
    <3>5. state[p].out = Count(requests, RequestsOf(p)) + Count(responses, AnswersOf(p))
      BY DEF FreshParts, RequestsCounted
    <3> QED BY <1>8, <3>1, <3>2, <3>3, <3>4, <3>5
  <2>5. ASSUME NEW p \in watched, Places(requests', RequestsOf(p)) = {}, p # q
        PROVE  NewsOf(p)'
    <3>1. p \in Targets \ {q}
      BY <1>2, <2>5
    <3>2. Places(requests, RequestsOf(p)) = {}
      <4>1. 1 \notin Places(requests, RequestsOf(p))
        BY <1>5, <2>2, <3>1
      <4>2. ASSUME NEW n \in Places(requests, RequestsOf(p)) PROVE FALSE
        <5>1. n \in Int /\ 1 <= n /\ n # 1
          BY <1>5, <1>6, <4>1
        <5>2. n - 1 \in Int /\ 1 <= n - 1 /\ (n - 1) + 1 = n
          BY <5>1
        <5>3. n - 1 \in Places(requests', RequestsOf(p))
          BY <1>5, <4>2, <5>2
        <5> QED BY <2>5, <5>3
      <4> QED BY <4>2
    <3>3. NewsOf(p)
      BY <1>1, <3>2 DEF FreshParts, NewsAreFresh
    <3> QED BY <1>1, <1>8, <3>1, <3>3, NewsAppended
  <2>6. ASSUME q \in watched, Places(requests', RequestsOf(q)) = {}
        PROVE  NewsOf(q)'
    <3>1. r = "watch"
      <4> SUFFICES ASSUME r = "unwatch" PROVE FALSE
        BY <1>8
      <4>1. 1 \in Places(requests, {<<"unwatch", q>>})
        BY <1>5, <1>8
      <4>2. PICK k \in Places(requests, {<<"watch", q>>}) : 1 < k
        BY <2>6, <4>1 DEF FreshParts, AskedLast
      <4>3. k \in Int /\ k - 1 \in Int /\ 1 <= k - 1 /\ (k - 1) + 1 = k
        BY <1>5, <1>6, <4>2
      <4>4. k \in Places(requests, RequestsOf(q))
        BY <4>2 DEF Places, RequestsOf
      <4>5. k - 1 \in Places(requests', RequestsOf(q))
        BY <1>5, <4>3, <4>4
      <4> QED BY <2>6, <4>5
    <3>2. PICK L \in Nat : L = Len(responses) /\ Len(more) \in Nat
      BY <1>6, <1>8, LenProperties
    <3>3. \A S : /\ Places(responses, S) \subseteq 1..L
                 /\ Places(more, S) \subseteq 1..Len(more)
                 /\ Places(responses', S) \subseteq 1..Len(responses')
                 /\ \A n \in Int : n \in Places(responses', S) <=>
                                     n \in Places(responses, S) \/ n - L \in Places(more, S)
      BY <1>2, <1>8, <2>1, <3>2, CountIsNat, PlacesConcat
    <3>4. L + 1 \in Places(responses', AnswersOf(q))
          /\ \A n \in Places(responses', AnswersOf(q)) : n <= L + 1
      <4>1. (L + 1) - L = 1 /\ L + 1 \in Int
        BY <3>2
      <4>2. L + 1 \in Places(responses', AnswersOf(q))
        BY <1>8, <3>3, <4>1
      <4>3. ASSUME NEW n \in Places(responses', AnswersOf(q)) PROVE n <= L + 1
        <5>1. n \in Int
          BY <2>1, <3>2, <3>3
        <5>2. n \in 1..L \/ n - L = 1
          BY <1>8, <3>3, <5>1
        <5> QED BY <3>2, <5>1, <5>2
      <4> QED BY <4>2, <4>3
    <3>5. \A n \in Int : Settled(q, n)' <=> L + 1 < n
      BY <3>2, <3>3, <3>4, <2>1 DEF Settled
    <3>6. L + 2 \in Places(responses', DocumentsOf(q)) /\ responses'[L + 2].docs = rows[q]
      <4>1. (L + 2) - L = 2 /\ L + 2 \in Int
        BY <3>2
      <4>2. 2 \in 1..Len(more)
        BY <1>8, <3>1, <3>3
      <4>3. responses'[L + 2] = more[2]
        BY <2>1, <3>2, <4>1, <4>2
      <4> QED BY <1>8, <3>1, <3>3, <4>1, <4>3
    <3>7. ASSUME NEW n \in Places(responses', DocumentsOf(q)), Settled(q, n)'
          PROVE  n = L + 2
      <4>1. n \in Int
        BY <2>1, <3>2, <3>3
      <4>2. L + 1 < n
        BY <3>5, <3>7, <4>1
      <4>3. n \notin Places(responses, DocumentsOf(q))
        BY <3>2, <3>3, <4>1, <4>2
      <4>4. n - L = 2
        BY <1>8, <3>1, <3>3, <4>1, <4>3
      <4> QED BY <3>2, <4>1, <4>4
    <3>8. Settled(q, L + 2)' /\ \A k \in 1..((L + 2) - 1) : ~Settled(q, k)'
      BY <3>2, <3>5
    <3>9. rows[q] >= since[q]
      BY <1>2 DEF Versions
    <3> QED BY <1>1, <3>6, <3>7, <3>8, <3>9 DEF NewsOf
  <2>7. NewsAreFresh'
    BY <1>1, <2>5, <2>6 DEF NewsAreFresh
  <2>8. WatchedForListeners' /\ SinceIsPast' /\ InSyncIsFresh'
    BY <1>1 DEF FreshParts, WatchedForListeners, SinceIsPast, InSyncIsFresh
  <2> QED BY <1>7, <2>3, <2>4, <2>7, <2>8 DEF FreshParts
<1>9. PICK q \in Targets :
        \/ /\ Head(requests) = <<"watch", q>>
           /\ serving' = serving \cup {q}
           /\ responses' = responses \o
                << Message("Added", q, 0), Message("Document", q, rows[q]),
                   Message("Current", q, 0), Message("Snapshot", q, now) >>
        \/ /\ Head(requests) = <<"unwatch", q>>
           /\ serving' = serving \ {q}
           /\ responses' = Append(responses, Message("Removed", q, 0))
  BY DEF BackendAnswers
<1>10. 0 \in Versions /\ rows[q] \in Versions
  BY <1>2 DEF Versions
<1> DEFINE a == Message("Added", q, 0)
           d == Message("Document", q, rows[q])
           c == Message("Current", q, 0)
           s == Message("Snapshot", q, now)
           x == Message("Removed", q, 0)
<1>11. /\ {a, d, c, s, x} \subseteq Messages
       /\ a.type = "Added" /\ d.type = "Document" /\ c.type = "Current"
       /\ s.type = "Snapshot" /\ x.type = "Removed"
       /\ d.docs = rows[q] /\ a.target = q /\ d.target = q /\ x.target = q
  BY <1>2, <1>10 DEF Message, Messages
<1>12. \/ /\ Head(requests) = <<"watch", q>>
          /\ serving' = serving \cup {q}
          /\ responses' = responses \o <<a, d, c, s>>
       \/ /\ Head(requests) = <<"unwatch", q>>
          /\ serving' = serving \ {q}
          /\ responses' = responses \o <<x>>
  <2>1. Append(responses, x) = responses \o <<x>>
    BY <1>2, <1>11, AppendIsConcat
  <2> QED BY <1>9, <2>1
<1> HIDE DEF a, d, c, s, x
<1>13. CASE /\ Head(requests) = <<"watch", q>>
            /\ serving' = serving \cup {q}
            /\ responses' = responses \o <<a, d, c, s>>
  <2> DEFINE more == <<a, d, c, s>>
  <2>1. /\ more \in Seq(Messages) /\ DOMAIN more = 1..4
        /\ more[1] = a /\ more[2] = d /\ more[3] = c /\ more[4] = s
    BY <1>11
  <2>2. responses' = responses \o more /\ serving' \subseteq Targets
    BY <1>2, <1>13
  <2> HIDE DEF more
  <2>3. \A p \in Targets : /\ Places(more, AnswersOf(p)) = IF p = q THEN {1} ELSE {}
                           /\ Places(more, DocumentsOf(p)) = IF p = q THEN {2} ELSE {}
    <3> SUFFICES ASSUME NEW p \in Targets
                 PROVE  /\ Places(more, AnswersOf(p)) = IF p = q THEN {1} ELSE {}
                        /\ Places(more, DocumentsOf(p)) = IF p = q THEN {2} ELSE {}
      OBVIOUS
    <3>1. /\ a \in AnswersOf(p) <=> p = q
          /\ d \notin AnswersOf(p) /\ c \notin AnswersOf(p) /\ s \notin AnswersOf(p)
      BY <1>11 DEF AnswersOf
    <3>2. /\ d \in DocumentsOf(p) <=> p = q
          /\ a \notin DocumentsOf(p) /\ c \notin DocumentsOf(p) /\ s \notin DocumentsOf(p)
      BY <1>11 DEF DocumentsOf
    <3> QED BY <2>1, <3>1, <3>2 DEF Places
  <2>4. more[2].docs = rows[q]
    BY <1>11, <2>1
  <2> QED BY <1>8, <1>13, <2>1, <2>2, <2>3, <2>4
<1>14. CASE /\ Head(requests) = <<"unwatch", q>>
            /\ serving' = serving \ {q}
            /\ responses' = responses \o <<x>>
  <2> DEFINE more == <<x>>
  <2>1. more \in Seq(Messages) /\ DOMAIN more = {1} /\ more[1] = x
    BY <1>11
  <2>2. responses' = responses \o more /\ serving' \subseteq Targets
    BY <1>2, <1>14
  <2> HIDE DEF more
  <2>3. \A p \in Targets : /\ Places(more, AnswersOf(p)) = IF p = q THEN {1} ELSE {}
                           /\ Places(more, DocumentsOf(p)) = {}
    BY <1>11, <2>1 DEF Places, AnswersOf, DocumentsOf
  <2> QED BY <1>8, <1>14, <2>1, <2>2, <2>3
<1> QED BY <1>12, <1>13, <1>14

\* A response is handled: an answer is counted, a document that comes when all is
\* answered is kept, and a snapshot that comes then finds such a document.
LEMMA HandlingKeepsFresh ==
  ASSUME ReadsInv, ReadsInv', FreshParts, ResponseComes
  PROVE  FreshParts'
<1> USE ReadsAssumption
<1> DEFINE m == Head(responses)
<1>1. /\ UNCHANGED <<listeners, since, requests, serving, rows, watched>>
      /\ responses # << >> /\ responses' = Tail(responses)
      /\ IsOpen /\ IsOpen'
      /\ \/ /\ m.type = "Snapshot" /\ MayRaise(m.docs)
            /\ RaiseWatchSnapshot(m.docs)
            /\ UNCHANGED state
         \/ /\ m.type = "Snapshot" /\ ~MayRaise(m.docs)
            /\ UNCHANGED <<view, cache, lastVersion, state, updates>>
         \/ /\ m.type # "Snapshot"
            /\ HandleTargetChange(m)
            /\ HandleDocumentChange(m)
            /\ UNCHANGED <<view, cache, lastVersion>>
  BY DEF ResponseComes, OnWatchStreamChange, IsOpen, database
<1>2. /\ responses \in Seq(Messages)
      /\ state \in [Targets -> [out : Int, current : BOOLEAN]]
      /\ cache \in [Targets -> Versions] /\ updates \in [Targets -> Versions]
      /\ cache' \in [Targets -> Versions] /\ updates' \in [Targets -> Versions]
      /\ since \in [Targets -> Versions]
      /\ view \in [Targets -> [docs : Versions, current : BOOLEAN]]
      /\ requests \in Seq({"watch", "unwatch"} \X Targets)
      /\ watched \subseteq Targets
  BY DEF ReadsInv, ReadsTypes, FreshParts, WireTypes
<1>3. m \in Messages /\ responses' \in Seq(Messages)
  BY <1>1, <1>2, HeadTailProperties
<1>4. \A S : /\ Count(responses, S) = Count(responses', S) + (IF m \in S THEN 1 ELSE 0)
             /\ \A n \in Int : n \in Places(responses', S) <=> 1 <= n /\ n + 1 \in Places(responses, S)
             /\ 1 \in Places(responses, S) <=> m \in S
             /\ Places(responses, S) \subseteq 1..Len(responses)
             /\ Places(responses', S) \subseteq 1..Len(responses')
             /\ Count(responses, S) \in Nat /\ Count(responses', S) \in Nat
             /\ Count(responses, S) = 0 <=> Places(responses, S) = {}
  BY <1>1, <1>2, <1>3, CountTail, CountIsNat
<1>5. \A S : /\ Count(requests, S) \in Nat
             /\ Count(requests, S) = 0 <=> Places(requests, S) = {}
  BY <1>2, CountIsNat
<1>6. /\ Len(responses) \in Nat /\ Len(responses') = Len(responses) - 1 /\ Len(responses) >= 1
      /\ m = responses[1]
      /\ \A n \in 1..(Len(responses) - 1) : responses'[n] = responses[n + 1]
  BY <1>1, <1>2, HeadTailProperties, LenProperties
<1>7. m.target \in Targets /\ m.docs \in Versions
  BY <1>3 DEF Messages
<1> HIDE DEF m
<1>8. \A q \in Targets : \A n \in Int : 1 <= n => (Settled(q, n)' <=> Settled(q, n + 1))
  <2> SUFFICES ASSUME NEW q \in Targets, NEW n \in Int, 1 <= n
               PROVE  Settled(q, n)' <=> Settled(q, n + 1)
    OBVIOUS
  <2>1. ASSUME Settled(q, n + 1), NEW k \in Places(responses', AnswersOf(q)) PROVE k < n
    <3>1. k \in Int
      BY <1>4, <1>6
    <3>2. k + 1 \in Places(responses, AnswersOf(q))
      BY <1>4, <2>1, <3>1
    <3> QED BY <2>1, <3>1, <3>2 DEF Settled
  <2>2. ASSUME Settled(q, n)', NEW k \in Places(responses, AnswersOf(q)) PROVE k < n + 1
    <3>1. k \in Int /\ 1 <= k
      BY <1>4, <1>6
    <3>2. CASE k = 1
      BY <2>2, <3>2
    <3>3. CASE k # 1
      <4>1. k - 1 \in Int /\ 1 <= k - 1 /\ (k - 1) + 1 = k
        BY <3>1, <3>3
      <4>2. k - 1 \in Places(responses', AnswersOf(q))
        BY <1>4, <2>2, <4>1
      <4>3. k - 1 < n
        BY <2>2, <4>2 DEF Settled
      <4> QED BY <3>1, <4>3
    <3> QED BY <3>2, <3>3
  <2> QED BY <2>1, <2>2 DEF Settled
<1>9. WireTypes'
  BY <1>1, <1>2 DEF FreshParts, WireTypes
<1>10. AskedLast' /\ WatchedForListeners' /\ SinceIsPast'
  BY <1>1 DEF FreshParts, AskedLast, WatchedForListeners, SinceIsPast
<1>11. RequestsCounted'
  <2> SUFFICES ASSUME NEW q \in Targets
               PROVE  state'[q].out = Count(requests, RequestsOf(q)) + Count(responses', AnswersOf(q))
    BY <1>1 DEF RequestsCounted
  <2>1. state'[q].out = state[q].out - (IF m \in AnswersOf(q) THEN 1 ELSE 0)
    <3>1. m \in AnswersOf(q) <=> m.type \in {"Added", "Removed"} /\ m.target = q
      BY <1>3 DEF AnswersOf
    <3>2. state[q].out \in Int
      BY <1>2
    <3>3. CASE UNCHANGED state
      <4>1. m.type = "Snapshot" \/ HandleTargetChange(m)
        BY <1>1
      <4>2. CASE m.type = "Snapshot"
        BY <3>1, <3>2, <3>3, <4>2
      <4>3. CASE HandleTargetChange(m) /\ m.type # "Snapshot"
        BY <1>2, <1>7, <3>1, <3>2, <4>3 DEF HandleTargetChange, NewState
      <4> QED BY <4>1, <4>2, <4>3
    <3>4. CASE HandleTargetChange(m)
      BY <1>2, <1>7, <3>1, <3>2, <3>4 DEF HandleTargetChange, NewState
    <3> QED BY <1>1, <3>3, <3>4
  <2>2. state[q].out = Count(requests, RequestsOf(q)) + Count(responses, AnswersOf(q))
    BY DEF FreshParts, RequestsCounted
  <2> QED BY <1>4, <1>5, <2>1, <2>2
\* A target whose requests are all answered is active, and the other way round.
<1>12. ASSUME NEW q \in watched, Places(requests, RequestsOf(q)) = {}, Settled(q, 1)
       PROVE  IsActiveTarget(q)
  <2>1. q \in Targets
    BY <1>2
  <2>2. Places(responses, AnswersOf(q)) = {}
    BY <1>4, <1>6, <1>12 DEF Settled
  <2>3. Count(responses, AnswersOf(q)) = 0 /\ Count(requests, RequestsOf(q)) = 0
    BY <1>4, <1>5, <1>12, <2>2
  <2>4. state[q].out = 0
    BY <2>1, <2>3 DEF FreshParts, RequestsCounted
  <2> QED BY <1>12, <2>4 DEF IsActiveTarget
<1>13. ASSUME NEW q \in Targets, IsActiveTarget(q)
       PROVE  q \in watched /\ NewsOf(q) /\ Settled(q, 1)
  <2>1. state[q].out = Count(requests, RequestsOf(q)) + Count(responses, AnswersOf(q))
    BY DEF FreshParts, RequestsCounted
  <2>2. state[q].out = 0 /\ q \in watched
    BY <1>13 DEF IsActiveTarget
  <2>3. Count(requests, RequestsOf(q)) = 0 /\ Count(responses, AnswersOf(q)) = 0
    BY <1>4, <1>5, <2>1, <2>2
  <2>4. Places(requests, RequestsOf(q)) = {} /\ Places(responses, AnswersOf(q)) = {}
    BY <1>4, <1>5, <2>3
  <2> QED BY <1>1, <2>2, <2>4 DEF FreshParts, NewsAreFresh, Settled
<1>14. \A q \in Targets : cache[q] \in Int /\ updates[q] \in Int /\ updates'[q] \in Int /\ since[q] \in Int
                          /\ cache'[q] \in Int /\ 0 <= cache[q] /\ view[q].docs \in Int
  BY <1>2 DEF Versions
\* The head of the responses is a document of an active target.
<1>15. ASSUME NEW q \in Targets, m.type = "Document", m.target = q, IsActiveTarget(q)
       PROVE  updates'[q] >= since[q] /\ UNCHANGED cache
  <2>1. updates'[q] = m.docs /\ UNCHANGED cache
    BY <1>1, <1>2, <1>15 DEF HandleDocumentChange
  <2>2. m \in DocumentsOf(q)
    BY <1>3, <1>15 DEF DocumentsOf
  <2>3. 1 \in Places(responses, DocumentsOf(q))
    BY <1>4, <2>2
  <2>4. responses[1].docs >= since[q]
    BY <1>13, <1>15, <2>3 DEF NewsOf
  <2> QED BY <1>6, <2>1, <2>4
<1>16. ASSUME NEW q \in Targets, Newer(cache[q], updates[q]) >= since[q]
       PROVE  Newer(cache'[q], updates'[q]) >= since[q]
  <2>1. CASE UNCHANGED cache /\ updates'[q] = updates[q]
    BY <1>16, <2>1
  <2>2. CASE m.type = "Document" /\ m.target = q /\ IsActiveTarget(q)
    BY <1>14, <1>15, <2>2 DEF Newer
  <2>3. CASE RaiseWatchSnapshot(m.docs)
    <3>1. cache'[q] = Newer(cache[q], updates[q]) /\ updates'[q] = 0
      BY <2>3 DEF RaiseWatchSnapshot
    <3> QED BY <1>14, <1>16, <3>1 DEF Newer
  <2>4. HandleDocumentChange(m) /\ ~(m.type = "Document" /\ m.target = q /\ IsActiveTarget(q))
          => updates'[q] = updates[q]
    BY <1>2, <1>7 DEF HandleDocumentChange
  <2> QED BY <1>1, <2>1, <2>2, <2>3, <2>4
<1>17. NewsAreFresh'
  <2> SUFFICES ASSUME NEW q \in watched, Places(requests, RequestsOf(q)) = {}
               PROVE  NewsOf(q)'
    BY <1>1 DEF NewsAreFresh
  <2>1. NewsOf(q) /\ q \in Targets
    BY <1>1, <1>2 DEF FreshParts, NewsAreFresh
  <2>2. ASSUME NEW n \in Places(responses', DocumentsOf(q)), Settled(q, n)'
        PROVE  responses'[n].docs >= since[q]
    <3>1. n \in Int /\ 1 <= n /\ n \in 1..(Len(responses) - 1)
      BY <1>4, <1>6
    <3>2. n + 1 \in Places(responses, DocumentsOf(q)) /\ Settled(q, n + 1)
      BY <1>4, <1>8, <2>1, <2>2, <3>1
    <3>3. responses'[n] = responses[n + 1]
      BY <1>6, <3>1
    <3> QED BY <2>1, <3>2, <3>3 DEF NewsOf
  <2>3. CASE Newer(cache[q], updates[q]) >= since[q]
    BY <1>1, <1>16, <2>1, <2>2, <2>3 DEF NewsOf
  <2>4. ASSUME NEW n \in Places(responses, DocumentsOf(q)), Settled(q, n),
               \A k \in 1..(n - 1) : responses[k].type = "Snapshot" => ~Settled(q, k)
        PROVE  NewsOf(q)'
    <3>1. n \in 1..Len(responses)
      BY <1>4
    <3>2. CASE n = 1
      <4>1. m.type = "Document" /\ m.target = q
        BY <1>4, <2>4, <3>2 DEF DocumentsOf
      <4>2. IsActiveTarget(q)
        BY <1>12, <2>4, <3>2
      <4>3. Newer(cache'[q], updates'[q]) >= since[q]
        BY <1>14, <1>15, <2>1, <4>1, <4>2 DEF Newer
      <4> QED BY <1>1, <2>2, <4>3 DEF NewsOf
    <3>3. CASE n # 1
      <4>1. n - 1 \in Int /\ 1 <= n - 1 /\ (n - 1) + 1 = n
        BY <3>1, <3>3
      <4>2. n - 1 \in Places(responses', DocumentsOf(q)) /\ Settled(q, n - 1)'
        BY <1>4, <1>8, <2>1, <2>4, <4>1
      <4>3. ASSUME NEW k \in 1..((n - 1) - 1), responses'[k].type = "Snapshot"
            PROVE  ~Settled(q, k)'
        <5>1. k + 1 \in 1..(n - 1) /\ k \in Int /\ 1 <= k /\ k \in 1..(Len(responses) - 1)
          BY <1>6, <3>1, <4>1
        <5>2. responses[k + 1].type = "Snapshot"
          BY <1>6, <4>3, <5>1
        <5>3. ~Settled(q, k + 1)
          BY <2>4, <5>1, <5>2
        <5> QED BY <1>8, <2>1, <5>1, <5>3
      <4>4. \E j \in Places(responses', DocumentsOf(q)) :
              /\ Settled(q, j)'
              /\ \A k \in 1..(j - 1) : responses'[k].type = "Snapshot" => ~Settled(q, k)'
        BY <4>2, <4>3
      <4> QED BY <1>1, <2>2, <4>4 DEF NewsOf
    <3> QED BY <3>2, <3>3
  <2> QED BY <2>1, <2>3, <2>4 DEF NewsOf
<1>18. InSyncIsFresh'
  <2> SUFFICES ASSUME NEW q \in Targets, listeners[q] # {}, view'[q].current
               PROVE  view'[q].docs >= since[q]
    BY <1>1 DEF InSyncIsFresh
  <2>1. view[q].current => view[q].docs >= since[q]
    BY DEF FreshParts, InSyncIsFresh
  <2>2. CASE UNCHANGED view
    BY <2>1, <2>2
  <2>3. CASE m.type = "Snapshot" /\ RaiseWatchSnapshot(m.docs)
    <3>1. /\ cache'[q] = Newer(cache[q], updates[q])
          /\ view'[q].docs = cache'[q]
          /\ view'[q].current = IF IsActiveTarget(q) THEN state[q].current ELSE view[q].current
      BY <2>3 DEF RaiseWatchSnapshot
    <3>2. CASE IsActiveTarget(q)
      <4>1. NewsOf(q) /\ Settled(q, 1)
        BY <1>13, <3>2
      <4>2. Newer(cache[q], updates[q]) >= since[q]
        <5> SUFFICES ASSUME NEW n \in Places(responses, DocumentsOf(q)),
                            \A k \in 1..(n - 1) : responses[k].type = "Snapshot" => ~Settled(q, k)
                     PROVE  FALSE
          BY <4>1 DEF NewsOf
        <5>1. n \in 1..Len(responses)
          BY <1>4
        <5>2. n # 1
          <6>1. m \notin DocumentsOf(q)
            BY <2>3 DEF DocumentsOf
          <6> QED BY <1>4, <6>1
        <5>3. 1 \in 1..(n - 1)
          BY <5>1, <5>2
        <5> QED BY <1>6, <2>3, <4>1, <5>3
      <4> QED BY <3>1, <4>2
    <3>3. CASE ~IsActiveTarget(q)
      <4>1. view[q].docs = cache[q]
        BY DEF ReadsInv, ViewsShowCache
      <4> QED BY <1>14, <2>1, <3>1, <3>3, <4>1 DEF Newer
    <3> QED BY <3>2, <3>3
  <2> QED BY <1>1, <2>2, <2>3
<1> QED BY <1>9, <1>10, <1>11, <1>17, <1>18 DEF FreshParts

FreshInv == ReadsInv /\ FreshParts

LEMMA FreshStep == FreshInv /\ [Next]_vars => FreshInv'
<1> SUFFICES ASSUME ReadsInv, ReadsInv', FreshParts, [Next]_vars PROVE FreshParts'
  BY ReadsStep DEF FreshInv
<1> USE ReadsAssumption
<1>1. ASSUME NEW l \in Listeners, AddQueryListener(l) \/ RemoveQueryListener(l)
      PROVE  FreshParts'
  BY <1>1, AddingKeepsFresh, RemovingKeepsFresh
<1>2. CASE StreamOpens
  BY <1>2, StreamOpensKeeps
<1>3. CASE StreamIdles \/ Fault
  <2>1. ConnectionTask /\ NewStream /\ UNCHANGED watched
    BY <1>3 DEF StreamIdles, Fault, IdleTimeout, OnWatchStreamError, RestartNetwork
  <2>2. ~IsOpen'
    BY <1>3 DEF StreamIdles, Fault, IdleTimeout, OnWatchStreamError, RestartNetwork, IsOpen
  <2>3. UNCHANGED <<rows, since, listeners>>
    BY <2>1 DEF ConnectionTask, database
  <2> QED BY <2>1, <2>2, <2>3, HearingLeavesSync, NewStreamKeeps
<1>4. CASE OnlineTimerFires \/ BackoffEnds
  <2>1. ConnectionTask /\ UNCHANGED <<wire, watched>> /\ (IsOpen' <=> IsOpen)
    BY <1>4 DEF OnlineTimerFires, BackoffEnds, OnlineStateTimeout, BackoffElapses, IsOpen
  <2>2. UNCHANGED <<cache, rows, since, listeners>>
    BY <2>1 DEF ConnectionTask, database
  <2> QED BY <2>1, <2>2, HearingLeavesSync, LeavingSyncKeeps
<1>5. CASE ResponseComes
  BY <1>5, HandlingKeepsFresh
<1>6. CASE BackendAnswers
  BY <1>6, AnsweringKeepsFresh
<1>7. ASSUME NEW q \in Targets, Publish(q) PROVE FreshParts'
  BY <1>7, PublishingKeepsFresh
<1>8. CASE User \/ OnEvent \/ UNCHANGED vars
  <2>1. UNCHANGED <<connection, wire, client, database>>
    BY <1>8 DEF User, AddSnapshotListener, StopLive, OnEvent, vars
  <2>2. UNCHANGED <<wire, cache, rows, since, listeners, watched, view>> /\ (IsOpen' <=> IsOpen)
    BY <2>1 DEF connection, client, database, IsOpen
  <2>3. ViewsOnlyLeaveSync
    BY <2>2 DEF ViewsOnlyLeaveSync
  <2> QED BY <2>2, <2>3, LeavingSyncKeeps
<1> QED
  BY <1>1, <1>2, <1>3, <1>4, <1>5, <1>6, <1>7, <1>8 DEF Next, Client, Network

\* Whatever the network does: a view that says it is in sync shows nothing older than
\* the database had when the view was made, also when the same target was watched
\* before and answers to that are still on their way.
THEOREM ReadsInSyncIsFresh == SilentSpec => []InSyncIsFresh
<1>1. Init => FreshInv
  BY ReadsStart, FreshStart DEF FreshInv
<1>2. FreshInv /\ [Next]_vars => FreshInv'
  BY FreshStep
<1>3. FreshInv => InSyncIsFresh
  BY DEF FreshInv, FreshParts
<1> QED BY <1>1, <1>2, <1>3, PTL DEF SilentSpec

-----------------------------------------------------------------------------
(***************************************************************************)
(* Types: what is told, what is on the wire, and who has called.           *)
(***************************************************************************)
\* Who is called by the worker queue and by the executor has called.
Callers ==
  /\ called \subseteq Listeners
  /\ muted \subseteq called /\ raised \subseteq called
  /\ tasks \in Seq({"add", "remove"} \X called)
  /\ \A n \in DOMAIN events : events[n].to \in called
  /\ \A q \in Targets : listeners[q] \subseteq called
  /\ faults \in 0..MaxFaults

LEMMA CallersStart == Init => Callers
<1> SUFFICES ASSUME Init PROVE Callers
  OBVIOUS
<1>1. << >> \in Seq({"add", "remove"} \X called)
  BY EmptySeq
<1> QED BY <1>1, ReadsAssumption DEF Init, Callers

\* Events are raised to those who listen.
LEMMA RaisedToCallers ==
  ASSUME ReadsInv, Callers, RaiseEvents, called' = called,
         \A q \in Targets : listeners'[q] \subseteq called
  PROVE  raised' \subseteq called /\ \A n \in DOMAIN events' : events'[n].to \in called
<1> USE ReadsAssumption
<1> DEFINE all == {l \in Listeners : Raises(l)}
<1>1. PICK s \in SetToSeqs(all) :
        events' = events \o [n \in DOMAIN s |-> Event(s[n], view'[asks[s[n]]])]
  BY DEF RaiseEvents
<1>2. raised' = raised \cup all /\ all \subseteq called
  BY DEF RaiseEvents, Raises
<1> DEFINE c == Cardinality(all)
           more == [n \in DOMAIN s |-> Event(s[n], view'[asks[s[n]]])]
<1>3. c \in Nat /\ s \in [1..c -> all]
  <2>1. IsFiniteSet(all)
    BY FS_Subset
  <2> QED BY <2>1, FS_CardinalityType DEF SetToSeqs
<1>4. DOMAIN more = 1..c /\ \A n \in 1..c : more[n].to \in called
  <2>1. \A n \in 1..c : more[n] = Event(s[n], view'[asks[s[n]]]) /\ s[n] \in called
    BY <1>2, <1>3
  <2>2. DOMAIN more = 1..c
    BY <1>3
  <2> HIDE DEF more, all, c
  <2>3. ASSUME NEW n \in 1..c PROVE more[n].to = s[n]
    <3> DEFINE v == view'[asks[s[n]]]
    <3>1. more[n] = Event(s[n], v)
      BY <2>1
    <3> HIDE DEF v
    <3>2. more[n] = [to |-> s[n], docs |-> v.docs, fromCache |-> ~v.current]
      BY <3>1 DEF Event
    <3> QED BY <3>2
  <2> QED BY <2>1, <2>2, <2>3
<1>5. events' = events \o more
  BY <1>1
<1> HIDE DEF more, c
<1>6. events \in Seq(Events)
  BY DEF ReadsInv, ReadsTypes
<1>7. \A n \in DOMAIN events' :
        \/ n \in DOMAIN events /\ events'[n] = events[n]
        \/ n - Len(events) \in 1..c /\ events'[n] = more[n - Len(events)]
  BY <1>3, <1>4, <1>5, <1>6, LenProperties
<1> QED BY <1>2, <1>4, <1>7 DEF Callers

LEMMA CallersStep ==
  ASSUME ReadsInv, Callers, [Next]_vars
  PROVE  Callers'
<1> USE ReadsAssumption
<1>1. ASSUME NEW l \in Listeners, AddSnapshotListener(l) PROVE Callers'
  <2>1. called' = called \cup {l} /\ tasks' = Append(tasks, <<"add", l>>)
        /\ UNCHANGED <<muted, raised, events, listeners, faults>>
    BY <1>1 DEF AddSnapshotListener, client
  <2>2. tasks \in Seq({"add", "remove"} \X called')
    <3>1. {"add", "remove"} \X called \subseteq {"add", "remove"} \X called'
      BY <2>1
    <3> QED BY <3>1, SeqMonotonic DEF Callers
  <2>3. <<"add", l>> \in {"add", "remove"} \X called'
    BY <2>1
  <2>4. tasks' \in Seq({"add", "remove"} \X called')
    BY <2>1, <2>2, <2>3, AppendProperties
  <2> QED BY <2>1, <2>4 DEF Callers
<1>2. ASSUME NEW l \in called, RemoveListener(l),
             UNCHANGED <<called, raised, listeners, faults>>,
             \A n \in DOMAIN events' : events'[n].to \in called
      PROVE  Callers'
  <2>1. <<"remove", l>> \in {"add", "remove"} \X called
    OBVIOUS
  <2>2. tasks' \in Seq({"add", "remove"} \X called)
    BY <1>2, <2>1, AppendProperties DEF Callers, RemoveListener
  <2> QED BY <1>2, <2>2 DEF Callers, RemoveListener
<1>3. ASSUME NEW l \in Lives, StopLive(l) PROVE Callers'
  <2>1. l \in called /\ RemoveListener(l) /\ UNCHANGED <<called, raised, events, listeners, faults>>
    BY <1>3 DEF StopLive, client
  <2> QED BY <1>2, <2>1 DEF Callers
<1>4. CASE OnEvent
  <2>1. /\ events # << >> /\ events' = Tail(events)
        /\ UNCHANGED <<called, raised, listeners, faults>>
        /\ UNCHANGED <<muted, tasks>> \/ RemoveListener(Head(events).to)
    BY <1>4 DEF OnEvent, client
  <2>2. events \in Seq(Events)
    BY DEF ReadsInv, ReadsTypes
  <2>3. /\ Head(events).to \in called
        /\ \A n \in DOMAIN events' : events'[n].to \in called
    <3>1. /\ Tail(events) \in Seq(Events)
          /\ Len(Tail(events)) = Len(events) - 1
          /\ \A n \in 1..Len(Tail(events)) : Tail(events)[n] = events[n + 1]
      BY <2>1, <2>2, HeadTailProperties
    <3>2. Len(events) \in Nat /\ DOMAIN events = 1..Len(events)
          /\ DOMAIN Tail(events) = 1..Len(Tail(events))
      BY <2>2, <3>1, LenProperties
    <3>3. \A n \in DOMAIN events' : n + 1 \in DOMAIN events /\ events'[n] = events[n + 1]
      BY <2>1, <3>1, <3>2
    <3>4. 1 \in DOMAIN events /\ Head(events) = events[1]
      BY <2>1, <2>2
    <3> QED BY <3>3, <3>4 DEF Callers
  <2>4. CASE UNCHANGED <<muted, tasks>>
    BY <2>1, <2>3, <2>4 DEF Callers
  <2> QED BY <1>2, <2>1, <2>3, <2>4
<1>5. ASSUME NEW l \in Listeners, AddQueryListener(l) \/ RemoveQueryListener(l)
      PROVE  Callers'
  <2> DEFINE T == {"add", "remove"} \X called
  <2>1. /\ tasks # << >> /\ tasks' = Tail(tasks)
        /\ Head(tasks) = <<"add", l>> \/ Head(tasks) = <<"remove", l>>
        /\ UNCHANGED <<called, muted, faults>>
    BY <1>5 DEF AddQueryListener, RemoveQueryListener, user
  <2>2. tasks \in Seq(T)
    BY DEF Callers
  <2> HIDE DEF T
  <2>3. tasks' \in Seq(T) /\ Head(tasks) \in T
    BY <2>1, <2>2, HeadTailProperties
  <2>4. l \in called
    BY <2>1, <2>3 DEF T
  <2>5. \A q \in Targets : listeners'[q] \subseteq called
    <3>1. \/ listeners' = [listeners EXCEPT ![asks[l]] = @ \cup {l}]
          \/ listeners' = [listeners EXCEPT ![asks[l]] = @ \ {l}]
      BY <1>5 DEF AddQueryListener, RemoveQueryListener
    <3>2. listeners \in [Targets -> SUBSET Listeners]
          /\ \A q \in Targets : listeners[q] \subseteq called
      BY DEF Callers, ReadsInv, ReadsTypes
    <3> QED BY <2>4, <3>1, <3>2
  <2>6. raised' \subseteq called /\ \A n \in DOMAIN events' : events'[n].to \in called
    <3>1. RaiseEvents \/ UNCHANGED <<events, raised>>
      BY <1>5 DEF AddQueryListener, RemoveQueryListener
    <3> QED BY <2>1, <2>5, <3>1, RaisedToCallers DEF Callers
  <2> QED BY <2>1, <2>3, <2>5, <2>6 DEF Callers, T
<1>6. CASE StreamOpens \/ StreamIdles \/ OnlineTimerFires \/ BackoffEnds \/ Fault \/ ResponseComes
  <2>1. UNCHANGED <<called, muted, tasks, listeners>> /\ RaiseEvents
    BY <1>6 DEF StreamOpens, StreamIdles, OnlineTimerFires, BackoffEnds, Fault, ResponseComes,
                ConnectionTask, user
  <2>2. faults' \in 0..MaxFaults
    BY <1>6 DEF StreamOpens, StreamIdles, OnlineTimerFires, BackoffEnds, Fault, ResponseComes, Callers
  <2>3. raised' \subseteq called /\ \A n \in DOMAIN events' : events'[n].to \in called
    BY <2>1, RaisedToCallers DEF Callers
  <2> QED BY <2>1, <2>2, <2>3 DEF Callers
<1>7. CASE BackendAnswers \/ (\E q \in Targets : Publish(q)) \/ UNCHANGED vars
  <2>1. UNCHANGED <<called, muted, raised, tasks, events, listeners, faults>>
    BY <1>7 DEF BackendAnswers, Publish, vars, user, client
  <2> QED BY <2>1 DEF Callers
<1> QED BY <1>1, <1>3, <1>4, <1>5, <1>6, <1>7 DEF Next, User, Client, Network

\* The state is of its type for any queries, readers and faults: no counter of
\* requests falls below zero, and nobody is told who did not ask.
THEOREM ReadsTypeOK == SilentSpec => []TypeOK
<1> DEFINE All == ConnectionInv /\ FreshInv /\ Callers
<1>1. Init => All
  BY ConnectionStart, ReadsStart, FreshStart, CallersStart DEF Init, FreshInv
<1>2. All /\ [Next]_vars => All'
  <2> SUFFICES ASSUME All, [Next]_vars PROVE All'
    OBVIOUS
  <2>1. ConnectionInv'
    BY ConnectionStep, TaskIsConnectionStep
  <2>2. FreshInv' /\ Callers'
    BY FreshStep, CallersStep DEF FreshInv
  <2> QED BY <2>1, <2>2
<1>3. All => TypeOK
  <2> SUFFICES ASSUME All PROVE TypeOK
    OBVIOUS
  <2>1. ConnectionTypeOK /\ ReadsTypes /\ WireTypes /\ Callers
    BY DEF ConnectionInv, FreshInv, ReadsInv, FreshParts
  <2>2. state \in [Targets -> [out : Nat, current : BOOLEAN]]
    <3>1. \A q \in Targets : state[q] \in [out : Int, current : BOOLEAN] /\ state[q].out \in Nat
      <4> SUFFICES ASSUME NEW q \in Targets
                   PROVE  state[q] \in [out : Int, current : BOOLEAN] /\ state[q].out \in Nat
        OBVIOUS
      <4>1. Count(requests, RequestsOf(q)) \in Nat /\ Count(responses, AnswersOf(q)) \in Nat
        BY <2>1, CountIsNat DEF ReadsTypes, WireTypes
      <4>2. state[q].out = Count(requests, RequestsOf(q)) + Count(responses, AnswersOf(q))
        BY DEF FreshInv, FreshParts, RequestsCounted
      <4> QED BY <2>1, <4>1, <4>2 DEF ReadsTypes
    <3>2. \A q \in Targets : state[q] \in [out : Nat, current : BOOLEAN]
      BY <3>1
    <3> QED BY <2>1, <3>2 DEF ReadsTypes
  <2>3. tasks \in Seq({"add", "remove"} \X Listeners)
    <3>1. {"add", "remove"} \X called \subseteq {"add", "remove"} \X Listeners
      BY <2>1 DEF Callers
    <3> QED BY <2>1, <3>1, SeqMonotonic DEF Callers
  <2> QED BY <2>1, <2>2, <2>3 DEF TypeOK, ReadsTypes, WireTypes, Callers
<1> QED BY <1>1, <1>2, <1>3, PTL DEF SilentSpec

-----------------------------------------------------------------------------
(*****************************************************************************)
(* What is due.  Responses come in the order of their versions, and all that *)
(* a client has asked for and not yet been shown is on its way to it.      *)
(*****************************************************************************)
Snapshots == {m \in Messages : m.type = "Snapshot"}

\* The versions of the responses in S never fall, and are between low and high.
Ascending(S, low, high) ==
  \A n \in Places(responses, S) :
     /\ low <= responses[n].docs /\ responses[n].docs <= high
     /\ \A k \in Places(responses, S) : k < n => responses[k].docs <= responses[n].docs

\* Snapshots come in their order, none too old to be raised; so do the documents of a
\* target.
InOrder ==
  /\ lastVersion <= now
  /\ Ascending(Snapshots, lastVersion, now)
  /\ \A q \in Targets : Ascending(DocumentsOf(q), updates[q], rows[q])

\* Message m is still to be heard by a client that counts it (n > 0) or has been heard
\* (n = 0); what it says has been seen, or will be with a snapshot that comes after it.
Due(q, m, had, seen) ==
  \E n \in Places(responses, {m}) \cup {0} :
     /\ n = 0 => had
     /\ Settled(q, n)
     /\ \/ n = 0 /\ seen
        \/ \E s \in Places(responses, Snapshots) : n < s

\* What a sequence of responses that grows has in its places.
LEMMA Grown ==
  ASSUME responses \in Seq(Messages), NEW more \in Seq(Messages),
         responses' = responses \o more
  PROVE  /\ responses' \in Seq(Messages)
         /\ Len(responses) \in Nat
         /\ \A S : /\ Places(responses, S) \subseteq 1..Len(responses)
                   /\ Places(responses', S) \subseteq Nat \ {0}
                   /\ Places(more, S) \subseteq Nat \ {0}
         /\ \A S : \A n \in Places(responses', S) :
              \/ n \in Places(responses, S) /\ responses'[n] = responses[n]
              \/ n - Len(responses) \in Places(more, S) /\ responses'[n] = more[n - Len(responses)]
         /\ \A S : \A n \in Places(responses, S) :
              n \in Places(responses', S) /\ responses'[n] = responses[n]
         /\ \A S : \A n \in Places(more, S) :
              /\ n + Len(responses) \in Places(responses', S)
              /\ responses'[n + Len(responses)] = more[n]
<1>1. /\ responses' \in Seq(Messages)
      /\ Len(responses') = Len(responses) + Len(more)
      /\ \A n \in 1..(Len(responses) + Len(more)) :
           responses'[n] = IF n <= Len(responses) THEN responses[n]
                                                  ELSE more[n - Len(responses)]
  BY ConcatProperties
<1>2. /\ Len(responses) \in Nat /\ DOMAIN responses = 1..Len(responses)
      /\ Len(more) \in Nat /\ DOMAIN more = 1..Len(more)
      /\ DOMAIN responses' = 1..(Len(responses) + Len(more))
  BY <1>1, LenProperties
<1> QED BY <1>1, <1>2 DEF Places

\* What is in the places of a sequence of responses whose head is taken.
LEMMA Taken ==
  ASSUME responses \in Seq(Messages), responses # << >>, responses' = Tail(responses)
  PROVE  /\ Head(responses) \in Messages /\ Head(responses) = responses[1]
         /\ responses' \in Seq(Messages)
         /\ \A S : /\ Places(responses, S) \subseteq Nat \ {0}
                   /\ Places(responses', S) \subseteq Nat \ {0}
                   /\ 1 \in Places(responses, S) <=> Head(responses) \in S
         /\ \A S : \A n \in Places(responses', S) :
              n + 1 \in Places(responses, S) /\ responses'[n] = responses[n + 1]
         /\ \A S : \A n \in Places(responses, S) \ {1} :
              n - 1 \in Places(responses', S) /\ responses'[n - 1] = responses[n]
<1>1. /\ Head(responses) \in Messages
      /\ responses' \in Seq(Messages)
      /\ Len(responses') = Len(responses) - 1
      /\ \A n \in 1..Len(responses') : responses'[n] = responses[n + 1]
  BY HeadTailProperties
<1>2. /\ Len(responses) \in Nat /\ DOMAIN responses = 1..Len(responses)
      /\ DOMAIN responses' = 1..Len(responses') /\ Len(responses) >= 1
      /\ Head(responses) = responses[1]
  BY <1>1, LenProperties
<1> QED BY <1>1, <1>2 DEF Places

\* A response that is appended keeps the order when nothing on the wire is newer than it.
LEMMA AscendingAppended ==
  ASSUME responses \in Seq(Messages), NEW more \in Seq(Messages),
         responses' = responses \o more,
         NEW S, NEW low \in Int, NEW high \in Int, NEW high1 \in Int,
         Ascending(S, low, high), low <= high1, high <= high1,
         \A n \in Places(more, S) : more[n].docs = high1
  PROVE  Ascending(S, low, high1)'
<1>1. responses \in [1..Len(responses) -> Messages] /\ DOMAIN responses = 1..Len(responses)
  BY LenProperties
<1>2. \A n \in Places(responses, S) : responses[n].docs \in Int
  BY <1>1 DEF Places, Messages, Versions
<1>3. \A n \in Places(responses', S) :
        \/ /\ n \in Places(responses, S) /\ responses'[n] = responses[n]
           /\ n <= Len(responses) /\ n \in Nat
        \/ /\ n \notin Places(responses, S) /\ responses'[n].docs = high1
           /\ n > Len(responses) /\ n \in Nat
  <2> SUFFICES ASSUME NEW n \in Places(responses', S)
               PROVE  \/ /\ n \in Places(responses, S) /\ responses'[n] = responses[n]
                         /\ n <= Len(responses) /\ n \in Nat
                      \/ /\ n \notin Places(responses, S) /\ responses'[n].docs = high1
                         /\ n > Len(responses) /\ n \in Nat
    OBVIOUS
  <2>1. Len(responses) \in Nat /\ n \in Nat /\ Places(responses, S) \subseteq 1..Len(responses)
    BY Grown
  <2>2. CASE n \in Places(responses, S)
    BY <2>1, <2>2, Grown
  <2>3. CASE n \notin Places(responses, S)
    <3>0. \A T : \A i \in Places(responses', T) :
            \/ i \in Places(responses, T) /\ responses'[i] = responses[i]
            \/ i - Len(responses) \in Places(more, T) /\ responses'[i] = more[i - Len(responses)]
      BY Grown
    <3>1. n - Len(responses) \in Places(more, S) /\ responses'[n] = more[n - Len(responses)]
      BY <2>3, <3>0
    <3>2. n - Len(responses) \in Nat \ {0}
      BY <3>1, Grown
    <3> QED BY <2>1, <2>3, <3>1, <3>2
  <2> QED BY <2>2, <2>3
<1> SUFFICES ASSUME NEW n \in Places(responses', S)
             PROVE  /\ low <= responses'[n].docs /\ responses'[n].docs <= high1
                    /\ \A k \in Places(responses', S) :
                         k < n => responses'[k].docs <= responses'[n].docs
  BY DEF Ascending
<1>4. \A k \in Places(responses', S) : responses'[k].docs \in Int /\ responses'[k].docs <= high1
  <2>1. \A k \in Places(responses, S) : responses[k].docs \in Int /\ responses[k].docs <= high1
    BY <1>2 DEF Ascending
  <2>2. ASSUME NEW k \in Places(responses', S)
        PROVE  responses'[k].docs \in Int /\ responses'[k].docs <= high1
    <3>1. CASE k \in Places(responses, S) /\ responses'[k] = responses[k]
      BY <2>1, <3>1
    <3>2. CASE responses'[k].docs = high1
      BY <3>2
    <3> QED BY <1>3, <2>2, <3>1, <3>2
  <2> QED BY <2>2
<1>5. CASE n \in Places(responses, S) /\ responses'[n] = responses[n]
  <2>1. ASSUME NEW k \in Places(responses', S), k < n
        PROVE  responses'[k].docs <= responses'[n].docs
    <3>1. k \in Places(responses, S) /\ responses'[k] = responses[k]
      BY <1>3, <1>5, <2>1, Grown
    <3> QED BY <1>5, <2>1, <3>1 DEF Ascending
  <2> QED BY <1>4, <1>5, <2>1 DEF Ascending
<1>6. CASE responses'[n].docs = high1
  BY <1>4, <1>6
<1> QED BY <1>3, <1>5, <1>6

\* The head is the oldest of its kind: taking it leaves the rest in order above it.
LEMMA AscendingTaken ==
  ASSUME responses \in Seq(Messages), responses # << >>, responses' = Tail(responses),
         NEW S, NEW low \in Int, NEW high \in Int, NEW low1 \in Int,
         Ascending(S, low, high),
         low1 <= low \/ (Head(responses) \in S /\ low1 = Head(responses).docs)
  PROVE  Ascending(S, low1, high)'
<1>1. responses \in [1..Len(responses) -> Messages] /\ DOMAIN responses = 1..Len(responses)
  BY LenProperties
<1>2. \A n \in Places(responses, S) : responses[n].docs \in Int
  BY <1>1 DEF Places, Messages, Versions
<1>3. \A n \in Places(responses, S) : n # 1 => low1 <= responses[n].docs
  <2>1. CASE low1 <= low
    BY <1>2, <2>1 DEF Ascending
  <2>2. CASE Head(responses) \in S /\ low1 = Head(responses).docs
    <3>1. 1 \in Places(responses, S) /\ responses[1].docs = low1
      BY <2>2, Taken
    <3>2. \A n \in Places(responses, S) : n # 1 => 1 < n
      BY Taken
    <3> QED BY <3>1, <3>2 DEF Ascending
  <2> QED BY <2>1, <2>2
<1> SUFFICES ASSUME NEW n \in Places(responses', S)
             PROVE  /\ low1 <= responses'[n].docs /\ responses'[n].docs <= high
                    /\ \A k \in Places(responses', S) :
                         k < n => responses'[k].docs <= responses'[n].docs
  BY DEF Ascending
<1>4. \A k \in Places(responses', S) :
        /\ k + 1 \in Places(responses, S) /\ responses'[k] = responses[k + 1] /\ k \in Nat \ {0}
  BY Taken
<1>5. low1 <= responses'[n].docs /\ responses'[n].docs <= high
  <2>1. n + 1 \in Places(responses, S) /\ responses'[n] = responses[n + 1]
    BY <1>4
  <2>2. n + 1 # 1
    BY <1>4
  <2> QED BY <1>3, <2>1, <2>2 DEF Ascending
<1>6. ASSUME NEW k \in Places(responses', S), k < n
      PROVE  responses'[k].docs <= responses'[n].docs
  <2>1. k + 1 < n + 1
    BY <1>4, <1>6
  <2> QED BY <1>4, <2>1 DEF Ascending
<1> QED BY <1>5, <1>6

\* What is due stays due when responses follow that hold no answer about its target.
LEMMA DueAppended ==
  ASSUME responses \in Seq(Messages), NEW more \in Seq(Messages),
         responses' = responses \o more,
         NEW q \in Targets, Places(more, AnswersOf(q)) = {},
         NEW m, NEW had \in BOOLEAN, NEW seen \in BOOLEAN,
         Due(q, m, had, seen)
  PROVE  Due(q, m, had, seen)'
<1>1. PICK n \in Places(responses, {m}) \cup {0} :
        /\ n = 0 => had
        /\ Settled(q, n)
        /\ \/ n = 0 /\ seen
           \/ \E s \in Places(responses, Snapshots) : n < s
  BY DEF Due
<1>2. n \in Places(responses', {m}) \cup {0}
  BY Grown
<1>3. Settled(q, n)'
  BY <1>1, Grown DEF Settled
<1>4. \A s \in Places(responses, Snapshots) : s \in Places(responses', Snapshots)
  BY Grown
<1> QED BY <1>1, <1>2, <1>3, <1>4 DEF Due

\* The message comes with what is appended, after any answer in it and before a
\* snapshot in it.
LEMMA DueAnew ==
  ASSUME responses \in Seq(Messages), NEW more \in Seq(Messages),
         responses' = responses \o more,
         NEW q \in Targets, NEW m,
         NEW i \in Places(more, {m}), \A k \in Places(more, AnswersOf(q)) : k < i,
         NEW s \in Places(more, Snapshots), i < s,
         NEW had \in BOOLEAN, NEW seen \in BOOLEAN
  PROVE  Due(q, m, had, seen)'
<1>1. PICK L \in Nat : L = Len(responses)
  BY Grown
<1>2. i \in Nat \ {0} /\ s \in Nat \ {0}
  BY Grown
<1>3. PICK n \in Nat : n = i + L
  BY <1>1, <1>2
<1>4. n \in Places(responses', {m}) /\ n # 0
  BY <1>1, <1>2, <1>3, Grown
<1>5. Settled(q, n)'
  <2> SUFFICES ASSUME NEW k \in Places(responses', AnswersOf(q)) PROVE k < n
    BY DEF Settled
  <2>1. CASE k \in Places(responses, AnswersOf(q))
    <3>1. k \in 1..L
      BY <1>1, <2>1, Grown
    <3> QED BY <1>2, <1>3, <3>1
  <2>2. CASE k - Len(responses) \in Places(more, AnswersOf(q))
    <3>1. k \in Nat /\ k - L < i
      BY <1>1, <2>2, Grown
    <3> QED BY <1>2, <1>3, <3>1
  <2> QED BY <2>1, <2>2, Grown
<1>6. s + L \in Places(responses', Snapshots) /\ n < s + L
  BY <1>1, <1>2, <1>3, Grown
<1> QED BY <1>4, <1>5, <1>6 DEF Due

\* A response is taken: the message may be heard by it, and seen by a snapshot.
LEMMA DueTaken ==
  ASSUME responses \in Seq(Messages), responses # << >>, responses' = Tail(responses),
         NEW q \in Targets, NEW m,
         NEW had \in BOOLEAN, NEW seen \in BOOLEAN, NEW had1 \in BOOLEAN, NEW seen1 \in BOOLEAN,
         Due(q, m, had, seen),
         Settled(q, 1) /\ (had \/ Head(responses) = m) => had1,
         Settled(q, 1) /\ had /\ (seen \/ Head(responses) \in Snapshots) => seen1,
         m \notin Snapshots
  PROVE  Due(q, m, had1, seen1)'
<1>1. PICK n \in Places(responses, {m}) \cup {0} :
        /\ n = 0 => had
        /\ Settled(q, n)
        /\ \/ n = 0 /\ seen
           \/ \E s \in Places(responses, Snapshots) : n < s
  BY DEF Due
<1>2. n \in Nat /\ (n # 0 => n \in Places(responses, {m}))
  BY Taken
<1>3. \A k \in Places(responses', AnswersOf(q)) : k + 1 < n
  BY <1>1, Taken DEF Settled
<1>4. n = 0 \/ n = 1 => Settled(q, 1) /\ Settled(q, 0)'
  BY <1>1, <1>3, Taken DEF Settled
<1>5. CASE n = 0
  <2>1. had1 /\ Settled(q, 0)'
    BY <1>1, <1>4, <1>5
  <2>2. CASE seen \/ Head(responses) \in Snapshots
    BY <1>1, <1>4, <1>5, <2>1, <2>2 DEF Due
  <2>3. CASE ~seen /\ Head(responses) \notin Snapshots
    <3>1. PICK s \in Places(responses, Snapshots) : 0 < s
      BY <1>1, <1>5, <2>3
    <3>2. s # 1
      BY <2>3, Taken
    <3>3. s - 1 \in Places(responses', Snapshots) /\ 0 < s - 1
      BY <3>1, <3>2, Taken
    <3> QED BY <2>1, <3>3 DEF Due
  <2> QED BY <2>2, <2>3
<1>6. CASE n = 1
  <2>1. Head(responses) = m
    BY <1>2, <1>6, Taken
  <2>2. had1 /\ Settled(q, 0)'
    BY <1>4, <1>6, <2>1
  <2>3. PICK s \in Places(responses, Snapshots) : 1 < s
    BY <1>1, <1>6
  <2>4. s - 1 \in Places(responses', Snapshots) /\ 0 < s - 1
    BY <2>3, Taken
  <2> QED BY <2>2, <2>4 DEF Due
<1>7. CASE n > 1
  <2>1. PICK j \in Nat : j = n - 1
    BY <1>2, <1>7
  <2>2. j \in Places(responses', {m}) /\ j # 0
    BY <1>2, <1>7, <2>1, Taken
  <2>3. Settled(q, j)'
    BY <1>2, <1>3, <2>1, Taken DEF Settled
  <2>4. PICK s \in Places(responses, Snapshots) : n < s
    BY <1>1, <1>7
  <2>5. s - 1 \in Places(responses', Snapshots) /\ j < s - 1
    BY <1>2, <1>7, <2>1, <2>4, Taken
  <2> QED BY <2>2, <2>3, <2>5 DEF Due
<1> QED BY <1>2, <1>5, <1>6, <1>7

\* What the client has asked for it gets: with no request about q on its way, the
\* backend serves q, and 'current' and the documents that the database has now are due.
NewsDueFor(q) ==
  /\ q \in serving
  /\ Due(q, Message("Current", q, 0), state[q].current, view[q].current)
  /\ Due(q, Message("Document", q, rows[q]),
         Newer(cache[q], updates[q]) = rows[q], cache[q] = rows[q])

NewsAreDue ==
  \A q \in watched : IsOpen /\ Places(requests, RequestsOf(q)) = {} => NewsDueFor(q)

\* The timer that would take the client offline is stopped by the first response.
TimerHears == IsOpen /\ tracker.timer => \A q \in Targets : ~state[q].current

DueParts == InOrder /\ NewsAreDue /\ TimerHears

\* No responses are in any order.
LEMMA NothingAscends ==
  ASSUME responses = << >>, NEW S, NEW low, NEW high
  PROVE  Ascending(S, low, high)
  BY CountEmpty DEF Ascending

\* At the start nothing is asked for, and nothing is due.
LEMMA DueStart == Init => DueParts
<1> SUFFICES ASSUME Init PROVE DueParts
  OBVIOUS
<1> USE DEF Init
<1>1. stream = "Initial" /\ watched = {} /\ responses = << >> /\ lastVersion <= now
  BY DEF ConnectionInit
<1>2. InOrder
  BY <1>1, NothingAscends DEF InOrder
<1> QED BY <1>1, <1>2 DEF DueParts, NewsAreDue, TimerHears, IsOpen

\* A task that leaves alone the wire, the local store and the database, and an open
\* connection with its views.
LEMMA WireAloneKeepsDue ==
  ASSUME DueParts, UNCHANGED <<wire, cache, lastVersion, database>>, IsOpen' <=> IsOpen,
         IsOpen => UNCHANGED <<watched, view, tracker>>
  PROVE  DueParts'
<1> USE DEF wire, database
<1>1. InOrder'
  BY DEF DueParts, InOrder, Ascending
<1>2. CASE IsOpen
  <2>1. \A q : NewsDueFor(q) => NewsDueFor(q)'
    BY <1>2 DEF NewsDueFor, Due, Settled
  <2>2. NewsAreDue' /\ TimerHears'
    BY <1>2, <2>1 DEF DueParts, NewsAreDue, TimerHears
  <2> QED BY <1>1, <2>2 DEF DueParts
<1>3. CASE ~IsOpen
  BY <1>1, <1>3 DEF DueParts, NewsAreDue, TimerHears
<1> QED BY <1>2, <1>3

\* A stream that is not open, or is just open, with nothing on its way but requests for
\* all that is watched.
LEMMA EmptyWireKeepsDue ==
  ASSUME DueParts, UNCHANGED <<lastVersion, now>>, responses' = << >>,
         IsOpen' => /\ \A q \in watched' : Places(requests', RequestsOf(q)) # {}
                    /\ \A q \in Targets : ~state'[q].current
  PROVE  DueParts'
<1>1. InOrder'
  <2>1. \A S, low, high : Ascending(S, low, high)'
    BY CountEmpty DEF Ascending
  <2> QED BY <2>1 DEF DueParts, InOrder
<1>2. NewsAreDue' /\ TimerHears'
  BY DEF NewsAreDue, TimerHears
<1> QED BY <1>1, <1>2 DEF DueParts

\* The stream opens with a request for every target that is watched.
LEMMA StreamOpensKeepsDue ==
  ASSUME ReadsInv, FreshParts, DueParts, StreamOpens
  PROVE  DueParts'
<1> USE ReadsAssumption
<1>1. PICK s \in SetToSeqs(watched) : requests' = [n \in DOMAIN s |-> <<"watch", s[n]>>]
  BY DEF StreamOpens
<1>2. /\ UNCHANGED <<responses, lastVersion, now, watched>> /\ ~IsOpen
      /\ state' = [q \in Targets |->
                     IF q \in watched THEN [out |-> 1, current |-> FALSE] ELSE NewState]
  BY DEF StreamOpens, ConnectionTask, OnWatchStreamOpen, IsOpen, database
<1>3. watched \subseteq Targets /\ IsFiniteSet(watched) /\ responses' = << >>
  <2>1. watched \subseteq Targets /\ responses = << >>
    BY <1>2 DEF FreshParts, WireTypes
  <2> QED BY <1>2, <2>1, FS_Subset
<1> DEFINE c == Cardinality(watched)
<1>4. /\ c \in Nat /\ s \in [1..c -> watched]
      /\ \A i, j \in 1..c : i # j => s[i] # s[j]
  BY <1>3, FS_CardinalityType DEF SetToSeqs
<1> HIDE DEF c
<1>5. \A q \in watched : \E n \in 1..c : s[n] = q
  <2>1. s \in Injection(1..c, watched)
    BY <1>4 DEF Injection, IsInjective
  <2>2. IsFiniteSet(1..c) /\ Cardinality(1..c) = c
    BY <1>4, FS_Interval
  <2>3. s \in Surjection(1..c, watched)
    BY <1>3, <2>1, <2>2, FS_Injection DEF c
  <2> QED BY <2>3 DEF Surjection
<1>6. ASSUME NEW q \in watched' PROVE Places(requests', RequestsOf(q)) # {}
  <2>1. PICK n \in 1..c : s[n] = q
    BY <1>2, <1>5
  <2>2. n \in DOMAIN requests' /\ requests'[n] = <<"watch", q>>
    BY <1>1, <1>4, <2>1
  <2> QED BY <2>2 DEF Places, RequestsOf
<1>7. \A q \in Targets : ~state'[q].current
  BY <1>2 DEF NewState
<1> QED BY <1>2, <1>3, <1>6, <1>7, EmptyWireKeepsDue

\* The views leave sync when no answer has come yet: whatever makes them current is
\* still due.
LEMMA TimerKeepsDue ==
  ASSUME ReadsInv, FreshParts, DueParts, OnlineTimerFires
  PROVE  DueParts'
<1>1. /\ UNCHANGED <<watched, stream, wire, cache, lastVersion, database>>
      /\ tracker.timer /\ ~tracker'.timer
  <2>1. tracker' = [tracker EXCEPT !.state = "Offline", !.timer = FALSE] /\ tracker.timer
        /\ UNCHANGED <<watched, stream, wire, cache, lastVersion, database>>
    BY DEF OnlineTimerFires, OnlineStateTimeout, ConnectionTask
  <2> QED BY <2>1
<1>2. IsOpen' <=> IsOpen
  BY <1>1 DEF IsOpen
<1>3. CASE ~IsOpen
  BY <1>1, <1>2, <1>3, WireAloneKeepsDue
<1>4. CASE IsOpen
  <2>1. \A q \in watched : ~state[q].current
    BY <1>1, <1>4 DEF DueParts, TimerHears, FreshParts, WireTypes
  <2>2. ASSUME NEW q \in watched, NewsDueFor(q) PROVE NewsDueFor(q)'
    <3>1. Due(q, Message("Current", q, 0), FALSE, view[q].current)
      BY <2>1, <2>2 DEF NewsDueFor, Due
    <3>2. Due(q, Message("Current", q, 0), state[q].current, view[q].current)'
      BY <1>1, <3>1 DEF Due, Settled, wire
    <3>3. Due(q, Message("Document", q, rows[q]),
              Newer(cache[q], updates[q]) = rows[q], cache[q] = rows[q])'
      BY <1>1, <2>2 DEF NewsDueFor, Due, Settled, wire, database
    <3> QED BY <1>1, <2>2, <3>2, <3>3 DEF NewsDueFor, wire
  <2>3. NewsAreDue'
    BY <1>1, <1>4, <2>2 DEF DueParts, NewsAreDue, wire
  <2>4. InOrder' /\ TimerHears'
    BY <1>1 DEF DueParts, InOrder, Ascending, TimerHears, wire, database
  <2> QED BY <2>3, <2>4 DEF DueParts
<1> QED BY <1>3, <1>4

\* A new listener may ask for a target; then its request is on the way.
LEMMA AddingKeepsDue ==
  ASSUME ReadsInv, FreshParts, DueParts, NEW l \in Listeners, AddQueryListener(l)
  PROVE  DueParts'
<1> USE ReadsAssumption
<1> DEFINE q == asks[l]
<1>1. /\ UNCHANGED <<cache, lastVersion, rows, now>>
      /\ UNCHANGED <<updates, responses, serving>>
  BY DEF AddQueryListener, Send, wire, database
<1>2. /\ q \in Targets
      /\ view \in [Targets -> [docs : Versions, current : BOOLEAN]]
      /\ state \in [Targets -> [out : Int, current : BOOLEAN]]
      /\ watched \subseteq Targets
  BY DEF ReadsInv, ReadsTypes, FreshParts, WireTypes
<1> HIDE DEF q
<1>3. CASE listeners[q] # {}
  <2>1. UNCHANGED <<connection, view, since, wire>>
    BY <1>3 DEF AddQueryListener, q
  <2> QED BY <1>1, <2>1, WireAloneKeepsDue DEF connection, IsOpen, database
<1>4. CASE listeners[q] = {}
  <2>1. /\ view' = [view EXCEPT ![q] = [docs |-> cache[q], current |-> FALSE]]
        /\ Listen(q)
        /\ IF IsOpen THEN Send("watch", q) ELSE UNCHANGED wire
    BY <1>4 DEF AddQueryListener, q
  <2>2. q \notin watched /\ watched' = watched \cup {q} /\ (IsOpen' <=> IsOpen)
        /\ (IsOpen => tracker' = tracker)
    BY <2>1 DEF Listen, IsOpen, IsStarted, Started
  <2>3. CASE ~IsOpen
    BY <1>1, <2>1, <2>2, <2>3, WireAloneKeepsDue DEF database
  <2>4. CASE IsOpen
    <3>1. Send("watch", q)
      BY <2>1, <2>4
    <3>2. /\ Places(requests', RequestsOf(q)) # {}
          /\ \A p \in Targets \ {q} : Places(requests', RequestsOf(p)) = Places(requests, RequestsOf(p))
      BY <1>2, <3>1, Asked
    <3>3. \A p \in Targets : /\ state'[p].current = state[p].current
                             /\ p # q => view'[p] = view[p]
      BY <1>2, <2>1, <3>1 DEF Send, RecordPendingTargetRequest
    <3>4. NewsAreDue'
      <4> SUFFICES ASSUME NEW p \in watched', Places(requests', RequestsOf(p)) = {}
                   PROVE  NewsDueFor(p)'
        BY DEF NewsAreDue
      <4>1. p # q /\ p \in watched /\ p \in Targets
        BY <1>2, <2>2, <3>2
      <4>2. NewsDueFor(p)
        BY <2>4, <3>2, <4>1 DEF DueParts, NewsAreDue
      <4> QED BY <1>1, <3>3, <4>1, <4>2 DEF NewsDueFor, Due, Settled
    <3>5. InOrder' /\ TimerHears'
      BY <1>1, <2>2, <2>4, <3>3 DEF DueParts, InOrder, Ascending, TimerHears
    <3> QED BY <3>4, <3>5 DEF DueParts
  <2> QED BY <2>3, <2>4
<1> QED BY <1>3, <1>4

\* The last listener of a query asks to unwatch its target.
LEMMA RemovingKeepsDue ==
  ASSUME ReadsInv, FreshParts, DueParts, NEW l \in Listeners, RemoveQueryListener(l)
  PROVE  DueParts'
<1> USE ReadsAssumption
<1> DEFINE q == asks[l]
<1>1. /\ UNCHANGED <<cache, lastVersion, rows, now>>
      /\ UNCHANGED <<updates, responses, serving>>
  BY DEF RemoveQueryListener, Send, wire, database
<1>2. /\ q \in Targets
      /\ view \in [Targets -> [docs : Versions, current : BOOLEAN]]
      /\ state \in [Targets -> [out : Int, current : BOOLEAN]]
      /\ watched \subseteq Targets
  BY DEF ReadsInv, ReadsTypes, FreshParts, WireTypes
<1> HIDE DEF q
<1>3. CASE listeners[q] # {l}
  <2>1. UNCHANGED <<connection, view, since, wire>>
    BY <1>3 DEF RemoveQueryListener, q
  <2> QED BY <1>1, <2>1, WireAloneKeepsDue DEF connection, IsOpen, database
<1>4. CASE listeners[q] = {l}
  <2>1. /\ view' = [view EXCEPT ![q] = NoView]
        /\ StopListening(q)
        /\ IF IsOpen THEN Send("unwatch", q) ELSE UNCHANGED wire
    BY <1>4 DEF RemoveQueryListener, q
  <2>2. watched' = watched \ {q} /\ (IsOpen' <=> IsOpen) /\ (IsOpen => tracker' = tracker)
    BY <2>1 DEF StopListening, IsOpen
  <2>3. CASE ~IsOpen
    BY <1>1, <2>1, <2>2, <2>3, WireAloneKeepsDue DEF database
  <2>4. CASE IsOpen
    <3>1. Send("unwatch", q)
      BY <2>1, <2>4
    <3>2. \A p \in Targets \ {q} : Places(requests', RequestsOf(p)) = Places(requests, RequestsOf(p))
      BY <1>2, <3>1, Asked
    <3>3. \A p \in Targets : /\ state'[p].current = state[p].current
                             /\ p # q => view'[p] = view[p]
      BY <1>2, <2>1, <3>1 DEF Send, RecordPendingTargetRequest
    <3>4. NewsAreDue'
      <4> SUFFICES ASSUME NEW p \in watched', Places(requests', RequestsOf(p)) = {}
                   PROVE  NewsDueFor(p)'
        BY DEF NewsAreDue
      <4>1. p # q /\ p \in watched /\ p \in Targets
        BY <1>2, <2>2
      <4>2. NewsDueFor(p)
        BY <2>4, <3>2, <4>1 DEF DueParts, NewsAreDue
      <4> QED BY <1>1, <3>3, <4>1, <4>2 DEF NewsDueFor, Due, Settled
    <3>5. InOrder' /\ TimerHears'
      BY <1>1, <2>2, <2>4, <3>3 DEF DueParts, InOrder, Ascending, TimerHears
    <3> QED BY <3>4, <3>5 DEF DueParts
  <2> QED BY <2>3, <2>4
<1> QED BY <1>3, <1>4

\* A new version of the documents is due with a snapshot behind it.
LEMMA PublishingKeepsDue ==
  ASSUME ReadsInv, FreshParts, DueParts, NEW q \in Targets, Publish(q)
  PROVE  DueParts'
<1> USE ReadsAssumption
<1>1. /\ UNCHANGED <<requests, state, serving, updates, cache, lastVersion, view, watched, stream, tracker>>
      /\ now < MaxVersion /\ now' = now + 1
      /\ rows' = [rows EXCEPT ![q] = now']
  BY DEF Publish, connection, client
<1>2. /\ rows \in [Targets -> Versions] /\ now \in Versions /\ lastVersion \in Versions
      /\ updates \in [Targets -> Versions]
      /\ responses \in Seq(Messages) /\ watched \subseteq Targets
      /\ \A p \in Targets : rows[p] <= now /\ updates[p] <= rows[p]
  BY DEF ReadsInv, ReadsTypes, NothingNewer, FreshParts, WireTypes
<1>3. /\ now \in Int /\ now' \in Int /\ lastVersion \in Int /\ lastVersion <= now /\ now' \in Versions
      /\ \A p \in Targets : /\ rows[p] \in Int /\ updates[p] \in Int /\ rows'[p] \in Int
                            /\ rows'[p] = IF p = q THEN now' ELSE rows[p]
  BY <1>1, <1>2 DEF Versions, DueParts, InOrder
<1>4. IsOpen' <=> IsOpen
  BY <1>1 DEF IsOpen
<1>5. TimerHears'
  BY <1>1, <1>4 DEF DueParts, TimerHears
<1> DEFINE d == Message("Document", q, now')
           s == Message("Snapshot", q, now')
<1>6. PICK more \in Seq(Messages) :
        /\ responses' = responses \o more
        /\ \/ q \notin serving /\ more = << >>
           \/ q \in serving /\ more = <<d, s>>
  <2>1. <<d, s>> \in Seq(Messages) /\ << >> \in Seq(Messages)
    BY <1>3, EmptySeq DEF Message, Messages
  <2>2. responses \o << >> = responses
    BY <1>2, ConcatEmptySeq
  <2> QED BY <2>1, <2>2 DEF Publish
<1>7. /\ d \in Messages /\ s \in Messages /\ d.type = "Document" /\ s.type = "Snapshot"
      /\ d.docs = now' /\ d.target = q /\ s.docs = now'
  BY <1>3 DEF Message, Messages
<1> HIDE DEF d, s
<1>8. /\ \A p \in Targets : Places(more, AnswersOf(p)) = {}
      /\ \A n \in Places(more, Snapshots) : more[n].docs = now'
      /\ \A p \in Targets : \A n \in Places(more, DocumentsOf(p)) : more[n].docs = rows'[p]
      /\ q \in serving => 1 \in Places(more, {d}) /\ 2 \in Places(more, Snapshots)
  <2>1. CASE more = << >>
    BY <1>6, <2>1, CountEmpty
  <2>2. CASE more = <<d, s>>
    <3>1. DOMAIN more = 1..2 /\ more[1] = d /\ more[2] = s
      BY <2>2
    <3>2. \A p \in Targets : /\ d \notin AnswersOf(p) /\ s \notin AnswersOf(p)
                             /\ s \notin DocumentsOf(p) /\ (d \in DocumentsOf(p) => p = q)
      BY <1>7 DEF AnswersOf, DocumentsOf
    <3>3. d \notin Snapshots /\ s \in Snapshots
      BY <1>7 DEF Snapshots
    <3> QED BY <1>3, <1>7, <3>1, <3>2, <3>3 DEF Places
  <2> QED BY <1>6, <2>1, <2>2
<1>9. InOrder'
  <2>1. lastVersion' <= now'
    BY <1>1, <1>3
  <2>2. Ascending(Snapshots, lastVersion, now)'
    <3>1. PICK low \in Int, high \in Int, high1 \in Int :
            low = lastVersion /\ high = now /\ high1 = now'
      BY <1>3
    <3>2. Ascending(Snapshots, low, high) /\ low <= high1 /\ high <= high1
      BY <1>1, <1>3, <3>1 DEF DueParts, InOrder
    <3>3. Ascending(Snapshots, low, high1)'
      BY <1>2, <1>6, <1>8, <3>1, <3>2, AscendingAppended
    <3> QED BY <1>1, <3>1, <3>3 DEF Ascending
  <2>3. ASSUME NEW p \in Targets PROVE Ascending(DocumentsOf(p), updates[p], rows[p])'
    <3>1. PICK low \in Int, high \in Int, high1 \in Int :
            low = updates[p] /\ high = rows[p] /\ high1 = rows'[p]
      BY <1>3
    <3>2. Ascending(DocumentsOf(p), low, high) /\ low <= high1 /\ high <= high1
      BY <1>1, <1>2, <1>3, <3>1 DEF DueParts, InOrder
    <3>3. Ascending(DocumentsOf(p), low, high1)'
      BY <1>2, <1>6, <1>8, <3>1, <3>2, AscendingAppended
    <3> QED BY <1>1, <3>1, <3>3 DEF Ascending
  <2> QED BY <2>1, <2>2, <2>3 DEF InOrder
<1>10. ASSUME NEW p \in watched, NewsDueFor(p) PROVE NewsDueFor(p)'
  <2>1. p \in Targets /\ p \in serving /\ p \in serving'
    BY <1>1, <1>2, <1>10 DEF NewsDueFor
  <2>2. Due(p, Message("Current", p, 0), state[p].current, view[p].current)'
    <3>1. PICK had \in BOOLEAN, seen \in BOOLEAN :
            (had <=> state[p].current) /\ (seen <=> view[p].current)
      OBVIOUS
    <3>2. Due(p, Message("Current", p, 0), had, seen)
      BY <1>10, <3>1 DEF NewsDueFor, Due
    <3>3. Due(p, Message("Current", p, 0), had, seen)'
      BY <1>2, <1>6, <1>8, <2>1, <3>2, DueAppended
    <3> QED BY <1>1, <3>1, <3>3 DEF Due
  <2>3. Due(p, Message("Document", p, rows[p]),
            Newer(cache[p], updates[p]) = rows[p], cache[p] = rows[p])'
    <3>1. PICK had \in BOOLEAN, seen \in BOOLEAN, r \in Versions :
            /\ had <=> Newer(cache[p], updates[p]) = r
            /\ seen <=> cache[p] = r
            /\ r = rows'[p]
      <4>1. rows'[p] \in Versions
        BY <1>2, <1>3, <2>1
      <4> QED BY <4>1
    <3>2. Due(p, Message("Document", p, r), had, seen)'
      <4>1. CASE p = q
        <5>1. d = Message("Document", p, r)
          BY <1>3, <2>1, <3>1, <4>1 DEF d
        <5>2. 1 \in Places(more, {Message("Document", p, r)}) /\ 2 \in Places(more, Snapshots)
              /\ \A k \in Places(more, AnswersOf(p)) : k < 1
          BY <1>8, <2>1, <4>1, <5>1
        <5>3. PICK i \in Nat, j \in Nat : i = 1 /\ j = 2
          OBVIOUS
        <5>4. /\ i \in Places(more, {Message("Document", p, r)}) /\ j \in Places(more, Snapshots)
              /\ \A k \in Places(more, AnswersOf(p)) : k < i
              /\ i < j
          BY <5>2, <5>3
        <5>5. responses' = responses \o more /\ responses \in Seq(Messages) /\ p \in Targets
          BY <1>2, <1>6, <2>1
        <5> QED BY <5>4, <5>5, DueAnew
      <4>2. CASE p # q
        <5>1. r = rows[p]
          BY <1>3, <2>1, <3>1, <4>2
        <5>2. Due(p, Message("Document", p, r), had, seen)
          BY <1>10, <3>1, <5>1 DEF NewsDueFor, Due
        <5> QED BY <1>2, <1>6, <1>8, <2>1, <5>2, DueAppended
      <4> QED BY <4>1, <4>2
    <3> QED BY <1>1, <3>1, <3>2 DEF Due
  <2> QED BY <2>1, <2>2, <2>3 DEF NewsDueFor
<1>11. NewsAreDue'
  BY <1>1, <1>4, <1>10 DEF DueParts, NewsAreDue
<1> QED BY <1>5, <1>9, <1>11 DEF DueParts

\* The last request about a watched target is to watch it.
LEMMA LastRequestWatches ==
  ASSUME FreshParts, requests # << >>, requests' = Tail(requests),
         NEW p \in watched, Places(requests', RequestsOf(p)) = {}
  PROVE  \/ Head(requests) = <<"watch", p>>
         \/ Head(requests) \notin RequestsOf(p) /\ Places(requests, RequestsOf(p)) = {}
<1> DEFINE T == {"watch", "unwatch"} \X Targets
<1>1. requests \in Seq(T) /\ p \in Targets
  BY DEF FreshParts, WireTypes
<1> HIDE DEF T
<1>2. \A S : /\ Places(requests, S) \subseteq 1..Len(requests)
             /\ \A n \in Int : n \in Places(requests', S) <=> 1 <= n /\ n + 1 \in Places(requests, S)
             /\ 1 \in Places(requests, S) <=> Head(requests) \in S
  BY <1>1, CountTail, CountIsNat
<1>3. Len(requests) \in Nat
  BY <1>1, LenProperties
<1>4. ASSUME NEW k \in Places(requests, RequestsOf(p)), k # 1 PROVE FALSE
  <2>0. k \in 1..Len(requests)
    BY <1>2
  <2>1. k \in Int /\ k - 1 \in Int /\ 1 <= k - 1 /\ (k - 1) + 1 = k
    BY <1>3, <1>4, <2>0
  <2>2. k - 1 \in Places(requests', RequestsOf(p))
    BY <1>2, <1>4, <2>1
  <2> QED BY <2>2
<1>5. CASE Head(requests) \notin RequestsOf(p)
  <2>1. 1 \notin Places(requests, RequestsOf(p))
    BY <1>2, <1>5
  <2> QED BY <1>4, <1>5, <2>1
<1>6. CASE Head(requests) = <<"unwatch", p>>
  <2>1. 1 \in Places(requests, {<<"unwatch", p>>})
    BY <1>2, <1>6
  <2>2. PICK k \in Places(requests, {<<"watch", p>>}) : 1 < k
    BY <2>1 DEF FreshParts, AskedLast
  <2>3. k \in Places(requests, RequestsOf(p)) /\ k # 1
    BY <1>1, <1>2, <1>3, <2>2 DEF Places, RequestsOf
  <2> QED BY <1>4, <2>3
<1>7. Head(requests) \in RequestsOf(p) =>
        Head(requests) = <<"watch", p>> \/ Head(requests) = <<"unwatch", p>>
  BY DEF RequestsOf
<1> QED BY <1>5, <1>6, <1>7

\* An answer to a watch request brings all that is due of the target.
LEMMA AnsweringKeepsDue ==
  ASSUME ReadsInv, FreshParts, DueParts, BackendAnswers
  PROVE  DueParts'
<1> USE ReadsAssumption
<1>1. /\ UNCHANGED <<state, updates, cache, lastVersion, view, rows, now, watched, stream, tracker>>
      /\ requests # << >> /\ requests' = Tail(requests)
      /\ IsOpen /\ IsOpen'
  BY DEF BackendAnswers, connection, client, database, IsOpen
<1>2. /\ rows \in [Targets -> Versions] /\ now \in Versions /\ lastVersion \in Versions
      /\ updates \in [Targets -> Versions]
      /\ responses \in Seq(Messages) /\ watched \subseteq Targets
      /\ \A p \in Targets : rows[p] <= now /\ updates[p] <= rows[p]
  BY DEF ReadsInv, ReadsTypes, NothingNewer, FreshParts, WireTypes
<1>3. TimerHears'
  BY <1>1 DEF DueParts, TimerHears
<1>4. PICK q \in Targets :
        \/ /\ Head(requests) = <<"watch", q>>
           /\ serving' = serving \cup {q}
           /\ responses' = responses \o
                << Message("Added", q, 0), Message("Document", q, rows[q]),
                   Message("Current", q, 0), Message("Snapshot", q, now) >>
        \/ /\ Head(requests) = <<"unwatch", q>>
           /\ serving' = serving \ {q}
           /\ responses' = Append(responses, Message("Removed", q, 0))
  BY DEF BackendAnswers
<1>5. 0 \in Versions /\ rows[q] \in Versions
  BY <1>2 DEF Versions
<1> DEFINE a == Message("Added", q, 0)
           d == Message("Document", q, rows[q])
           c == Message("Current", q, 0)
           s == Message("Snapshot", q, now)
           x == Message("Removed", q, 0)
<1>6. /\ a \in Messages /\ d \in Messages /\ c \in Messages /\ s \in Messages /\ x \in Messages
      /\ a.type = "Added" /\ d.type = "Document" /\ c.type = "Current"
      /\ s.type = "Snapshot" /\ x.type = "Removed"
      /\ d.docs = rows[q] /\ a.target = q /\ d.target = q /\ x.target = q /\ s.docs = now
  BY <1>2, <1>5 DEF Message, Messages
<1>7. PICK more \in Seq(Messages) :
        /\ responses' = responses \o more
        /\ \/ /\ Head(requests) = <<"watch", q>>
              /\ serving' = serving \cup {q}
              /\ more = <<a, d, c, s>>
           \/ /\ Head(requests) = <<"unwatch", q>>
              /\ serving' = serving \ {q}
              /\ more = <<x>>
  <2>1. Append(responses, x) = responses \o <<x>>
    BY <1>2, <1>6, AppendIsConcat
  <2>2. <<a, d, c, s>> \in Seq(Messages) /\ <<x>> \in Seq(Messages)
    BY <1>6
  <2> QED BY <1>4, <2>1, <2>2
<1> HIDE DEF a, d, c, s, x
<1>8. /\ \A p \in Targets \ {q} : Places(more, AnswersOf(p)) = {}
      /\ \A n \in Places(more, Snapshots) : more[n].docs = now
      /\ \A p \in Targets : \A n \in Places(more, DocumentsOf(p)) : more[n].docs = rows[p]
      /\ Head(requests) = <<"watch", q>> =>
           /\ 2 \in Places(more, {d}) /\ 3 \in Places(more, {c}) /\ 4 \in Places(more, Snapshots)
           /\ Places(more, AnswersOf(q)) = {1}
  <2>1. /\ \A p \in Targets : /\ d \notin AnswersOf(p) /\ c \notin AnswersOf(p) /\ s \notin AnswersOf(p)
                              /\ (a \in AnswersOf(p) <=> p = q) /\ (x \in AnswersOf(p) <=> p = q)
        /\ \A p \in Targets : /\ a \notin DocumentsOf(p) /\ c \notin DocumentsOf(p)
                              /\ s \notin DocumentsOf(p) /\ x \notin DocumentsOf(p)
                              /\ (d \in DocumentsOf(p) => p = q)
        /\ a \notin Snapshots /\ d \notin Snapshots /\ c \notin Snapshots /\ x \notin Snapshots
        /\ s \in Snapshots
    BY <1>6 DEF AnswersOf, DocumentsOf, Snapshots
  <2>2. CASE Head(requests) = <<"watch", q>> /\ more = <<a, d, c, s>>
    <3>1. DOMAIN more = 1..4 /\ more[1] = a /\ more[2] = d /\ more[3] = c /\ more[4] = s
      BY <2>2
    <3> QED BY <1>6, <2>1, <3>1 DEF Places
  <2>3. CASE Head(requests) = <<"unwatch", q>> /\ more = <<x>>
    <3>1. DOMAIN more = {1} /\ more[1] = x
      BY <2>3
    <3> QED BY <1>6, <2>1, <2>3, <3>1 DEF Places
  <2> QED BY <1>7, <2>2, <2>3
<1>9. InOrder'
  <2>1. PICK v \in Int, n \in Int : v = lastVersion /\ n = now
    BY <1>2 DEF Versions
  <2>2. Ascending(Snapshots, v, n) /\ v <= n
    BY <2>1 DEF DueParts, InOrder
  <2>3. Ascending(Snapshots, v, n)'
    <3>1. n <= n /\ \A i \in Places(more, Snapshots) : more[i].docs = n
      BY <1>8, <2>1
    <3> QED BY <1>2, <1>7, <2>2, <3>1, AscendingAppended
  <2>4. ASSUME NEW p \in Targets PROVE Ascending(DocumentsOf(p), updates[p], rows[p])'
    <3>1. PICK low \in Int, high \in Int : low = updates[p] /\ high = rows[p]
      BY <1>2 DEF Versions
    <3>2. Ascending(DocumentsOf(p), low, high) /\ low <= high /\ high <= high
      BY <1>2, <3>1 DEF DueParts, InOrder
    <3>3. \A i \in Places(more, DocumentsOf(p)) : more[i].docs = high
      BY <1>8, <3>1
    <3>4. Ascending(DocumentsOf(p), low, high)'
      BY <1>2, <1>7, <3>2, <3>3, AscendingAppended
    <3> QED BY <1>1, <3>1, <3>4 DEF Ascending
  <2> QED BY <1>1, <2>1, <2>2, <2>3, <2>4 DEF InOrder, Ascending
<1>10. ASSUME NEW p \in watched, Places(requests', RequestsOf(p)) = {} PROVE NewsDueFor(p)'
  <2>1. p \in Targets
    BY <1>2
  <2>2. PICK had \in BOOLEAN, seen \in BOOLEAN, had1 \in BOOLEAN, seen1 \in BOOLEAN,
             m \in {Message("Document", p, rows[p])} :
          /\ (had <=> state[p].current) /\ (seen <=> view[p].current)
          /\ (had1 <=> Newer(cache[p], updates[p]) = rows[p]) /\ (seen1 <=> cache[p] = rows[p])
    OBVIOUS
  <2>3. /\ p \in serving'
        /\ Due(p, Message("Current", p, 0), had, seen)'
        /\ Due(p, m, had1, seen1)'
    <3>1. CASE p # q
      <4>1. Places(requests, RequestsOf(p)) = {}
        <5>1. \/ Head(requests) = <<"watch", p>>
              \/ Places(requests, RequestsOf(p)) = {}
          BY <1>1, <1>10, LastRequestWatches
        <5>2. Head(requests) # <<"watch", p>>
          BY <1>7, <3>1
        <5> QED BY <5>1, <5>2
      <4>2. NewsDueFor(p)
        BY <1>1, <4>1 DEF DueParts, NewsAreDue
      <4>3. Due(p, Message("Current", p, 0), had, seen) /\ Due(p, m, had1, seen1)
        BY <2>2, <4>2 DEF NewsDueFor, Due
      <4>4. Places(more, AnswersOf(p)) = {} /\ p \in serving'
        BY <1>7, <1>8, <2>1, <3>1, <4>2 DEF NewsDueFor
      <4>5. responses' = responses \o more
        BY <1>7
      <4> QED BY <1>2, <2>1, <4>3, <4>4, <4>5, DueAppended
    <3>2. CASE p = q
      <4>1. Head(requests) = <<"watch", q>>
        <5>1. \/ Head(requests) = <<"watch", p>>
              \/ Head(requests) \notin RequestsOf(p)
          BY <1>1, <1>10, LastRequestWatches
        <5>2. Head(requests) \in RequestsOf(q)
          BY <1>7 DEF RequestsOf
        <5> QED BY <3>2, <5>1, <5>2
      <4>2. q \in serving' /\ responses' = responses \o more
        BY <1>7, <4>1
      <4>3. PICK two \in Nat, three \in Nat, four \in Nat : two = 2 /\ three = 3 /\ four = 4
        OBVIOUS
      <4>4. /\ two \in Places(more, {m})
            /\ three \in Places(more, {Message("Current", p, 0)})
            /\ four \in Places(more, Snapshots)
        BY <1>8, <2>2, <3>2, <4>1, <4>3 DEF c, d
      <4>5. /\ \A k \in Places(more, AnswersOf(p)) : k < two /\ k < three
            /\ two < four /\ three < four
        BY <1>8, <3>2, <4>1, <4>3
      <4>6. Due(p, Message("Current", p, 0), had, seen)'
        BY <1>2, <2>1, <4>2, <4>4, <4>5, DueAnew
      <4>7. Due(p, m, had1, seen1)'
        BY <1>2, <2>1, <4>2, <4>4, <4>5, DueAnew
      <4> QED BY <3>2, <4>2, <4>6, <4>7
    <3> QED BY <3>1, <3>2
  <2> QED BY <1>1, <2>2, <2>3 DEF NewsDueFor, Due
<1>11. NewsAreDue'
  BY <1>1, <1>10 DEF NewsAreDue
<1> QED BY <1>3, <1>9, <1>11 DEF DueParts

\* A watched target with no request on its way is active once its answers are heard.
LEMMA ActiveWhenSettled ==
  ASSUME ReadsInv, FreshParts, responses # << >>, responses' = Tail(responses),
         NEW q \in watched, Places(requests, RequestsOf(q)) = {}, Settled(q, 1)
  PROVE  IsActiveTarget(q) /\ Head(responses) \notin AnswersOf(q)
<1>1. /\ q \in Targets /\ responses \in Seq(Messages)
      /\ requests \in Seq({"watch", "unwatch"} \X Targets)
  BY DEF ReadsInv, ReadsTypes, FreshParts, WireTypes
<1>2. /\ Places(responses, AnswersOf(q)) \subseteq Nat \ {0}
      /\ 1 \in Places(responses, AnswersOf(q)) <=> Head(responses) \in AnswersOf(q)
  BY <1>1, Taken
<1>3. Places(responses, AnswersOf(q)) = {}
  BY <1>2 DEF Settled
<1>4. Count(responses, AnswersOf(q)) = 0 /\ Count(requests, RequestsOf(q)) = 0
  BY <1>1, <1>3, CountIsNat
<1>5. state[q].out = 0
  BY <1>1, <1>4 DEF FreshParts, RequestsCounted
<1> QED BY <1>2, <1>3, <1>5 DEF IsActiveTarget

\* A response is taken: what was due is heard, and what was heard is seen with the
\* first snapshot, which none is too old for.
LEMMA HandlingKeepsDue ==
  ASSUME ReadsInv, ReadsInv', FreshParts, DueParts, ResponseComes
  PROVE  DueParts'
<1> USE ReadsAssumption
<1> DEFINE m == Head(responses)
<1>1. /\ UNCHANGED <<listeners, requests, serving, rows, now, watched>>
      /\ responses # << >> /\ responses' = Tail(responses)
      /\ IsOpen /\ ~tracker'.timer
      /\ \/ /\ m.type = "Snapshot" /\ MayRaise(m.docs)
            /\ RaiseWatchSnapshot(m.docs)
            /\ UNCHANGED state
         \/ /\ m.type = "Snapshot" /\ ~MayRaise(m.docs)
            /\ UNCHANGED <<view, cache, lastVersion, state, updates>>
         \/ /\ m.type # "Snapshot"
            /\ HandleTargetChange(m)
            /\ HandleDocumentChange(m)
            /\ UNCHANGED <<view, cache, lastVersion>>
  BY DEF ResponseComes, OnWatchStreamChange, UpdateState, IsOpen, database
<1>2. /\ responses \in Seq(Messages)
      /\ state \in [Targets -> [out : Int, current : BOOLEAN]]
      /\ cache \in [Targets -> Versions] /\ updates \in [Targets -> Versions]
      /\ cache' \in [Targets -> Versions] /\ updates' \in [Targets -> Versions]
      /\ view \in [Targets -> [docs : Versions, current : BOOLEAN]]
      /\ rows \in [Targets -> Versions] /\ now \in Versions
      /\ lastVersion \in Versions /\ lastVersion' \in Versions
      /\ watched \subseteq Targets
  BY DEF ReadsInv, ReadsTypes, FreshParts, WireTypes
<1>3. /\ m \in Messages /\ m = responses[1]
      /\ m.target \in Targets /\ m.docs \in Versions
      /\ \A S : m \in S <=> 1 \in Places(responses, S)
  <2>1. m \in Messages /\ m = responses[1] /\ \A S : m \in S <=> 1 \in Places(responses, S)
    BY <1>1, <1>2, Taken
  <2> QED BY <2>1 DEF Messages
<1>4. \A q \in Targets : /\ cache[q] \in Int /\ updates[q] \in Int /\ updates'[q] \in Int
                         /\ cache'[q] \in Int /\ rows[q] \in Int
                         /\ 0 <= updates[q] /\ 0 <= rows[q] /\ rows[q] <= now
                         /\ updates[q] <= rows[q] /\ cache[q] <= rows[q]
                         /\ updates'[q] <= rows[q] /\ cache'[q] <= rows[q]
  BY <1>1, <1>2 DEF ReadsInv, NothingNewer, Versions
<1> HIDE DEF m
<1>5. m \in Snapshots <=> m.type = "Snapshot"
  BY <1>3 DEF Snapshots
<1>6. m \in Snapshots => MayRaise(m.docs) /\ lastVersion <= m.docs /\ m.docs <= now
  <2> SUFFICES ASSUME m \in Snapshots PROVE lastVersion <= m.docs /\ m.docs <= now
    BY <1>2, <1>3 DEF MayRaise, Versions
  <2>1. 1 \in Places(responses, Snapshots)
    BY <1>3
  <2> QED BY <1>3, <2>1 DEF DueParts, InOrder, Ascending
<1>7. CASE m \in Snapshots /\ RaiseWatchSnapshot(m.docs) /\ UNCHANGED state
  <2>1. /\ lastVersion' = m.docs
        /\ \A q \in Targets : /\ cache'[q] = Newer(cache[q], updates[q]) /\ updates'[q] = 0
                              /\ listeners[q] # {} /\ IsActiveTarget(q) =>
                                   view'[q].current = state[q].current
    BY <1>7 DEF RaiseWatchSnapshot
  <2>2. InOrder'
    <3>1. PICK v \in Int, v1 \in Int, n \in Int : v = lastVersion /\ v1 = lastVersion' /\ n = now
      BY <1>2 DEF Versions
    <3>2. Ascending(Snapshots, v, n) /\ m \in Snapshots /\ v1 = m.docs
      BY <1>7, <2>1, <3>1 DEF DueParts, InOrder
    <3>3. Ascending(Snapshots, v1, n)'
      BY <1>1, <1>2, <3>2, AscendingTaken DEF m
    <3>4. ASSUME NEW q \in Targets PROVE Ascending(DocumentsOf(q), updates[q], rows[q])'
      <4>1. PICK low \in Int, low1 \in Int, high \in Int :
              low = updates[q] /\ low1 = updates'[q] /\ high = rows[q]
        BY <1>4
      <4>2. Ascending(DocumentsOf(q), low, high) /\ low1 <= low
        BY <1>4, <2>1, <4>1 DEF DueParts, InOrder
      <4>3. Ascending(DocumentsOf(q), low1, high)'
        BY <1>1, <1>2, <4>2, AscendingTaken
      <4> QED BY <1>1, <4>1, <4>3 DEF Ascending
    <3> QED BY <1>1, <1>6, <1>7, <2>1, <3>1, <3>3, <3>4 DEF InOrder, Ascending
  <2>3. ASSUME NEW q \in watched, Places(requests, RequestsOf(q)) = {}, NewsDueFor(q)
        PROVE  NewsDueFor(q)'
    <3>1. q \in Targets /\ listeners[q] # {}
      BY <1>2 DEF FreshParts, WatchedForListeners
    <3>2. PICK had \in BOOLEAN, seen \in BOOLEAN, seen1 \in BOOLEAN :
            (had <=> state[q].current) /\ (seen <=> view[q].current) /\ (seen1 <=> view'[q].current)
      OBVIOUS
    <3>3. Due(q, Message("Current", q, 0), had, seen)
      BY <2>3, <3>2 DEF NewsDueFor, Due
    <3>4. Settled(q, 1) => IsActiveTarget(q)
      BY <1>1, <2>3, ActiveWhenSettled
    <3>5. Settled(q, 1) /\ had => seen1
      BY <2>1, <3>1, <3>2, <3>4
    <3>6. /\ m # Message("Current", q, 0) /\ Message("Current", q, 0) \notin Snapshots
          /\ \A v \in Versions : m # Message("Document", q, v) /\ Message("Document", q, v) \notin Snapshots
      BY <1>5, <1>7 DEF Message, Snapshots
    <3>7. Due(q, Message("Current", q, 0), had, seen1)'
      BY <1>1, <1>2, <3>1, <3>3, <3>5, <3>6, DueTaken DEF m
    <3>8. PICK has \in BOOLEAN, has1 \in BOOLEAN, saw \in BOOLEAN, saw1 \in BOOLEAN, r \in Versions :
            /\ has <=> Newer(cache[q], updates[q]) = r
            /\ has1 <=> Newer(cache'[q], updates'[q]) = r
            /\ saw <=> cache[q] = r
            /\ saw1 <=> cache'[q] = r
            /\ r = rows[q]
      <4>1. rows[q] \in Versions
        BY <1>2, <3>1
      <4> QED BY <4>1
    <3>9. Due(q, Message("Document", q, r), has, saw)
      BY <2>3, <3>8 DEF NewsDueFor, Due
    <3>10. has => has1 /\ saw1
      BY <1>4, <2>1, <3>1, <3>8 DEF Newer
    <3>11. Due(q, Message("Document", q, r), has1, saw1)'
      <4>1. PICK d : d = Message("Document", q, r) /\ d \notin Snapshots /\ m # d
        BY <3>6, <3>8
      <4>2. Due(q, d, has, saw)
        BY <3>9, <4>1
      <4>3. Due(q, d, has1, saw1)'
        BY <1>1, <1>2, <3>1, <3>10, <4>1, <4>2, DueTaken DEF m
      <4> QED BY <4>1, <4>3
    <3>12. Due(q, Message("Current", q, 0), state[q].current, view[q].current)'
      BY <1>7, <3>2, <3>7 DEF Due
    <3>13. Due(q, Message("Document", q, rows[q]),
               Newer(cache[q], updates[q]) = rows[q], cache[q] = rows[q])'
      BY <1>1, <3>8, <3>11 DEF Due
    <3> QED BY <1>1, <2>3, <3>12, <3>13 DEF NewsDueFor
  <2>4. NewsAreDue' /\ TimerHears'
    BY <1>1, <2>3 DEF DueParts, NewsAreDue, TimerHears
  <2> QED BY <2>2, <2>4 DEF DueParts
<1>8. CASE /\ m \notin Snapshots /\ HandleTargetChange(m) /\ HandleDocumentChange(m)
           /\ UNCHANGED <<view, cache, lastVersion>>
  <2>1. \A q \in Targets : /\ m \in AnswersOf(q) <=> m.type \in {"Added", "Removed"} /\ m.target = q
                           /\ m \in DocumentsOf(q) <=> m.type = "Document" /\ m.target = q
    BY <1>3 DEF AnswersOf, DocumentsOf
  <2>2. \A q \in Targets : updates'[q] = IF m \in DocumentsOf(q) /\ IsActiveTarget(q)
                                         THEN m.docs ELSE updates[q]
    BY <1>2, <1>3, <1>8, <2>1 DEF HandleDocumentChange
  <2>3. ASSUME NEW q \in Targets, m \notin AnswersOf(q)
        PROVE  /\ state[q].current => state'[q].current
               /\ m.type = "Current" /\ m.target = q /\ IsActiveTarget(q) => state'[q].current
    <3>1. ~(m.type \in {"Added", "Removed"} /\ m.target = q)
      BY <2>1, <2>3
    <3>2. CASE m.target # q
      BY <1>2, <1>3, <1>8, <3>2 DEF HandleTargetChange
    <3>3. CASE m.target = q /\ m.type = "Current" /\ IsActiveTarget(q)
      BY <1>2, <1>3, <1>8, <3>3 DEF HandleTargetChange
    <3>4. CASE m.target = q /\ ~(m.type = "Current" /\ IsActiveTarget(q))
      BY <1>2, <1>3, <1>8, <3>1, <3>4 DEF HandleTargetChange
    <3> QED BY <3>2, <3>3, <3>4
  <2>4. ASSUME NEW q \in Targets
        PROVE  m \in DocumentsOf(q) => updates[q] <= m.docs /\ m.docs <= rows[q]
    BY <1>3 DEF DueParts, InOrder, Ascending
  <2>5. InOrder'
    <3>1. PICK v \in Int, n \in Int : v = lastVersion /\ n = now /\ v <= n
      BY <1>2 DEF Versions, DueParts, InOrder
    <3>2. Ascending(Snapshots, v, n)
      BY <3>1 DEF DueParts, InOrder
    <3>3. Ascending(Snapshots, v, n)'
      BY <1>1, <1>2, <3>1, <3>2, AscendingTaken
    <3>4. ASSUME NEW q \in Targets PROVE Ascending(DocumentsOf(q), updates[q], rows[q])'
      <4>1. PICK low \in Int, low1 \in Int, high \in Int :
              low = updates[q] /\ low1 = updates'[q] /\ high = rows[q]
        BY <1>4
      <4>2. Ascending(DocumentsOf(q), low, high)
            /\ (low1 <= low \/ (Head(responses) \in DocumentsOf(q) /\ low1 = Head(responses).docs))
        BY <1>4, <2>2, <4>1 DEF DueParts, InOrder, m
      <4>3. Ascending(DocumentsOf(q), low1, high)'
        BY <1>1, <1>2, <4>2, AscendingTaken
      <4> QED BY <1>1, <4>1, <4>3 DEF Ascending
    <3> QED BY <1>1, <1>8, <3>1, <3>3, <3>4 DEF InOrder, Ascending
  <2>6. ASSUME NEW q \in watched, Places(requests, RequestsOf(q)) = {}, NewsDueFor(q)
        PROVE  NewsDueFor(q)'
    <3>1. q \in Targets
      BY <1>2
    <3>2. Settled(q, 1) => IsActiveTarget(q) /\ m \notin AnswersOf(q)
      BY <1>1, <2>6, ActiveWhenSettled DEF m
    <3>3. PICK had \in BOOLEAN, had1 \in BOOLEAN, seen \in BOOLEAN :
            (had <=> state[q].current) /\ (had1 <=> state'[q].current) /\ (seen <=> view[q].current)
      OBVIOUS
    <3>4. Due(q, Message("Current", q, 0), had, seen)
      BY <2>6, <3>3 DEF NewsDueFor, Due
    <3>5. Settled(q, 1) /\ (had \/ m = Message("Current", q, 0)) => had1
      <4>1. m = Message("Current", q, 0) => m.type = "Current" /\ m.target = q
        BY DEF Message
      <4> QED BY <2>3, <3>1, <3>2, <3>3, <4>1
    <3>6. /\ Message("Current", q, 0) \notin Snapshots
          /\ \A v \in Versions : /\ Message("Document", q, v) \notin Snapshots
                                 /\ m = Message("Document", q, v) => m \in DocumentsOf(q) /\ m.docs = v
      BY <2>1, <3>1 DEF Message, Snapshots
    <3>7. Due(q, Message("Current", q, 0), had1, seen)'
      BY <1>1, <1>2, <1>8, <3>1, <3>4, <3>5, <3>6, DueTaken DEF m
    <3>8. PICK has \in BOOLEAN, has1 \in BOOLEAN, saw \in BOOLEAN, r \in Versions :
            /\ has <=> Newer(cache[q], updates[q]) = r
            /\ has1 <=> Newer(cache[q], updates'[q]) = r
            /\ saw <=> cache[q] = r
            /\ r = rows[q]
      <4>1. rows[q] \in Versions
        BY <1>2, <3>1
      <4> QED BY <4>1
    <3>9. Due(q, Message("Document", q, r), has, saw)
      BY <2>6, <3>8 DEF NewsDueFor, Due
    <3>10. Settled(q, 1) /\ (has \/ m = Message("Document", q, r)) => has1
      <4> SUFFICES ASSUME Settled(q, 1), has \/ m = Message("Document", q, r) PROVE has1
        OBVIOUS
      <4>1. CASE m \in DocumentsOf(q)
        <5>1. updates'[q] = m.docs /\ updates[q] <= m.docs /\ m.docs <= rows[q]
          BY <2>2, <2>4, <3>1, <3>2, <4>1
        <5> QED BY <1>4, <3>1, <3>6, <3>8, <5>1 DEF Newer
      <4>2. CASE m \notin DocumentsOf(q)
        BY <2>2, <3>1, <3>6, <3>8, <4>2
      <4> QED BY <4>1, <4>2
    <3>11. Due(q, Message("Document", q, r), has1, saw)'
      BY <1>1, <1>2, <1>8, <3>1, <3>6, <3>9, <3>10, DueTaken DEF m
    <3>12. Due(q, Message("Current", q, 0), state[q].current, view[q].current)'
      BY <1>8, <3>3, <3>7 DEF Due
    <3>13. Due(q, Message("Document", q, rows[q]),
               Newer(cache[q], updates[q]) = rows[q], cache[q] = rows[q])'
      BY <1>1, <1>8, <3>8, <3>11 DEF Due
    <3> QED BY <1>1, <2>6, <3>12, <3>13 DEF NewsDueFor
  <2>7. NewsAreDue' /\ TimerHears'
    BY <1>1, <2>6 DEF DueParts, NewsAreDue, TimerHears
  <2> QED BY <2>5, <2>7 DEF DueParts
<1> QED BY <1>1, <1>5, <1>6, <1>7, <1>8

\* Every step keeps what is due, whatever the network does.
LEMMA DueStep ==
  ASSUME FreshInv, DueParts, [Next]_vars
  PROVE  DueParts'
<1> USE ReadsAssumption
<1>0. ReadsInv /\ FreshParts /\ ReadsInv'
  BY FreshStep DEF FreshInv
<1>1. ASSUME NEW l \in Listeners, AddQueryListener(l) \/ RemoveQueryListener(l)
      PROVE  DueParts'
  BY <1>0, <1>1, AddingKeepsDue, RemovingKeepsDue
<1>2. CASE StreamOpens
  BY <1>0, <1>2, StreamOpensKeepsDue
<1>3. CASE StreamIdles \/ Fault
  <2>1. ConnectionTask /\ NewStream
    BY <1>3 DEF StreamIdles, Fault
  <2>2. ~IsOpen'
    BY <1>3 DEF StreamIdles, Fault, IdleTimeout, OnWatchStreamError, RestartNetwork, IsOpen
  <2>3. UNCHANGED <<lastVersion, now>> /\ responses' = << >>
    BY <2>1 DEF ConnectionTask, NewStream, database
  <2> QED BY <2>2, <2>3, EmptyWireKeepsDue
<1>4. CASE OnlineTimerFires
  BY <1>0, <1>4, TimerKeepsDue
<1>5. CASE BackoffEnds
  <2>1. UNCHANGED <<wire, cache, lastVersion, database>> /\ ~IsOpen /\ ~IsOpen'
    BY <1>5 DEF BackoffEnds, BackoffElapses, ConnectionTask, IsOpen
  <2> QED BY <2>1, WireAloneKeepsDue
<1>6. CASE ResponseComes
  BY <1>0, <1>6, HandlingKeepsDue
<1>7. CASE BackendAnswers
  BY <1>0, <1>7, AnsweringKeepsDue
<1>8. ASSUME NEW q \in Targets, Publish(q) PROVE DueParts'
  BY <1>0, <1>8, PublishingKeepsDue
<1>9. CASE User \/ OnEvent \/ UNCHANGED vars
  <2>1. UNCHANGED <<connection, wire, client, database>>
    BY <1>9 DEF User, AddSnapshotListener, StopLive, OnEvent, vars
  <2>2. UNCHANGED <<wire, cache, lastVersion, database, watched, view, tracker>> /\ (IsOpen' <=> IsOpen)
    BY <2>1 DEF connection, client, IsOpen
  <2> QED BY <2>2, WireAloneKeepsDue
<1> QED
  BY <1>1, <1>2, <1>3, <1>4, <1>5, <1>6, <1>7, <1>8, <1>9 DEF Next, Client, Network

\* A stream that is open and carries nothing has told all there is to tell.
LEMMA QuietIsCurrent ==
  ASSUME FreshInv, DueParts, IsOpen, requests = << >>, responses = << >>,
         NEW q \in Targets, listeners[q] # {}
  PROVE  view[q].current /\ view[q].docs = rows[q]
<1>1. q \in watched /\ Places(requests, RequestsOf(q)) = {}
  BY CountEmpty DEF FreshInv, FreshParts, WatchedForListeners
<1>2. NewsDueFor(q)
  BY <1>1 DEF DueParts, NewsAreDue
<1>3. \A S : Places(responses, S) = {}
  BY CountEmpty
<1>4. view[q].current /\ cache[q] = rows[q]
  BY <1>2, <1>3 DEF NewsDueFor, Due
<1> QED BY <1>4 DEF FreshInv, ReadsInv, ViewsShowCache

-----------------------------------------------------------------------------
(*****************************************************************************)
(* Nobody is forgotten.  Whoever calls is in the queue, or listens and has *)
(* been told what its view shows or waits for a view that is due.          *)
(*****************************************************************************)
\* The last event on its way to l tells what the view of its query shows; if there is
\* none, l has been told so.
Informed(l) ==
  \/ \E n \in DOMAIN events :
        /\ events[n].to = l /\ events[n].docs = view[asks[l]].docs
        /\ \A k \in DOMAIN events : n < k => events[k].to # l
  \/ /\ l \in Lives /\ told[l] # << >> /\ told[l][1].docs = view[asks[l]].docs
     /\ \A k \in DOMAIN events : events[k].to # l

\* Who listens and has not been informed is waiting for a view that may be shown.
Listening(l) ==
  /\ l \in listeners[asks[l]]
  /\ IF l \in raised THEN Informed(l)
     ELSE ~ShouldRaiseInitialEvent(l, view[asks[l]], tracker.state)

\* Whoever has called and not been stopped or answered is in the queue or listens.
NobodyForgotten ==
  \A l \in called \ muted :
     (\E n \in DOMAIN tasks : tasks[n] = <<"add", l>>) \/ Listening(l)

\* Nobody is added twice, and nobody is removed who has not been muted.
TasksOnce ==
  \A n \in DOMAIN tasks : \A l \in Listeners :
    /\ tasks[n] = <<"remove", l>> => l \in muted
    /\ tasks[n] = <<"add", l>> =>
         /\ l \notin raised /\ l \notin listeners[asks[l]]
         /\ \A k \in DOMAIN tasks : tasks[k] = <<"add", l>> => k = n

\* A get is muted by its answer only.
MutedHaveHeard == \A g \in Gets \cap muted : told[g] # << >>

CallParts == NobodyForgotten /\ TasksOnce /\ MutedHaveHeard

\* At the start nobody has called.
LEMMA CallStart == Init => CallParts
  BY DEF Init, CallParts, NobodyForgotten, TasksOnce, MutedHaveHeard

\* The events that a task raises: one each for those whose view calls for it.
LEMMA RaisedInform ==
  ASSUME ReadsInv, RaiseEvents, told' = told, NEW l \in Listeners,
         l \in listeners'[asks[l]], l \in raised => Informed(l)
  PROVE  Listening(l)'
<1> USE ReadsAssumption
<1> DEFINE all == {k \in Listeners : Raises(k)}
           q == asks[l]
<1>1. PICK s \in SetToSeqs(all) :
        events' = events \o [n \in DOMAIN s |-> Event(s[n], view'[asks[s[n]]])]
  BY DEF RaiseEvents
<1>2. raised' = raised \cup all
  BY DEF RaiseEvents
<1> DEFINE c == Cardinality(all)
           more == [n \in DOMAIN s |-> Event(s[n], view'[asks[s[n]]])]
<1>3. /\ c \in Nat /\ s \in [1..c -> all] /\ IsFiniteSet(all)
      /\ \A i, j \in 1..c : i # j => s[i] # s[j]
  <2>1. IsFiniteSet(all)
    BY FS_Subset
  <2> QED BY <2>1, FS_CardinalityType DEF SetToSeqs
<1>4. /\ DOMAIN more = 1..c
      /\ \A n \in 1..c : more[n].to = s[n] /\ more[n].docs = view'[asks[s[n]]].docs
  <2>1. \A n \in 1..c : more[n] = Event(s[n], view'[asks[s[n]]])
    BY <1>3
  <2>2. DOMAIN more = 1..c
    BY <1>3
  <2> HIDE DEF more, all, c
  <2>3. ASSUME NEW n \in 1..c
        PROVE  more[n].to = s[n] /\ more[n].docs = view'[asks[s[n]]].docs
    <3> DEFINE v == view'[asks[s[n]]]
    <3>1. more[n] = Event(s[n], v)
      BY <2>1
    <3> HIDE DEF v
    <3>2. more[n] = [to |-> s[n], docs |-> v.docs, fromCache |-> ~v.current]
      BY <3>1 DEF Event
    <3>3. more[n].to = s[n] /\ more[n].docs = v.docs
      BY <3>2
    <3> QED BY <3>3 DEF v
  <2> QED BY <2>2, <2>3
<1>5. events' = events \o more
  BY <1>1
<1>6. \A k \in all : \E n \in 1..c : s[n] = k
  <2>1. s \in Injection(1..c, all)
    BY <1>3 DEF Injection, IsInjective
  <2>2. IsFiniteSet(1..c) /\ Cardinality(1..c) = c
    <3> HIDE DEF c
    <3>1. c \in Nat
      BY <1>3
    <3> QED BY <3>1, FS_Interval
  <2>3. s \in Surjection(1..c, all)
    BY <1>3, <2>1, <2>2, FS_Injection
  <2> QED BY <2>3 DEF Surjection
<1> HIDE DEF more, c
<1>7. events \in Seq(Events)
  BY DEF ReadsInv, ReadsTypes
<1>8. PICK L \in Nat : L = Len(events) /\ DOMAIN events = 1..L
  BY <1>7, LenProperties
<1>9. /\ DOMAIN events' = 1..(L + c)
      /\ \A n \in 1..L : events'[n] = events[n]
      /\ \A n \in 1..c : events'[n + L] = more[n]
      /\ \A n \in 1..(L + c) : n \in 1..L \/ (n - L \in 1..c /\ events'[n] = more[n - L])
  BY <1>3, <1>4, <1>5, <1>8
<1>10. CASE Raises(l)
  <2>1. PICK n \in 1..c : s[n] = l
    BY <1>6, <1>10
  <2>2. PICK i \in Nat : i = n + L
    BY <2>1
  <2>3. i \in DOMAIN events' /\ events'[i].to = l /\ events'[i].docs = view'[q].docs
    BY <1>3, <1>4, <1>9, <2>1, <2>2
  <2>4. ASSUME NEW k \in DOMAIN events', i < k PROVE events'[k].to # l
    <3>1. k - L \in 1..c /\ events'[k].to = s[k - L] /\ k - L # n
      BY <1>3, <1>4, <1>9, <2>1, <2>2, <2>4
    <3> QED BY <1>3, <2>1, <3>1
  <2>5. Informed(l)' /\ l \in raised'
    BY <1>2, <1>10, <2>3, <2>4 DEF Informed
  <2> QED BY <2>5 DEF Listening
<1>11. CASE ~Raises(l)
  <2>1. \A k \in DOMAIN events' : k \notin DOMAIN events => events'[k].to # l
    <3> SUFFICES ASSUME NEW k \in DOMAIN events', k \notin 1..L PROVE events'[k].to # l
      BY <1>8
    <3>1. k - L \in 1..c /\ events'[k].to = s[k - L]
      BY <1>4, <1>9
    <3> QED BY <1>3, <1>11, <3>1
  <2>2. CASE l \in raised
    <3>1. view'[q].docs = view[q].docs
      BY <1>11, <2>2 DEF Raises, ShouldRaiseEvent
    <3>2. CASE \E n \in DOMAIN events :
                 /\ events[n].to = l /\ events[n].docs = view[q].docs
                 /\ \A k \in DOMAIN events : n < k => events[k].to # l
      <4>1. PICK n \in 1..L :
                 /\ events[n].to = l /\ events[n].docs = view[q].docs
                 /\ \A k \in DOMAIN events : n < k => events[k].to # l
        BY <1>8, <3>2
      <4>2. n \in DOMAIN events' /\ events'[n] = events[n]
        BY <1>3, <1>9
      <4>3. \A k \in DOMAIN events' : n < k => events'[k].to # l
        BY <1>8, <1>9, <2>1, <4>1
      <4>4. Informed(l)'
        BY <3>1, <4>1, <4>2, <4>3 DEF Informed
      <4> QED BY <1>2, <2>2, <4>4 DEF Listening
    <3>3. CASE /\ l \in Lives /\ told[l] # << >> /\ told[l][1].docs = view[q].docs
               /\ \A k \in DOMAIN events : events[k].to # l
      <4>1. \A k \in DOMAIN events' : events'[k].to # l
        BY <1>8, <1>9, <2>1, <3>3
      <4>2. Informed(l)'
        BY <3>1, <3>3, <4>1 DEF Informed
      <4> QED BY <1>2, <2>2, <4>2 DEF Listening
    <3> QED BY <2>2, <3>2, <3>3 DEF Informed
  <2>3. CASE l \notin raised
    <3>1. ~ShouldRaiseInitialEvent(l, view[q], tracker.state)'
      BY <1>11, <2>3 DEF Raises, ShouldRaiseInitialEvent
    <3> QED BY <1>2, <1>11, <2>3, <3>1 DEF Listening
  <2> QED BY <2>2, <2>3
<1> QED BY <1>10, <1>11

\* The places of a sequence that grows by one element, or loses its head.
LEMMA OneMore ==
  ASSUME NEW T, NEW s \in Seq(T), NEW e \in T, NEW t, t = Append(s, e)
  PROVE  /\ \A n \in DOMAIN s : n \in DOMAIN t /\ t[n] = s[n]
         /\ \E n \in DOMAIN t : t[n] = e
         /\ \A n \in DOMAIN t : (n \in DOMAIN s /\ t[n] = s[n]) \/ (n = Len(s) + 1 /\ t[n] = e)
<1>1. Len(s) \in Nat /\ DOMAIN s = 1..Len(s)
  BY LenProperties
<1>2. /\ t \in Seq(T) /\ Len(t) = Len(s) + 1
      /\ \A i \in 1..Len(s) : t[i] = s[i]
      /\ t[Len(s) + 1] = e
  BY AppendProperties
<1>3. DOMAIN t = 1..(Len(s) + 1)
  BY <1>2, LenProperties
<1> QED BY <1>1, <1>2, <1>3

LEMMA OneLess ==
  ASSUME NEW T, NEW s \in Seq(T), s # << >>, NEW t, t = Tail(s)
  PROVE  /\ 1 \in DOMAIN s /\ Head(s) = s[1] /\ Head(s) \in T
         /\ DOMAIN s \subseteq Nat \ {0} /\ DOMAIN t \subseteq Nat \ {0}
         /\ \A n \in DOMAIN t : n + 1 \in DOMAIN s /\ t[n] = s[n + 1]
         /\ \A n \in DOMAIN s : n # 1 => n - 1 \in DOMAIN t /\ t[n - 1] = s[n]
<1>1. /\ Head(s) \in T /\ Head(s) = s[1] /\ t \in Seq(T)
      /\ Len(t) = Len(s) - 1
      /\ \A n \in 1..Len(t) : t[n] = s[n + 1]
  BY HeadTailProperties
<1>2. Len(s) \in Nat /\ DOMAIN s = 1..Len(s) /\ DOMAIN t = 1..Len(t) /\ Len(s) >= 1
  BY <1>1, LenProperties
<1> QED BY <1>1, <1>2

\* A task that raises events and leaves the queue and the listeners alone.
LEMMA RaisingForgetsNobody ==
  ASSUME ReadsInv, Callers, CallParts, RaiseEvents,
         UNCHANGED <<called, muted, told, tasks, listeners>>
  PROVE  CallParts'
<1>1. NobodyForgotten'
  <2> SUFFICES ASSUME NEW l \in called \ muted,
                      ~ \E n \in DOMAIN tasks : tasks[n] = <<"add", l>>
               PROVE  Listening(l)'
    BY DEF NobodyForgotten
  <2>1. Listening(l) /\ l \in Listeners
    BY DEF CallParts, NobodyForgotten, Callers
  <2>2. l \in listeners'[asks[l]] /\ (l \in raised => Informed(l))
    BY <2>1 DEF Listening
  <2> QED BY <2>1, <2>2, RaisedInform
<1>2. TasksOnce'
  <2>1. \A l \in Listeners : l \in raised' => l \in raised \/ l \in listeners[asks[l]]
    BY DEF RaiseEvents, Raises
  <2> QED BY <2>1 DEF CallParts, TasksOnce
<1>3. MutedHaveHeard'
  BY DEF CallParts, MutedHaveHeard
<1> QED BY <1>1, <1>2, <1>3 DEF CallParts

\* A call puts its task at the end of the queue.
LEMMA CallingForgetsNobody ==
  ASSUME ReadsInv, Callers, CallParts, NEW l \in Listeners, AddSnapshotListener(l)
  PROVE  CallParts'
<1>1. /\ l \notin called /\ called' = called \cup {l}
      /\ tasks' = Append(tasks, <<"add", l>>)
      /\ UNCHANGED <<muted, told, events, listeners, raised, view, tracker>>
  BY DEF AddSnapshotListener, connection, client
<1> DEFINE T == {"add", "remove"} \X Listeners
<1>2. tasks \in Seq(T) /\ <<"add", l>> \in T
  <2>1. {"add", "remove"} \X called \subseteq {"add", "remove"} \X Listeners
    BY DEF Callers
  <2> QED BY <2>1, SeqMonotonic DEF Callers
<1>3. \A n \in DOMAIN tasks : tasks[n] # <<"add", l>>
  <2>1. tasks \in Seq({"add", "remove"} \X called)
    BY DEF Callers
  <2>2. \A n \in DOMAIN tasks : tasks[n] \in {"add", "remove"} \X called
    BY <2>1, LenProperties, ElementOfSeq
  <2> QED BY <1>1, <2>2
<1>4. l \notin raised /\ l \notin listeners[asks[l]]
  BY <1>1, ReadsAssumption DEF Callers
<1> HIDE DEF T
<1>5. /\ \A n \in DOMAIN tasks : n \in DOMAIN tasks' /\ tasks'[n] = tasks[n]
      /\ \E n \in DOMAIN tasks' : tasks'[n] = <<"add", l>>
      /\ \A n \in DOMAIN tasks' : (n \in DOMAIN tasks /\ tasks'[n] = tasks[n])
                                    \/ (n = Len(tasks) + 1 /\ tasks'[n] = <<"add", l>>)
  BY <1>1, <1>2, OneMore
<1>6. NobodyForgotten'
  <2> SUFFICES ASSUME NEW k \in called' \ muted,
                      ~ \E n \in DOMAIN tasks' : tasks'[n] = <<"add", k>>
               PROVE  Listening(k)'
    BY <1>1 DEF NobodyForgotten
  <2>1. k # l /\ k \in called \ muted /\ ~ \E n \in DOMAIN tasks : tasks[n] = <<"add", k>>
    BY <1>1, <1>5
  <2>2. Listening(k)
    BY <2>1 DEF CallParts, NobodyForgotten
  <2> QED BY <1>1, <2>2 DEF Listening, Informed, ShouldRaiseInitialEvent
<1>7. TasksOnce'
  <2> SUFFICES ASSUME NEW n \in DOMAIN tasks', NEW k \in Listeners
               PROVE  /\ tasks'[n] = <<"remove", k>> => k \in muted
                      /\ tasks'[n] = <<"add", k>> =>
                           /\ k \notin raised /\ k \notin listeners[asks[k]]
                           /\ \A i \in DOMAIN tasks' : tasks'[i] = <<"add", k>> => i = n
    BY <1>1 DEF TasksOnce
  <2>1. CASE k = l
    BY <1>3, <1>4, <1>5, <2>1 DEF CallParts, TasksOnce
  <2>2. CASE k # l
    <3>1. \A i \in DOMAIN tasks' : tasks'[i] = <<"add", k>> \/ tasks'[i] = <<"remove", k>> =>
            i \in DOMAIN tasks /\ tasks'[i] = tasks[i]
      BY <1>5, <2>2
    <3> QED BY <3>1 DEF CallParts, TasksOnce
  <2> QED BY <2>1, <2>2
<1>8. MutedHaveHeard'
  BY <1>1 DEF CallParts, MutedHaveHeard
<1> QED BY <1>6, <1>7, <1>8 DEF CallParts

\* Somebody who is muted is forgotten rightly.
LEMMA MutingForgetsNobody ==
  ASSUME ReadsInv, Callers, CallParts, NEW l \in called, RemoveListener(l),
         UNCHANGED <<called, listeners, raised, view, tracker>>,
         l \in Gets => told'[l] # << >>,
         \A g \in Gets : told[g] # << >> => told'[g] # << >>,
         \A k \in called \ muted' : Informed(k) => Informed(k)'
  PROVE  CallParts'
<1>1. muted' = muted \cup {l} /\ tasks' = Append(tasks, <<"remove", l>>)
  BY DEF RemoveListener
<1> DEFINE T == {"add", "remove"} \X Listeners
<1>2. tasks \in Seq(T) /\ <<"remove", l>> \in T
  <2>1. {"add", "remove"} \X called \subseteq {"add", "remove"} \X Listeners
    BY DEF Callers
  <2> QED BY <2>1, SeqMonotonic DEF Callers
<1> HIDE DEF T
<1>3. /\ \A n \in DOMAIN tasks : n \in DOMAIN tasks' /\ tasks'[n] = tasks[n]
      /\ \A n \in DOMAIN tasks' : (n \in DOMAIN tasks /\ tasks'[n] = tasks[n])
                                    \/ (n = Len(tasks) + 1 /\ tasks'[n] = <<"remove", l>>)
  BY <1>1, <1>2, OneMore
<1>4. NobodyForgotten'
  <2> SUFFICES ASSUME NEW k \in called \ muted',
                      ~ \E n \in DOMAIN tasks' : tasks'[n] = <<"add", k>>
               PROVE  Listening(k)'
    BY DEF NobodyForgotten
  <2>1. k \in called \ muted /\ ~ \E n \in DOMAIN tasks : tasks[n] = <<"add", k>>
    BY <1>1, <1>3
  <2>2. Listening(k)
    BY <2>1 DEF CallParts, NobodyForgotten
  <2> QED BY <2>2 DEF Listening, ShouldRaiseInitialEvent
<1>5. TasksOnce'
  <2> SUFFICES ASSUME NEW n \in DOMAIN tasks', NEW k \in Listeners
               PROVE  /\ tasks'[n] = <<"remove", k>> => k \in muted'
                      /\ tasks'[n] = <<"add", k>> =>
                           /\ k \notin raised /\ k \notin listeners[asks[k]]
                           /\ \A i \in DOMAIN tasks' : tasks'[i] = <<"add", k>> => i = n
    BY DEF TasksOnce
  <2>1. \A i \in DOMAIN tasks' : tasks'[i] = <<"add", k>> => i \in DOMAIN tasks /\ tasks'[i] = tasks[i]
    BY <1>3
  <2>2. tasks'[n] = <<"remove", k>> => k \in muted'
    BY <1>1, <1>3 DEF CallParts, TasksOnce
  <2> QED BY <2>1, <2>2 DEF CallParts, TasksOnce
<1>6. MutedHaveHeard'
  BY <1>1 DEF CallParts, MutedHaveHeard
<1> QED BY <1>4, <1>5, <1>6 DEF CallParts

\* A live listener is stopped by a call: it is muted, and its removal is queued.
LEMMA StoppingForgetsNobody ==
  ASSUME ReadsInv, Callers, CallParts, NEW l \in Lives, StopLive(l)
  PROVE  CallParts'
<1>1. /\ l \in called /\ RemoveListener(l)
      /\ UNCHANGED <<called, told, events, listeners, raised, view, tracker>>
  BY DEF StopLive, connection, client
<1>2. l \notin Gets
  BY ReadsAssumption
<1>3. \A k : Informed(k) => Informed(k)'
  BY <1>1 DEF Informed
<1> QED BY <1>1, <1>2, <1>3, MutingForgetsNobody

\* The event at the head reaches its listener; a get that is answered is muted.
LEMMA RunningForgetsNobody ==
  ASSUME ReadsInv, Callers, CallParts, OnEvent
  PROVE  CallParts'
<1> USE ReadsAssumption
<1> DEFINE e == Head(events)
           heard == [docs |-> e.docs, fromCache |-> e.fromCache]
<1>1. /\ events # << >> /\ events' = Tail(events)
      /\ UNCHANGED <<called, listeners, raised, view, tracker>>
      /\ \/ /\ e.to \in muted
            /\ UNCHANGED <<muted, tasks, told>>
         \/ /\ e.to \in Gets \ muted
            /\ RemoveListener(e.to)
            /\ told' = [told EXCEPT ![e.to] = Append(@, heard)]
         \/ /\ e.to \in Lives \ muted
            /\ told' = [told EXCEPT ![e.to] = <<heard>>]
            /\ UNCHANGED <<muted, tasks>>
  BY DEF OnEvent, connection, client
<1>2. events \in Seq(Events) /\ told \in [Listeners -> Seq(Answers)]
  BY DEF ReadsInv, ReadsTypes
<1>3. /\ 1 \in DOMAIN events /\ e = events[1] /\ e \in Events
      /\ DOMAIN events \subseteq Nat \ {0} /\ DOMAIN events' \subseteq Nat \ {0}
      /\ \A n \in DOMAIN events' : n + 1 \in DOMAIN events /\ events'[n] = events[n + 1]
      /\ \A n \in DOMAIN events : n # 1 => n - 1 \in DOMAIN events' /\ events'[n - 1] = events[n]
  BY <1>1, <1>2, OneLess
<1>4. e.to \in Listeners /\ e.to \in called /\ heard \in Answers
  BY <1>3 DEF Callers, Events, Answers
<1>5. heard.docs = e.docs
  OBVIOUS
<1> HIDE DEF e, heard
\* An event further behind is still the last.
<1>6. ASSUME NEW k, NEW n \in DOMAIN events, n # 1,
             events[n].to = k, events[n].docs = view[asks[k]].docs,
             \A i \in DOMAIN events : n < i => events[i].to # k
      PROVE  Informed(k)'
  <2>1. PICK j \in DOMAIN events' : n = j + 1 /\ events'[j] = events[n]
    <3>1. n - 1 \in DOMAIN events' /\ events'[n - 1] = events[n] /\ n \in Nat
      BY <1>3, <1>6
    <3> QED BY <3>1
  <2>2. ASSUME NEW i \in DOMAIN events', j < i PROVE events'[i].to # k
    <3>1. i + 1 \in DOMAIN events /\ events'[i] = events[i + 1] /\ n < i + 1
      BY <1>3, <2>1, <2>2
    <3> QED BY <1>6, <3>1
  <2> QED BY <1>1, <1>6, <2>1, <2>2 DEF Informed
\* Nor does it matter to the others.
<1>7. ASSUME NEW k \in Listeners, k # e.to, told'[k] = told[k], Informed(k) PROVE Informed(k)'
  <2>1. ASSUME NEW n \in DOMAIN events,
               events[n].to = k, events[n].docs = view[asks[k]].docs,
               \A i \in DOMAIN events : n < i => events[i].to # k
        PROVE  Informed(k)'
    <3>1. n # 1
      BY <1>3, <1>7, <2>1
    <3> QED BY <1>6, <2>1, <3>1
  <2>2. CASE /\ k \in Lives /\ told[k] # << >> /\ told[k][1].docs = view[asks[k]].docs
             /\ \A i \in DOMAIN events : events[i].to # k
    <3>1. \A i \in DOMAIN events' : events'[i].to # k
      BY <1>3, <2>2
    <3> QED BY <1>1, <1>7, <2>2, <3>1 DEF Informed
  <2> QED BY <1>7, <2>1, <2>2 DEF Informed
<1>8. \A k \in Listeners : k # e.to => told'[k] = told[k]
  BY <1>1, <1>2
<1>9. CASE e.to \in Gets \ muted
  <2>1. RemoveListener(e.to) /\ told' = [told EXCEPT ![e.to] = Append(@, heard)]
    BY <1>1, <1>9
  <2>2. told'[e.to] # << >>
    <3>1. told'[e.to] = Append(told[e.to], heard) /\ told[e.to] \in Seq(Answers)
      BY <1>2, <1>4, <2>1
    <3> QED BY <1>4, <3>1, AppendProperties
  <2>3. \A k \in called \ muted' : k \in Listeners /\ k # e.to
    BY <2>1 DEF RemoveListener, Callers
  <2>4. \A g \in Gets : told[g] # << >> => told'[g] # << >>
    BY <1>8, <2>2 DEF Listeners
  <2> QED BY <1>1, <1>4, <1>7, <1>8, <2>1, <2>2, <2>3, <2>4, MutingForgetsNobody
<1>10. CASE e.to \notin Gets \ muted
  <2>1. UNCHANGED <<muted, tasks>>
    BY <1>1, <1>10
  <2>2. ASSUME NEW k \in called \ muted, Informed(k) PROVE Informed(k)'
    <3>1. k \in Listeners
      BY DEF Callers
    <3>2. CASE k # e.to
      BY <1>7, <1>8, <2>2, <3>1, <3>2
    <3>3. CASE k = e.to
      <4>1. k \in Lives \ muted /\ told' = [told EXCEPT ![k] = <<heard>>]
        BY <1>1, <1>10, <2>2, <3>3
      <4>2. told'[k] # << >> /\ told'[k][1].docs = e.docs
        BY <1>2, <1>5, <3>1, <4>1
      <4>3. PICK n \in DOMAIN events :
              /\ events[n].to = k /\ events[n].docs = view[asks[k]].docs
              /\ \A i \in DOMAIN events : n < i => events[i].to # k
        BY <1>3, <2>2, <3>3 DEF Informed
      <4>4. CASE n # 1
        BY <1>6, <4>3, <4>4
      <4>5. CASE n = 1
        <5>1. \A i \in DOMAIN events' : events'[i].to # k
          <6> SUFFICES ASSUME NEW i \in DOMAIN events' PROVE events'[i].to # k
            OBVIOUS
          <6>1. i + 1 \in DOMAIN events /\ events'[i] = events[i + 1] /\ 1 < i + 1
            BY <1>3
          <6> QED BY <4>3, <4>5, <6>1
        <5> QED BY <1>1, <1>3, <4>1, <4>2, <4>3, <4>5, <5>1 DEF Informed
      <4> QED BY <4>4, <4>5
    <3> QED BY <3>2, <3>3
  <2>3. NobodyForgotten'
    <3> SUFFICES ASSUME NEW k \in called \ muted,
                        ~ \E n \in DOMAIN tasks : tasks[n] = <<"add", k>>
                 PROVE  Listening(k)'
      BY <1>1, <2>1 DEF NobodyForgotten
    <3>1. Listening(k)
      BY DEF CallParts, NobodyForgotten
    <3> QED BY <1>1, <2>2, <3>1 DEF Listening, ShouldRaiseInitialEvent
  <2>4. TasksOnce'
    BY <1>1, <2>1 DEF CallParts, TasksOnce
  <2>5. MutedHaveHeard'
    <3>1. \A g \in Gets \cap muted : told'[g] = told[g]
      BY <1>1, <1>8, <1>10 DEF Listeners
    <3> QED BY <2>1, <3>1 DEF CallParts, MutedHaveHeard
  <2> QED BY <2>3, <2>4, <2>5 DEF CallParts
<1> QED BY <1>9, <1>10

\* The head of the queue is run.
LEMMA QueueForgetsNobody ==
  ASSUME ReadsInv, Callers, CallParts, NEW l \in Listeners,
         AddQueryListener(l) \/ RemoveQueryListener(l)
  PROVE  CallParts'
<1> USE ReadsAssumption
<1> DEFINE T == {"add", "remove"} \X Listeners
<1>1. /\ tasks # << >> /\ tasks' = Tail(tasks)
      /\ UNCHANGED <<called, muted, told>>
  BY DEF AddQueryListener, RemoveQueryListener, user
<1>2. tasks \in Seq(T)
  <2>1. {"add", "remove"} \X called \subseteq {"add", "remove"} \X Listeners
    BY DEF Callers
  <2> QED BY <2>1, SeqMonotonic DEF Callers
<1> HIDE DEF T
<1>3. /\ 1 \in DOMAIN tasks /\ Head(tasks) = tasks[1]
      /\ DOMAIN tasks \subseteq Nat \ {0} /\ DOMAIN tasks' \subseteq Nat \ {0}
      /\ \A n \in DOMAIN tasks' : n + 1 \in DOMAIN tasks /\ tasks'[n] = tasks[n + 1]
      /\ \A n \in DOMAIN tasks : n # 1 => n - 1 \in DOMAIN tasks' /\ tasks'[n - 1] = tasks[n]
  BY <1>1, <1>2, OneLess
<1>4. listeners \in [Targets -> SUBSET Listeners] /\ asks \in [Listeners -> Targets]
      /\ view \in [Targets -> [docs : Versions, current : BOOLEAN]]
  BY DEF ReadsInv, ReadsTypes
<1>5. MutedHaveHeard'
  BY <1>1 DEF CallParts, MutedHaveHeard
\* What is left in the queue is there once, and is not raised to.
<1>6. ASSUME NEW k \in Listeners, NEW n \in DOMAIN tasks', tasks'[n] = <<"add", k>>
      PROVE  /\ k \notin raised /\ k \notin listeners[asks[k]]
             /\ \A i \in DOMAIN tasks' : tasks'[i] = <<"add", k>> => i = n
             /\ Head(tasks) # <<"add", k>>
  <2>1. n + 1 \in DOMAIN tasks /\ tasks[n + 1] = <<"add", k>> /\ n + 1 # 1
    BY <1>3, <1>6
  <2>2. \A i \in DOMAIN tasks : tasks[i] = <<"add", k>> => i = n + 1
    BY <2>1 DEF CallParts, TasksOnce
  <2>3. k \notin raised /\ k \notin listeners[asks[k]]
    BY <2>1 DEF CallParts, TasksOnce
  <2>4. \A i \in DOMAIN tasks' : tasks'[i] = <<"add", k>> => i = n
    <3> SUFFICES ASSUME NEW i \in DOMAIN tasks', tasks'[i] = <<"add", k>> PROVE i = n
      OBVIOUS
    <3>1. i + 1 = n + 1 /\ i \in Nat /\ n \in Nat
      BY <1>3, <2>2
    <3> QED BY <3>1
  <2> QED BY <1>3, <2>1, <2>2, <2>3, <2>4
<1>7. \A k \in Listeners, n \in DOMAIN tasks' : tasks'[n] = <<"remove", k>> => k \in muted
  BY <1>3 DEF CallParts, TasksOnce
<1>8. CASE AddQueryListener(l)
  <2>1. /\ Head(tasks) = <<"add", l>> /\ RaiseEvents
        /\ listeners' = [listeners EXCEPT ![asks[l]] = @ \cup {l}]
    BY <1>8 DEF AddQueryListener
  <2>2. l \notin raised
    BY <1>3, <2>1 DEF CallParts, TasksOnce
  <2>3. ASSUME NEW k \in called \ muted,
               ~ \E n \in DOMAIN tasks' : tasks'[n] = <<"add", k>>
        PROVE  Listening(k)'
    <3>1. k \in Listeners
      BY DEF Callers
    <3>2. CASE k = l
      <4>1. l \in listeners'[asks[l]]
        BY <1>4, <2>1
      <4> QED BY <1>1, <2>1, <2>2, <3>2, <4>1, RaisedInform
    <3>3. CASE k # l
      <4>1. \A n \in DOMAIN tasks : tasks[n] # <<"add", k>>
        BY <1>3, <2>1, <2>3, <3>3
      <4>2. Listening(k)
        BY <4>1 DEF CallParts, NobodyForgotten
      <4>3. k \in listeners'[asks[k]] /\ (k \in raised => Informed(k))
        BY <1>4, <2>1, <3>1, <4>2 DEF Listening
      <4> QED BY <1>1, <2>1, <3>1, <4>3, RaisedInform
    <3> QED BY <3>2, <3>3
  <2>4. NobodyForgotten'
    BY <1>1, <2>3 DEF NobodyForgotten
  <2>5. TasksOnce'
    <3>1. ASSUME NEW k \in Listeners, k # l, k \notin raised, k \notin listeners[asks[k]]
          PROVE  k \notin raised' /\ k \notin listeners'[asks[k]]
      <4>1. k \notin listeners'[asks[k]]
        BY <1>4, <2>1, <3>1
      <4> QED BY <2>1, <3>1, <4>1 DEF RaiseEvents, Raises
    <3> QED BY <1>1, <1>6, <1>7, <2>1, <3>1 DEF TasksOnce
  <2> QED BY <1>5, <2>4, <2>5 DEF CallParts
<1>9. CASE RemoveQueryListener(l)
  <2> DEFINE q == asks[l]
  <2>1. /\ Head(tasks) = <<"remove", l>> /\ UNCHANGED <<events, raised>>
        /\ listeners' = [listeners EXCEPT ![q] = @ \ {l}]
        /\ \/ listeners[q] = {l} /\ view' = [view EXCEPT ![q] = NoView] /\ StopListening(q)
           \/ listeners[q] # {l} /\ UNCHANGED <<tracker, view>>
    BY <1>9 DEF RemoveQueryListener, connection
  <2>2. l \in muted
    BY <1>3, <2>1 DEF CallParts, TasksOnce
  <2>3. tracker'.state = "Offline" => tracker.state = "Offline"
    BY <2>1 DEF StopListening, UpdateState
  <2>4. ASSUME NEW k \in called \ muted,
               ~ \E n \in DOMAIN tasks' : tasks'[n] = <<"add", k>>
        PROVE  Listening(k)'
    <3>1. k \in Listeners /\ k # l
      BY <2>2 DEF Callers
    <3>2. \A n \in DOMAIN tasks : tasks[n] # <<"add", k>>
      BY <1>3, <2>1, <2>4
    <3>3. Listening(k)
      BY <3>2 DEF CallParts, NobodyForgotten
    <3>4. k \in listeners'[asks[k]] /\ view'[asks[k]] = view[asks[k]]
      BY <1>4, <2>1, <3>1, <3>3 DEF Listening
    <3> QED BY <1>1, <2>1, <2>3, <3>3, <3>4 DEF Listening, Informed, ShouldRaiseInitialEvent
  <2>5. NobodyForgotten'
    BY <1>1, <2>4 DEF NobodyForgotten
  <2>6. TasksOnce'
    <3>1. \A k \in Listeners : k \in listeners'[asks[k]] => k \in listeners[asks[k]]
      BY <1>4, <2>1
    <3> QED BY <1>1, <1>6, <1>7, <2>1, <3>1 DEF TasksOnce
  <2> QED BY <1>5, <2>5, <2>6 DEF CallParts
<1> QED BY <1>8, <1>9

\* No step forgets a caller.
LEMMA CallStep ==
  ASSUME ReadsInv, Callers, CallParts, [Next]_vars
  PROVE  CallParts'
<1>1. CASE StreamOpens \/ StreamIdles \/ OnlineTimerFires \/ BackoffEnds \/ Fault \/ ResponseComes
  <2>1. UNCHANGED <<called, muted, told, tasks, listeners>> /\ RaiseEvents
    BY <1>1 DEF StreamOpens, StreamIdles, OnlineTimerFires, BackoffEnds, Fault, ResponseComes,
                ConnectionTask, user
  <2> QED BY <2>1, RaisingForgetsNobody
<1>2. CASE BackendAnswers \/ (\E q \in Targets : Publish(q)) \/ UNCHANGED vars
  <2>1. UNCHANGED <<called, muted, told, tasks, events, listeners, raised, view, tracker>>
    BY <1>2 DEF BackendAnswers, Publish, vars, user, client, connection
  <2> QED BY <2>1 DEF CallParts, NobodyForgotten, TasksOnce, MutedHaveHeard, Listening, Informed,
                      ShouldRaiseInitialEvent
<1> QED
  BY <1>1, <1>2, CallingForgetsNobody, StoppingForgetsNobody, RunningForgetsNobody,
     QueueForgetsNobody DEF Next, User, Client, Network

\* What every state of the client satisfies.
ClientInv == ConnectionInv /\ FreshInv /\ Callers /\ DueParts /\ CallParts

\* Every state of the client satisfies its invariant, however the network behaves.
LEMMA ClientInvariant == SilentSpec => []ClientInv
<1>1. Init => ClientInv
  BY ConnectionStart, ReadsStart, FreshStart, CallersStart, DueStart, CallStart
     DEF Init, FreshInv, ClientInv
<1>2. ClientInv /\ [Next]_vars => ClientInv'
  <2> SUFFICES ASSUME ClientInv, [Next]_vars PROVE ClientInv'
    OBVIOUS
  <2>1. ConnectionInv'
    BY ConnectionStep, TaskIsConnectionStep DEF ClientInv
  <2>2. FreshInv' /\ Callers' /\ DueParts' /\ CallParts'
    BY FreshStep, CallersStep, DueStep, CallStep DEF FreshInv, ClientInv
  <2> QED BY <2>1, <2>2 DEF ClientInv
<1> QED BY <1>1, <1>2, PTL DEF SilentSpec

\* Whatever the network does, a client with nothing left to do has answered every
\* get, and has told each listener that is not stopped what the database has now
\* (remote_store.cc, sync_engine.cc, query_listener.cc).
THEOREM ReadsToldAtRest == SilentSpec => []ToldAtRest
<1>1. ClientInv => ToldAtRest
  <2> SUFFICES ASSUME ClientInv, AtRest,
                      NEW l \in called, l \notin muted
               PROVE  l \notin Gets /\ (l \in Lives => told[l] # << >> /\ told[l][1].docs = rows[asks[l]])
    BY DEF ToldAtRest, ClientInv, CallParts, MutedHaveHeard
  <2>1. l \in Listeners /\ asks[l] \in Targets
    BY ReadsAssumption DEF ClientInv, Callers
  <2>2. Listening(l)
    BY DEF ClientInv, CallParts, NobodyForgotten, AtRest
  <2>3. view[asks[l]].current /\ view[asks[l]].docs = rows[asks[l]]
    BY <2>1, <2>2, QuietIsCurrent DEF ClientInv, AtRest, Listening
  <2>4. Informed(l)
    BY <2>2, <2>3 DEF Listening, ShouldRaiseInitialEvent
  <2> QED BY <2>3, <2>4, ReadsAssumption DEF Informed, AtRest
<1> QED BY <1>1, ClientInvariant, PTL

\* An unanswered get waits for something that is on its way.
GetIsInHand ==
  \A g \in Gets \cap called : told[g] = << >> =>
     \/ tasks # << >> \/ events # << >>
     \/ stream \in {"Starting", "Backoff"}
     \/ IsOpen /\ (requests # << >> \/ responses # << >>)

\* A get that has not been answered is never dropped: there is always a task, an
\* event, a starting stream or a message on the wire that it waits for
\* (query_listener.cc, remote_store.cc). It is the safety half of GetsAnswered.
THEOREM ReadsGetIsInHand == SilentSpec => []GetIsInHand
<1>1. ClientInv => GetIsInHand
  <2> SUFFICES ASSUME ClientInv, NEW g \in Gets \cap called, told[g] = << >>,
                      tasks = << >>, events = << >>, stream \notin {"Starting", "Backoff"}
               PROVE  IsOpen /\ (requests # << >> \/ responses # << >>)
    BY DEF GetIsInHand
  <2>1. g \notin muted /\ g \in Listeners /\ asks[g] \in Targets
    BY ReadsAssumption DEF ClientInv, CallParts, MutedHaveHeard, Listeners
  <2>2. Listening(g)
    BY <2>1 DEF ClientInv, CallParts, NobodyForgotten
  <2>3. IsOpen
    <3>1. asks[g] \in watched
      BY <2>1, <2>2 DEF ClientInv, FreshInv, FreshParts, WatchedForListeners, Listening
    <3> QED BY <3>1 DEF ClientInv, ConnectionInv, TrackerSound, IsStarted, IsOpen
  <2>4. requests # << >> \/ responses # << >>
    <3> SUFFICES ASSUME requests = << >>, responses = << >> PROVE FALSE
      OBVIOUS
    <3>1. view[asks[g]].current
      BY <2>1, <2>2, <2>3, QuietIsCurrent DEF ClientInv, Listening
    <3>2. Informed(g)
      BY <2>2, <3>1 DEF Listening, ShouldRaiseInitialEvent
    <3> QED BY <3>2, ReadsAssumption DEF Informed
  <2> QED BY <2>3, <2>4
<1> QED BY <1>1, ClientInvariant, PTL
=============================================================================
