--------------------------- MODULE FirestoreReads ---------------------------
(***************************************************************************)
(* Reading the database through the Firestore client of the iOS app: from  *)
(* a get() or a live listener on the user's thread, over the event         *)
(* manager, the sync engine and the views, to the watch stream and back.   *)
(* All paths below are under                                               *)
(* ios/Pods/FirebaseFirestore/Firestore/core/src.                          *)
(*                                                                         *)
(* Three threads of control take turns: the user's executor (the main      *)
(* queue), the client's worker queue, and the backend, which is external.  *)
(* An action is one task of one of them.  The change of the connection     *)
(* that a task makes is the action of WatchConnection it names.            *)
(*                                                                         *)
(* A query stands for its target, and its documents for the version of the *)
(* database they were read at.  Left out: local writes (the app has none), *)
(* documents in limbo and existence filters (documents that went missing   *)
(* while nobody listened), and listens the backend rejects.                *)
(***************************************************************************)
EXTENDS WatchConnection, Sequences, SequencesExt

CONSTANTS
  Gets,        \* the calls of get()
  Lives,       \* the live listeners (StreamBuilders)
  asks,        \* asks[l]: the query of get or listener l
  MaxVersion,  \* bound: versions of the database
  MaxFaults    \* bound: streams that break and networks that change

Listeners == Gets \cup Lives

ASSUME ReadsAssumption ==
  /\ IsFiniteSet(Targets) /\ IsFiniteSet(Listeners)
  /\ Gets \cap Lives = {}
  /\ asks \in [Listeners -> Targets]
  /\ MaxVersion \in Nat \ {0}
  /\ MaxFaults \in Nat

VARIABLES
  called,      \* the gets and listeners asked for
  muted,       \* those whose AsyncEventListener is muted
  told,        \* told[l]: the answers to get l, the last event of listener l
  events,      \* the user executor: the events posted, oldest first
  tasks,       \* the worker queue: the listeners to add and to remove
  listeners,   \* listeners[q]: QueryListenersInfo of query q in queries_
  raised,      \* the listeners with raised_initial_event_
  view,        \* view[q]: the view of q in query_views_by_query_
  cache,       \* cache[q]: the documents of q in the local store, 0 if none
  lastVersion, \* LocalStore::GetLastRemoteSnapshotVersion
  state,       \* state[q]: the TargetState of q in the WatchChangeAggregator
  updates,     \* its pending_document_updates_, 0 if none
  requests,    \* the stream: what the client has written
  responses,   \* and what the backend has
  serving,     \* the backend: the targets it watches for the stream
  rows,        \* rows[q]: the version of the documents of q
  now,         \* and the version of the whole database
  since,       \* since[q]: history variable, rows[q] when the view of q was made
  faults       \* number of faults so far

user == <<called, muted, told>>
client == <<listeners, raised, view, cache, lastVersion, since>>
wire == <<state, updates, requests, responses, serving>>
database == <<rows, now>>
vars == <<connection, user, events, tasks, client, wire, database, faults>>

Versions == 0..MaxVersion
Events == [to : Listeners, docs : Versions, fromCache : BOOLEAN]
Answers == [docs : Versions, fromCache : BOOLEAN]
Messages == [type : {"Added", "Removed", "Document", "Current", "Snapshot"},
             target : Targets, docs : Versions]
Event(l, v) == [to |-> l, docs |-> v.docs, fromCache |-> ~v.current]
NoView == [docs |-> 0, current |-> FALSE]
NewState == [out |-> 0, current |-> FALSE]

TypeOK ==
  /\ ConnectionTypeOK
  /\ called \subseteq Listeners /\ muted \subseteq called /\ raised \subseteq called
  /\ told \in [Listeners -> Seq(Answers)]
  /\ events \in Seq(Events)
  /\ tasks \in Seq({"add", "remove"} \X Listeners)
  /\ listeners \in [Targets -> SUBSET Listeners]
  /\ view \in [Targets -> [docs : Versions, current : BOOLEAN]]
  /\ {cache, updates, rows, since} \subseteq [Targets -> Versions]
  /\ {lastVersion, now} \subseteq Versions
  /\ state \in [Targets -> [out : Nat, current : BOOLEAN]]
  /\ requests \in Seq({"watch", "unwatch"} \X Targets)
  /\ responses \in Seq(Messages)
  /\ serving \subseteq Targets
  /\ faults \in 0..MaxFaults

Init ==
  /\ ConnectionInit
  /\ called = {} /\ muted = {} /\ raised = {}
  /\ told = [l \in Listeners |-> << >>]
  /\ events = << >> /\ tasks = << >>
  /\ listeners = [q \in Targets |-> {}]
  /\ view = [q \in Targets |-> NoView]
  /\ cache = [q \in Targets |-> 0]
  /\ lastVersion = 0
  /\ state = [q \in Targets |-> NewState]
  /\ updates = [q \in Targets |-> 0]
  /\ requests = << >> /\ responses = << >> /\ serving = {}
  /\ rows = [q \in Targets |-> 1] /\ now = 1
  /\ since = [q \in Targets |-> 0]
  /\ faults = 0

-----------------------------------------------------------------------------
(***************************************************************************)
(* The user's thread.                                                      *)
(***************************************************************************)

\* Query::GetDocuments and Query::AddSnapshotListener.
AddSnapshotListener(l) ==
  /\ l \notin called
  /\ called' = called \cup {l}
  /\ tasks' = Append(tasks, <<"add", l>>)
  /\ UNCHANGED <<connection, muted, told, events, client, wire, database, faults>>

\* Mutant of RemoveListener: the listener is not muted.
RemoveUnmuted(l) ==
  /\ muted' = muted
  /\ tasks' = Append(tasks, <<"remove", l>>)

\* QueryListenerRegistration::Remove; its second half runs on the worker queue.
RemoveListener(l) ==
  /\ muted' = muted \cup {l}
  /\ tasks' = Append(tasks, <<"remove", l>>)

\* The widget of a live listener is disposed.
StopLive(l) ==
  /\ l \in called \ muted
  /\ RemoveListener(l)
  /\ UNCHANGED <<connection, called, told, events, client, wire, database, faults>>

\* The oldest event is run.  A muted listener hears nothing; a get removes its
\* listener before it passes the event on.
OnEvent ==
  /\ events # << >>
  /\ events' = Tail(events)
  /\ LET e == Head(events)
         l == e.to
         heard == [docs |-> e.docs, fromCache |-> e.fromCache]
     IN \/ /\ l \in muted
           /\ UNCHANGED <<muted, tasks, told>>
        \/ /\ l \in Gets \ muted
           /\ RemoveListener(l)
           /\ told' = [told EXCEPT ![l] = Append(@, heard)]
        \/ /\ l \in Lives \ muted
           /\ told' = [told EXCEPT ![l] = <<heard>>]
           /\ UNCHANGED <<muted, tasks>>
  /\ UNCHANGED <<connection, called, client, wire, database, faults>>

-----------------------------------------------------------------------------
(***************************************************************************)
(* What a task of the worker queue raises to the listeners: it takes their *)
(* views from view to view', and the online state to tracker'.state.       *)
(***************************************************************************)

\* A get waits for the backend unless the client is offline.
ShouldRaiseInitialEvent(l, v, online) ==
  \/ v.current
  \/ online = "Offline"
  \/ l \in Lives /\ v.docs > 0

\* A get includes changes of the metadata, that is, of fromCache.
ShouldRaiseEvent(l, old, new) ==
  \/ old.docs # new.docs
  \/ old.current # new.current /\ l \in Gets

Raises(l) ==
  LET q == asks[l] IN
  /\ l \in listeners'[q]
  /\ \/ /\ l \notin raised
        /\ ShouldRaiseInitialEvent(l, view'[q], tracker'.state)
     \/ /\ l \in raised
        /\ ShouldRaiseEvent(l, view[q], view'[q])

RaiseEvents ==
  LET all == {l \in Listeners : Raises(l)} IN
  /\ raised' = raised \cup all
  /\ \E s \in SetToSeqs(all) :
        events' = events \o [n \in DOMAIN s |-> Event(s[n], view'[asks[s[n]]])]

\* View::ApplyOnlineStateChange: offline, no view is in sync.
ViewsHearing(online) ==
  [q \in Targets |-> IF online = "Offline" THEN [view[q] EXCEPT !.current = FALSE]
                                           ELSE view[q]]

\* A task that changes the connection only.
ConnectionTask ==
  /\ view' = ViewsHearing(tracker'.state)
  /\ UNCHANGED <<user, tasks, listeners, cache, lastVersion, since, database>>
  /\ RaiseEvents

\* The aggregator and the stream are made anew.
NewStream ==
  /\ state' = [q \in Targets |-> NewState]
  /\ updates' = [q \in Targets |-> 0]
  /\ requests' = << >> /\ responses' = << >> /\ serving' = {}

-----------------------------------------------------------------------------
(***************************************************************************)
(* The worker queue: listeners.                                            *)
(***************************************************************************)

\* Mutant of RecordPendingTargetRequest: the request is not counted.
RecordNothing(q) == state

RecordPendingTargetRequest(q) == [state EXCEPT ![q].out = @ + 1]

\* RemoteStore::SendWatchRequest and SendUnwatchRequest.
Send(request, q) ==
  /\ requests' = Append(requests, <<request, q>>)
  /\ state' = RecordPendingTargetRequest(q)
  /\ UNCHANGED <<updates, responses, serving>>

\* EventManager::AddQueryListener, SyncEngine::Listen and RemoteStore::Listen.
AddQueryListener(l) ==
  LET q == asks[l] IN
  /\ tasks # << >> /\ Head(tasks) = <<"add", l>>
  /\ tasks' = Tail(tasks)
  /\ listeners' = [listeners EXCEPT ![q] = @ \cup {l}]
  /\ \/ /\ listeners[q] = {}
        /\ view' = [view EXCEPT ![q] = [docs |-> cache[q], current |-> FALSE]]
        /\ since' = [since EXCEPT ![q] = rows[q]]
        /\ Listen(q)
        /\ IF IsOpen THEN Send("watch", q) ELSE UNCHANGED wire
     \/ /\ listeners[q] # {}
        /\ UNCHANGED <<connection, view, since, wire>>
  /\ RaiseEvents
  /\ UNCHANGED <<user, cache, lastVersion, database, faults>>

\* EventManager::RemoveQueryListener, SyncEngine::StopListening and
\* RemoteStore::StopListening.  An online state that is broadcast here finds the
\* view of q gone.
RemoveQueryListener(l) ==
  LET q == asks[l] IN
  /\ tasks # << >> /\ Head(tasks) = <<"remove", l>>
  /\ tasks' = Tail(tasks)
  /\ listeners' = [listeners EXCEPT ![q] = @ \ {l}]
  /\ \/ /\ listeners[q] = {l}
        /\ view' = [view EXCEPT ![q] = NoView]
        /\ since' = [since EXCEPT ![q] = 0]
        /\ StopListening(q)
        /\ IF IsOpen THEN Send("unwatch", q) ELSE UNCHANGED wire
     \/ /\ listeners[q] # {l}
        /\ UNCHANGED <<connection, view, since, wire>>
  /\ UNCHANGED <<user, events, raised, cache, lastVersion, database, faults>>

-----------------------------------------------------------------------------
(***************************************************************************)
(* The worker queue: the stream and its timers.                            *)
(***************************************************************************)
StreamOpens ==
  /\ OnWatchStreamOpen
  /\ \E s \in SetToSeqs(watched) :
        requests' = [n \in DOMAIN s |-> <<"watch", s[n]>>]
  /\ state' = [q \in Targets |->
                 IF q \in watched THEN [out |-> 1, current |-> FALSE] ELSE NewState]
  /\ UNCHANGED <<updates, responses, serving, faults>>
  /\ ConnectionTask

StreamIdles == IdleTimeout /\ NewStream /\ ConnectionTask /\ UNCHANGED faults

OnlineTimerFires ==
  /\ OnlineStateTimeout
  /\ ConnectionTask
  /\ UNCHANGED <<wire, faults>>

BackoffEnds ==
  /\ BackoffElapses
  /\ ConnectionTask
  /\ UNCHANGED <<wire, faults>>

\* The stream breaks, or the network comes back.
Fault ==
  /\ faults < MaxFaults
  /\ faults' = faults + 1
  /\ OnWatchStreamError \/ RestartNetwork
  /\ NewStream
  /\ ConnectionTask

-----------------------------------------------------------------------------
(***************************************************************************)
(* The worker queue: a message of the backend.                             *)
(***************************************************************************)

\* Mutant of IsActiveTarget: requests not answered yet do not count.
IsWatchedTarget(q) == q \in watched

\* Watched, and every request answered.
IsActiveTarget(q) == q \in watched /\ state[q].out = 0

\* The local store keeps the newer of two versions of a document.
Newer(old, new) == IF old < new THEN new ELSE old

\* What the aggregator, without a new snapshot, makes of a message.  The tokens
\* that come with every snapshot leave each active target something to report,
\* so that has_pending_changes_ tells nothing apart.
HandleTargetChange(m) ==
  LET q == m.target
      answered == [state[q] EXCEPT !.out = @ - 1]
  IN state' = [state EXCEPT ![q] =
       CASE m.type = "Added" -> answered
         [] m.type = "Removed" -> IF answered.out = 0 THEN NewState ELSE answered
         [] m.type = "Current" /\ IsActiveTarget(q) -> [@ EXCEPT !.current = TRUE]
         [] OTHER -> @]

HandleDocumentChange(m) ==
  updates' = IF m.type = "Document" /\ IsActiveTarget(m.target)
             THEN [updates EXCEPT ![m.target] = m.docs] ELSE updates

\* RemoteStore::RaiseWatchSnapshot, WatchChangeAggregator::CreateRemoteEvent and
\* SyncEngine::ApplyRemoteEvent.
RaiseWatchSnapshot(version) ==
  /\ lastVersion' = version
  /\ cache' = [q \in Targets |-> Newer(cache[q], updates[q])]
  /\ updates' = [q \in Targets |-> 0]
  /\ view' = [q \in Targets |->
                IF listeners[q] = {} THEN view[q]
                ELSE [docs |-> cache'[q],
                      current |-> IF IsActiveTarget(q) THEN state[q].current
                                                       ELSE view[q].current]]

\* Mutant of MayRaise: a snapshot of the version that the store has is skipped.
OnlyNewer(version) == version > lastVersion

\* A snapshot older than the last is left out; one of the same version is not, as it
\* may tell of a target watched since.
MayRaise(version) == version >= lastVersion

\* RemoteStore::OnWatchStreamChange.
ResponseComes ==
  /\ responses # << >>
  /\ responses' = Tail(responses)
  /\ OnWatchStreamChange
  /\ LET m == Head(responses) IN
     \/ /\ m.type = "Snapshot" /\ MayRaise(m.docs)
        /\ RaiseWatchSnapshot(m.docs)
        /\ UNCHANGED state
     \/ /\ m.type = "Snapshot" /\ ~MayRaise(m.docs)
        /\ UNCHANGED <<view, cache, lastVersion, state, updates>>
     \/ /\ m.type # "Snapshot"
        /\ HandleTargetChange(m)
        /\ HandleDocumentChange(m)
        /\ UNCHANGED <<view, cache, lastVersion>>
  /\ UNCHANGED <<user, tasks, listeners, since, requests, serving, database, faults>>
  /\ RaiseEvents

-----------------------------------------------------------------------------
(***************************************************************************)
(* The backend.  It answers the requests in their order, tells a target it *)
(* serves what it has, that this is current, and that the targets are      *)
(* consistent, and tells of what is published later.                       *)
(***************************************************************************)
Message(type, q, v) == [type |-> type, target |-> q, docs |-> v]

BackendAnswers ==
  /\ IsOpen /\ requests # << >>
  /\ requests' = Tail(requests)
  /\ \E q \in Targets :
     \/ /\ Head(requests) = <<"watch", q>>
        /\ serving' = serving \cup {q}
        /\ responses' = responses \o
             << Message("Added", q, 0), Message("Document", q, rows[q]),
                Message("Current", q, 0), Message("Snapshot", q, now) >>
     \/ /\ Head(requests) = <<"unwatch", q>>
        /\ serving' = serving \ {q}
        /\ responses' = Append(responses, Message("Removed", q, 0))
  /\ UNCHANGED <<connection, user, events, tasks, client, state, updates, database, faults>>

Publish(q) ==
  /\ now < MaxVersion
  /\ now' = now + 1
  /\ rows' = [rows EXCEPT ![q] = now']
  /\ responses' = IF q \notin serving THEN responses
                  ELSE responses \o << Message("Document", q, now'),
                                       Message("Snapshot", q, now') >>
  /\ UNCHANGED <<connection, user, events, tasks, client, state, updates, requests,
                 serving, faults>>

-----------------------------------------------------------------------------
User ==
  \/ \E l \in Listeners : AddSnapshotListener(l)
  \/ \E l \in Lives : StopLive(l)

\* What the phone does by itself.
Client ==
  \/ OnEvent
  \/ \E l \in Listeners : AddQueryListener(l) \/ RemoveQueryListener(l)
  \/ StreamOpens \/ StreamIdles \/ OnlineTimerFires \/ BackoffEnds

\* What takes the backend and a network that carries it.
Network == BackendAnswers \/ ResponseComes

Next == User \/ Client \/ Network \/ Fault \/ \E q \in Targets : Publish(q)

\* Tasks are run and timers fire; the network may do nothing for ever.
ClientFairness ==
  /\ WF_vars(OnEvent)
  /\ WF_vars(\E l \in Listeners : AddQueryListener(l) \/ RemoveQueryListener(l))
  /\ WF_vars(StreamOpens)
  /\ WF_vars(OnlineTimerFires)
  /\ WF_vars(BackoffEnds)

SilentSpec == Init /\ [][Next]_vars /\ ClientFairness

\* After the last fault the backend answers.
Spec == SilentSpec /\ WF_vars(BackendAnswers) /\ WF_vars(ResponseComes)

-----------------------------------------------------------------------------
\* A view that says it is in sync with the backend has whatever the database had
\* when the view was made, although answers to an earlier watch of the same target
\* may still be on their way when it is watched again.
InSyncIsFresh ==
  \A q \in Targets : listeners[q] # {} /\ view[q].current => view[q].docs >= since[q]

\* Nothing is left to do: no task, no event, and an open stream that carries nothing.
AtRest ==
  /\ tasks = << >> /\ events = << >>
  /\ IsOpen /\ requests = << >> /\ responses = << >>

\* A client at rest has forgotten nobody: every get has been answered, and each
\* listener that has not been stopped was last told what the database has now,
\* although documents are dropped while a request for their target is unanswered,
\* and the stream may have broken after any message.
ToldAtRest ==
  AtRest =>
    /\ \A g \in Gets \cap called : told[g] # << >>
    /\ \A l \in (Lives \cap called) \ muted :
          told[l] # << >> /\ told[l][1].docs = rows[asks[l]]

\* Every get is answered if the network recovers: by the backend, or from the cache
\* when the client has given up on it.
GetsAnswered == \A g \in Gets : g \in called ~> told[g] # << >>

\* The pages get what they count on.
Pages == INSTANCE Reading

KeepsReading == Pages!Spec
=============================================================================
