-------------------------- MODULE WatchConnection --------------------------
(***************************************************************************)
(* The connection of the Firestore client of the iOS app to its backend:   *)
(* the watch stream (remote/stream.cc), the part of remote/remote_store.cc *)
(* that starts and stops it, and remote/online_state_tracker.cc, which     *)
(* decides whether the client thinks it is online.  All paths below are    *)
(* under ios/Pods/FirebaseFirestore/Firestore/core/src.                    *)
(*                                                                         *)
(* Everything here runs on the client's worker queue, one task at a time;  *)
(* an action is a task, or the part of one that concerns the connection.   *)
(* A HARD_ASSERT of the code is no guard: TrackerSound says none fires.    *)
(*                                                                         *)
(* Left out: writes and their stream, credentials that fail (the app has   *)
(* no accounts), turning the network off (the app never does), and whether *)
(* an open stream counts as healthy, which only a failed token asks for.   *)
(***************************************************************************)
EXTENDS Integers, FiniteSets

CONSTANT Targets   \* the targets a client can watch, one per query

VARIABLES
  stream,    \* Stream::state_; "Open" stands for Healthy too
  idle,      \* idleness_timer_ is running
  watched,   \* the keys of listen_targets_
  tracker    \* the OnlineStateTracker

connection == <<stream, idle, watched, tracker>>

StreamStates == {"Initial", "Starting", "Open", "Error", "Backoff"}
OnlineStates == {"Unknown", "Online", "Offline"}

\* kMaxWatchStreamFailures: further failures are not counted here, the code
\* asks only for none and for this many.
MaxFailures == 1

\* state_, watch_stream_failures_ and whether online_state_timer_ is running.
Trackers == [state : OnlineStates, failures : 0..MaxFailures, timer : BOOLEAN]

ConnectionTypeOK ==
  /\ stream \in StreamStates
  /\ idle \in BOOLEAN
  /\ watched \subseteq Targets
  /\ tracker \in Trackers

ConnectionInit ==
  /\ stream = "Initial"
  /\ idle = FALSE
  /\ watched = {}
  /\ tracker = [state |-> "Unknown", failures |-> 0, timer |-> FALSE]

IsOpen == stream = "Open"
IsStarted == stream \in {"Starting", "Backoff", "Open"}

-----------------------------------------------------------------------------
(***************************************************************************)
(* The tracker: what its three handlers make of a tracker k.               *)
(***************************************************************************)
HandleWatchStreamStart(k) ==
  IF k.failures # 0 THEN k ELSE [k EXCEPT !.state = "Unknown", !.timer = TRUE]

\* Mutant of HandleWatchStreamFailure: the timer of the attempt goes on running.
FailureKeepsTimer(k) ==
  IF k.state = "Online" THEN [k EXCEPT !.state = "Unknown"]
  ELSE [k EXCEPT !.state = "Offline", !.failures = MaxFailures]

HandleWatchStreamFailure(k) ==
  IF k.state = "Online" THEN [k EXCEPT !.state = "Unknown"]
  ELSE [state |-> "Offline", failures |-> MaxFailures, timer |-> FALSE]

UpdateState(state) == [state |-> state, failures |-> 0, timer |-> FALSE]

\* The timer of ten seconds has fired.
OnlineStateTimeout ==
  /\ tracker.timer
  /\ tracker' = [tracker EXCEPT !.state = "Offline", !.timer = FALSE]
  /\ UNCHANGED <<stream, idle, watched>>

-----------------------------------------------------------------------------
(***************************************************************************)
(* The stream.                                                             *)
(***************************************************************************)

\* Stream::Start: after an error, it waits before it tries again.
Started == IF stream = "Error" THEN "Backoff" ELSE "Starting"

\* A request is written; this ends the wait for idleness.
Write == idle' = FALSE

\* The target is watched; its request is sent now or when the stream opens.
Listen(t) ==
  /\ t \notin watched
  /\ watched' = watched \cup {t}
  /\ \/ /\ ~IsStarted
        /\ stream' = Started
        /\ tracker' = HandleWatchStreamStart(tracker)
        /\ UNCHANGED idle
     \/ /\ IsOpen
        /\ Write
        /\ UNCHANGED <<stream, tracker>>
     \/ /\ IsStarted /\ ~IsOpen
        /\ UNCHANGED <<stream, idle, tracker>>

\* The target is no longer watched.  Without any other the stream is marked
\* idle or, if it is not open, the client no longer claims to know its state.
StopListening(t) ==
  /\ t \in watched
  /\ watched' = watched \ {t}
  /\ idle' = (IsOpen /\ watched' = {})
  /\ tracker' = IF watched' = {} /\ ~IsOpen THEN UpdateState("Unknown") ELSE tracker
  /\ UNCHANGED stream

\* The credentials have come: the call is started, which asks for no round trip,
\* and every watched target is requested.
OnWatchStreamOpen ==
  /\ stream = "Starting"
  /\ stream' = "Open"
  /\ IF watched = {} THEN UNCHANGED idle ELSE Write
  /\ UNCHANGED <<watched, tracker>>

BackoffElapses ==
  /\ stream = "Backoff"
  /\ stream' = "Starting"
  /\ UNCHANGED <<idle, watched, tracker>>

\* The call has failed.  A stream that is still needed is started again.
OnWatchStreamError ==
  /\ IsOpen
  /\ idle' = FALSE
  /\ \/ /\ watched # {}
        /\ stream' = "Backoff"
        /\ tracker' = HandleWatchStreamStart(HandleWatchStreamFailure(tracker))
     \/ /\ watched = {}
        /\ stream' = "Error"
        /\ tracker' = UpdateState("Unknown")
  /\ UNCHANGED watched

\* The stream has been idle for a minute and is stopped.
IdleTimeout ==
  /\ idle
  /\ stream' = "Initial"
  /\ idle' = FALSE
  /\ tracker' = UpdateState("Unknown")
  /\ UNCHANGED watched

\* Any message from the backend.
OnWatchStreamChange ==
  /\ IsOpen
  /\ tracker' = UpdateState("Online")
  /\ UNCHANGED <<stream, idle, watched>>

\* The connectivity monitor reports a usable network: the stream is stopped, its
\* error forgotten, and it is started again if some target is watched.
RestartNetwork ==
  /\ idle' = FALSE
  /\ \/ /\ watched # {}
        /\ stream' = "Starting"
        /\ tracker' = HandleWatchStreamStart(UpdateState("Unknown"))
     \/ /\ watched = {}
        /\ stream' = "Initial"
        /\ tracker' = UpdateState("Unknown")
  /\ UNCHANGED watched

-----------------------------------------------------------------------------
ConnectionNext ==
  \/ \E t \in Targets : Listen(t) \/ StopListening(t)
  \/ OnWatchStreamOpen \/ BackoffElapses \/ IdleTimeout
  \/ OnWatchStreamChange \/ OnWatchStreamError
  \/ OnlineStateTimeout \/ RestartNetwork

ConnectionSpec == ConnectionInit /\ [][ConnectionNext]_connection

\* No HARD_ASSERT of the tracker, of the stream or of OnWatchStreamClose fires:
\* the timer runs only while the state is Unknown and no attempt has failed, so
\* that it is never set twice and never finds another state; an Online client
\* has no failure on record; a stream that is stopped for idleness is not needed.
\* Nor is a watched target ever left without a stream, which nobody would start.
TrackerSound ==
  /\ tracker.timer => /\ tracker.state = "Unknown"
                      /\ tracker.failures = 0
                      /\ IsStarted
  /\ tracker.state = "Online" => tracker.failures = 0 /\ IsOpen
  /\ tracker.state = "Offline" => watched # {} \/ IsOpen
  /\ idle => IsOpen /\ watched = {}
  /\ watched # {} => IsStarted
=============================================================================
