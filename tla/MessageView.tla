------------------------------ MODULE MessageView ------------------------------
(***************************************************************************)
(* What the chat screens get to see of the board: the sync engine's view   *)
(* of the messages query, kept up to date by differences; the listeners of *)
(* the screens, which hold back their first event until there is something *)
(* to tell; and the online state that decides how long they wait.          *)
(*                                                                         *)
(* Every step of the device on the board (MessageBoard, which MessageStore *)
(* implements) is extended by the snapshot the sync engine emits for it.   *)
(* All of it runs on the Firestore worker queue, one operation at a time.  *)
(***************************************************************************)
EXTENDS MessageBoard

CONSTANTS
    Screens,      \* chat screens; their listeners are never removed
    MaxFailures   \* bound: stream failures, user changes and network changes

ASSUME ViewAssumption == NoUser \notin Users /\ MaxFailures \in Nat

VARIABLES
    viewState,    \* no view, or View.sync_state_ of the messages query
    view,         \* View.document_set_
    listener,     \* QueryListener of each screen
    shown,        \* the documents of its last event
    online,       \* OnlineStateTracker.state_
    failures,     \* watch_stream_failures_, at most 1
    timer,        \* online_state_timer_ is pending
    watch,        \* the watch stream: stopped, or started
    required,     \* the board when the target was sent to the server
    reachable,    \* the server can be reached
    mishaps       \* bounded by MaxFailures

viewVars    == <<viewState, view, listener, shown>>
networkVars == <<online, failures, timer, watch, required, reachable, mishaps>>
vars == <<boardVars, viewVars, networkVars>>

Listening == viewState # "none"

ViewTypeOK ==
    /\ BoardTypeOK
    /\ viewState \in {"none", "local", "synced"}
    /\ view \subseteq 1..posted
    /\ listener \in [Screens -> {"absent", "waiting", "raised", "failed"}]
    /\ shown \in [Screens -> SUBSET (1..posted)]
    /\ online \in {"Unknown", "Online", "Offline"}
    /\ failures \in 0..1
    /\ timer \in BOOLEAN
    /\ watch \in {"stopped", "started"}
    /\ required \subseteq 1..posted
    /\ reachable \in BOOLEAN
    /\ mishaps \in Nat

-----------------------------------------------------------------------------
(* View and QueryListener                                                  *)

\* View::ComputeDocumentChanges for the documents with the given keys.
ComputeDocumentChanges(keys) ==
    {m \in view \cup keys : m \in keys => m \in Screen'}

\* Mutant of ShouldRaiseInitialEvent: an offline client waits for the server.
RaiseWhenSynced(state, docs, network) == state = "synced" \/ docs # {}

\* ShouldRaiseInitialEvent: synced, or something to show, or known offline.
ShouldRaiseInitialEvent(state, docs, network) ==
    state = "synced" \/ docs # {} \/ network = "Offline"

\* EmitNewSnapshots, EventManager and QueryListener: the view becomes docs in
\* the given state; waiting listeners, which know the state of the network, may
\* raise their first event, others raise one for every change of the documents.
EmitSnapshot(state, docs, network) ==
    /\ viewState' = state
    /\ view' = docs
    /\ listener' = [s \in Screens |->
         IF listener[s] = "waiting" /\ ShouldRaiseInitialEvent(state, docs, network)
           THEN "raised" ELSE listener[s]]
    /\ shown' = [s \in Screens |->
         IF listener'[s] = "raised" /\ (listener[s] = "waiting" \/ docs # view)
           THEN docs ELSE shown[s]]

\* The documents with the given keys may have changed.
DocumentsChanged(keys) ==
    IF Listening THEN EmitSnapshot(viewState, ComputeDocumentChanges(keys), online)
                 ELSE UNCHANGED viewVars

-----------------------------------------------------------------------------
(* OnlineStateTracker                                                      *)

\* Mutant of UpdateState: the timer goes on.
UpdateStateOnly(state) ==
    /\ online' = state
    /\ failures' = 0
    /\ UNCHANGED timer

\* A verdict on the network ends the waiting and forgets the failures.
UpdateState(state) ==
    /\ online' = state
    /\ failures' = 0
    /\ timer' = FALSE

\* Mutant of RestartWatchStream: the restarted stream is waited for forever.
RestartWithoutTimer ==
    /\ online' = "Unknown"
    /\ failures' = 0
    /\ timer' = FALSE
    /\ watch' = IF Listening THEN "started" ELSE "stopped"
    /\ required' = board

\* The watch stream starts after the network was reset: ten seconds to answer.
\* The target is sent to the server, which answers from its state of then.
RestartWatchStream ==
    /\ online' = "Unknown"
    /\ failures' = 0
    /\ timer' = Listening
    /\ watch' = IF Listening THEN "started" ELSE "stopped"
    /\ required' = board

\* Going offline makes a synced view one from the cache.
StateWhen(state) == IF state = "Offline" /\ viewState = "synced" THEN "local" ELSE viewState

-----------------------------------------------------------------------------
ViewInit ==
    /\ BoardInit
    /\ viewState = "none"
    /\ view = {}
    /\ listener = [s \in Screens |-> "absent"]
    /\ shown = [s \in Screens |-> {}]
    /\ online = "Unknown"
    /\ failures = 0
    /\ timer = FALSE
    /\ watch = "stopped"
    /\ required = {}
    /\ reachable \in BOOLEAN
    /\ mishaps = 0

\* A message is written, confirmed or refused: one document changes.
WriteMutations ==
    /\ Post
    /\ DocumentsChanged({posted'})
    /\ UNCHANGED networkVars

HandleSuccessfulWrite ==
    /\ reachable
    /\ Confirm
    /\ DocumentsChanged({Head(outbox[user])})
    /\ UNCHANGED networkVars

HandleRejectedWrite ==
    /\ reachable
    /\ Drop
    /\ DocumentsChanged({Head(outbox[user])})
    /\ UNCHANGED networkVars

\* Mutant of AffectedByUserChange: only the new user's documents.
OnlyNewBatches(u) == Waiting(u)

\* HandleUserChange: the documents of the old and of the new mutation queue.
AffectedByUserChange(u) == Waiting(user) \cup Waiting(u)

\* HandleCredentialChange: the documents of both queues are computed again if
\* the user changed, and the network restarts in any case.
HandleCredentialChange(u) ==
    /\ mishaps < MaxFailures
    /\ mishaps' = mishaps + 1
    /\ SwitchUser(u)
    /\ RestartWatchStream
    /\ IF u = user THEN UNCHANGED viewVars ELSE DocumentsChanged(AffectedByUserChange(u))
    /\ UNCHANGED reachable

\* A screen attaches its listener.  The first one executes the query and
\* listens; a later one is told the state of the view.  The target is sent on
\* the watch stream, which is started if it is not.
AddQueryListener(s) ==
    /\ listener[s] = "absent"
    /\ LET docs   == IF Listening THEN view ELSE Screen
           state  == IF Listening THEN viewState ELSE "local"
           raised == ShouldRaiseInitialEvent(state, docs, online)
       IN  /\ view' = docs
           /\ viewState' = state
           /\ listener' = [listener EXCEPT ![s] = IF raised THEN "raised" ELSE "waiting"]
           /\ shown' = IF raised THEN [shown EXCEPT ![s] = docs] ELSE shown
    /\ required' = IF Listening THEN required ELSE board
    /\ watch' = "started"
    /\ IF watch = "stopped" /\ failures = 0
         THEN online' = "Unknown" /\ timer' = TRUE
         ELSE UNCHANGED <<online, timer>>
    /\ UNCHANGED <<boardVars, failures, reachable, mishaps>>

-----------------------------------------------------------------------------
(* The watch stream                                                        *)

\* A message without a snapshot: the target is confirmed, the server is there.
OnWatchStreamChange ==
    /\ reachable /\ watch = "started" /\ Listening
    /\ online # "Online"
    /\ UpdateState("Online")
    /\ UNCHANGED <<boardVars, viewVars, watch, required, reachable, mishaps>>

\* A consistent snapshot with documents S.  A current one covers all that was
\* on the board when the target was sent.
ApplyRemoteEvent(S, current) ==
    /\ reachable /\ watch = "started" /\ Listening
    /\ current => required \subseteq seen \cup S
    /\ Learn(S)
    /\ UpdateState("Online")
    /\ EmitSnapshot(IF current THEN "synced" ELSE "local", ComputeDocumentChanges(S), "Online")
    /\ UNCHANGED <<watch, required, reachable, mishaps>>

\* The stream breaks, as it does by itself when the server cannot be reached.
\* The first failure of an online client makes its state unknown, any other
\* one makes it offline, and the stream is started again.
OnWatchStreamClose ==
    /\ watch = "started"
    /\ \/ ~reachable /\ UNCHANGED mishaps
       \/ mishaps < MaxFailures /\ mishaps' = mishaps + 1
    /\ IF ~Listening
         THEN UpdateState("Unknown") /\ watch' = "stopped" /\ UNCHANGED <<viewVars, required>>
         ELSE /\ IF online = "Online"
                   THEN online' = "Unknown" /\ timer' = TRUE /\ UNCHANGED failures
                   ELSE online' = "Offline" /\ timer' = FALSE /\ failures' = 1
              /\ EmitSnapshot(StateWhen(online'), view, online')
              /\ required' = board
              /\ UNCHANGED watch
    /\ UNCHANGED <<boardVars, reachable>>

\* Ten seconds without a message from the server.
OnlineStateTimeout ==
    /\ timer
    /\ timer' = FALSE
    /\ online' = "Offline"
    /\ IF Listening THEN EmitSnapshot(StateWhen("Offline"), view, "Offline") ELSE UNCHANGED viewVars
    /\ UNCHANGED <<boardVars, failures, watch, required, reachable, mishaps>>

\* The server refuses the target: the view goes, and its listeners get an
\* error and are forgotten.
HandleRejectedListen ==
    /\ reachable /\ watch = "started" /\ Listening
    /\ UpdateState("Online")
    /\ viewState' = "none"
    /\ view' = {}
    /\ listener' = [s \in Screens |-> IF listener[s] = "absent" THEN "absent" ELSE "failed"]
    /\ UNCHANGED <<boardVars, shown, watch, required, reachable, mishaps>>

\* The network appears, which restarts the streams, or disappears.
ConnectivityChanges ==
    /\ mishaps < MaxFailures
    /\ mishaps' = mishaps + 1
    /\ reachable' = ~reachable
    /\ IF reachable' THEN RestartWatchStream
                     ELSE UNCHANGED <<online, failures, timer, watch, required>>
    /\ UNCHANGED <<boardVars, viewVars>>

\* The board moves on without this device, also by its own lost writes.
ServerStep ==
    /\ PostElsewhere \/ \E m \in 1..posted : m \notin board /\ Deliver(m)
    /\ UNCHANGED <<viewVars, networkVars>>

ViewNext ==
    \/ WriteMutations
    \/ HandleSuccessfulWrite
    \/ HandleRejectedWrite
    \/ \E u \in Accounts : HandleCredentialChange(u)
    \/ \E s \in Screens : AddQueryListener(s)
    \/ OnWatchStreamChange
    \/ \E S \in SUBSET board, current \in BOOLEAN : ApplyRemoteEvent(S, current)
    \/ OnWatchStreamClose
    \/ OnlineStateTimeout
    \/ HandleRejectedListen
    \/ ConnectivityChanges
    \/ ServerStep

ViewSpec == ViewInit /\ [][ViewNext]_vars

\* The timer fires.  A server that can be reached brings a listening client up
\* to date sooner or later, and gRPC's keep-alive ends a stream over a dead
\* connection.  Nothing else is assumed of the network or the user.
CatchUp        == ApplyRemoteEvent(board, TRUE)
DeadConnection == ~reachable /\ OnWatchStreamClose

ViewFairness ==
    /\ WF_vars(OnlineStateTimeout)
    /\ WF_vars(CatchUp)
    /\ WF_vars(DeadConnection)

FairViewSpec == ViewSpec /\ ViewFairness

-----------------------------------------------------------------------------
(* Properties                                                              *)

\* Every screen whose listener has raised an event shows exactly the cached
\* messages and the current user's own waiting ones, although its content was
\* put together from differences (ComputeDocumentChanges, HandleUserChange).
ShownIsScreen == \A s \in Screens : listener[s] = "raised" => shown[s] = Screen

\* The assertions of OnlineStateTracker: the timer only runs while the state
\* is unknown, and a client that is online has forgotten its failures.
OnlineStateConsistent ==
    /\ timer => online = "Unknown" /\ failures = 0 /\ watch = "started"
    /\ online = "Online" => failures = 0

\* The tracker's assertions hold, and the board and the view keep their types.
TrackerInStep == ViewTypeOK /\ OnlineStateConsistent

\* A listener only waits while there is nothing to show and it may still be
\* told that there is nothing: never while offline or in sync, so that no step
\* forgets to raise the first event.
WaitingIsJustified ==
    \A s \in Screens : listener[s] = "waiting" =>
        /\ viewState = "local" /\ Screen = {} /\ online # "Offline"
        /\ watch = "started" /\ (timer \/ online = "Online")

\* Every screen is told something: also with an unreachable server, an empty
\* cache and a network that comes and goes, a listener gets its first event or
\* an error.
WaitingScreenIsDrawn ==
    \A s \in Screens : listener[s] = "waiting" ~> listener[s] \in {"raised", "failed"}
=============================================================================
