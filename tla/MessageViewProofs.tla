-------------------------- MODULE MessageViewProofs --------------------------
(***************************************************************************)
(* Proofs about MessageView, for any accounts, screens, numbers of messages *)
(* and of failures: every screen shows what the cache and the outbox of    *)
(* the current user hold, a screen is only kept waiting while something is *)
(* still to come, and the network state keeps its assertions.              *)
(***************************************************************************)
EXTENDS MessageView, TLAPS

\* Only messages that were written wait in an outbox.
OutboxesAreKnown == outbox \in [Accounts -> Seq(1..posted)]

\* The view, put together from differences, is the content of the board.
ViewIsScreen == view = IF Listening THEN Screen ELSE {}

\* Without a view no screen has a listener that waits or has been served.
HeardWhileListening ==
    ~Listening => \A s \in Screens : listener[s] \in {"absent", "failed"}

\* A view has its target on the watch stream; a started stream is timed until
\* there is a verdict on the network; a failure is remembered while offline.
NetworkIsWatched ==
    /\ Listening => watch = "started"
    /\ watch = "started" => timer \/ online # "Unknown"
    /\ failures = 1 => online = "Offline"

BoardInv == BoardTypeOK /\ OutboxesAreKnown

\* What the listeners have been told.
ListenersInv ==
    /\ viewState \in {"none", "local", "synced"}
    /\ listener \in [Screens -> {"absent", "waiting", "raised", "failed"}]
    /\ shown \in [Screens -> SUBSET (1..posted)]
    /\ ViewIsScreen
    /\ HeardWhileListening
    /\ ShownIsScreen
    /\ \A s \in Screens : listener[s] = "waiting" =>
          viewState = "local" /\ Screen = {} /\ online # "Offline"

NetworkInv ==
    /\ online \in {"Unknown", "Online", "Offline"}
    /\ failures \in 0..1
    /\ timer \in BOOLEAN
    /\ watch \in {"stopped", "started"}
    /\ required \subseteq 1..posted
    /\ reachable \in BOOLEAN
    /\ mishaps \in Nat
    /\ OnlineStateConsistent
    /\ NetworkIsWatched

\* The inductive invariant.
ViewInv == BoardInv /\ ListenersInv /\ NetworkInv

-----------------------------------------------------------------------------
(* Sequences of messages                                                   *)

LEMMA TailFacts ==
    ASSUME NEW S, NEW q \in Seq(S), q # <<>>
    PROVE  /\ Head(q) \in S
           /\ Tail(q) \in Seq(S)
           /\ {q[i] : i \in 1..Len(q)} = {Head(q)} \cup {Tail(q)[i] : i \in 1..Len(Tail(q))}
PROOF
<1>1. /\ Len(q) \in Nat /\ Len(q) > 0 /\ Len(Tail(q)) = Len(q) - 1
      /\ Head(q) = q[1] /\ Tail(q) \in Seq(S) /\ Head(q) \in S
      /\ \A i \in 1..Len(Tail(q)) : Tail(q)[i] = q[i + 1]
  OBVIOUS
<1>2. ASSUME NEW i \in 1..Len(q), i # 1
      PROVE  q[i] \in {Tail(q)[k] : k \in 1..Len(Tail(q))}
  <2>1. i - 1 \in 1..Len(Tail(q)) /\ (i - 1) + 1 = i
    BY <1>1, <1>2
  <2>2. Tail(q)[i - 1] = q[i]
    BY <2>1, <1>1
  <2> QED
    BY <2>1, <2>2
<1>3. \A i \in 1..Len(Tail(q)) : i + 1 \in 1..Len(q)
  BY <1>1
<1> QED
  BY <1>1, <1>2, <1>3

LEMMA AppendFacts ==
    ASSUME NEW S, NEW q \in Seq(S), NEW e \in S
    PROVE  /\ Append(q, e) \in Seq(S)
           /\ {Append(q, e)[i] : i \in 1..Len(Append(q, e))} = {q[i] : i \in 1..Len(q)} \cup {e}
PROOF
<1>1. /\ Append(q, e) \in Seq(S) /\ Len(q) \in Nat /\ Len(Append(q, e)) = Len(q) + 1
      /\ Append(q, e)[Len(q) + 1] = e
      /\ \A i \in 1..Len(q) : Append(q, e)[i] = q[i]
  OBVIOUS
<1>2. \A i \in 1..(Len(q) + 1) : i \in 1..Len(q) \/ i = Len(q) + 1
  BY <1>1
<1>3. /\ Len(q) + 1 \in 1..(Len(q) + 1)
      /\ \A i \in 1..Len(q) : i \in 1..(Len(q) + 1)
  BY <1>1
<1> QED
  BY <1>1, <1>2, <1>3

LEMMA ElementFacts ==
    ASSUME NEW S, NEW q \in Seq(S)
    PROVE  \A i \in 1..Len(q) : q[i] \in S
  OBVIOUS

\* A message that was written stays written when more are.
LEMMA SeqOfMore ==
    ASSUME NEW S, NEW T, S \subseteq T, NEW q \in Seq(S)
    PROVE  q \in Seq(T)
  OBVIOUS

\* Everything that is shown has been written.
LEMMA ScreenIsWritten == BoardInv => Screen \subseteq 1..posted /\ \A u \in Accounts : Waiting(u) \subseteq 1..posted
PROOF
<1> SUFFICES ASSUME BoardInv
             PROVE  Screen \subseteq 1..posted /\ \A u \in Accounts : Waiting(u) \subseteq 1..posted
  OBVIOUS
<1>1. ASSUME NEW u \in Accounts
      PROVE  Waiting(u) \subseteq 1..posted
  <2>1. outbox[u] \in Seq(1..posted)
    BY DEF BoardInv, OutboxesAreKnown
  <2>2. \A i \in 1..Len(outbox[u]) : outbox[u][i] \in 1..posted
    BY <2>1, ElementFacts
  <2> QED
    BY <2>2 DEF Waiting
<1>2. user \in Accounts /\ seen \subseteq 1..posted
  BY DEF BoardInv, BoardTypeOK
<1> QED
  BY <1>1, <1>2 DEF Screen

-----------------------------------------------------------------------------
(* The steps of the board                                                  *)

\* The board and the outboxes keep their types in every step of the board.
LEMMA BoardStaysTyped == BoardInv /\ BoardNext => BoardInv' /\ posted <= posted'
PROOF
<1> SUFFICES ASSUME BoardInv, BoardNext
             PROVE  BoardInv' /\ posted <= posted'
  OBVIOUS
<1> USE DEF BoardInv, BoardTypeOK, OutboxesAreKnown
<1>0. /\ \A u \in Accounts : outbox[u] \in Seq(1..posted)
      /\ posted \in Nat /\ posted <= posted /\ user \in Accounts
  OBVIOUS
<1>n. ASSUME NEW p \in Nat, NEW q \in Seq(1..p)
      PROVE  q \in Seq(Nat)
  <2>1. 1..p \subseteq Nat
    OBVIOUS
  <2> QED
    BY <2>1, SeqOfMore
<1>1. CASE Post
  <2>1. /\ posted' = posted + 1 /\ posted' \in Nat /\ posted <= posted'
        /\ 1..posted \subseteq 1..posted' /\ posted' \in 1..posted'
        /\ UNCHANGED user /\ UNCHANGED board /\ UNCHANGED seen
    BY <1>0, <1>1 DEF Post
  <2>2. outbox' = [outbox EXCEPT ![user] = Append(outbox[user], posted')]
    BY <1>1 DEF Post
  <2>3. \A u \in Accounts : outbox[u] \in Seq(1..posted')
    BY <1>0, <2>1, SeqOfMore
  <2>4. Append(outbox[user], posted') \in Seq(1..posted')
    BY <1>0, <2>1, <2>3, AppendFacts
  <2>5. outbox' \in [Accounts -> Seq(1..posted')]
    BY <2>2, <2>3, <2>4
  <2>6. outbox' \in [Accounts -> Seq(Nat)]
    BY <2>1, <2>5, <1>n
  <2> QED
    BY <2>1, <2>5, <2>6
<1>2. CASE PostElsewhere
  <2>1. /\ posted' = posted + 1 /\ posted' \in Nat /\ posted <= posted'
        /\ 1..posted \subseteq 1..posted' /\ posted' \in 1..posted'
        /\ board' = board \cup {posted'}
        /\ UNCHANGED user /\ UNCHANGED outbox /\ UNCHANGED seen
    BY <1>0, <1>2 DEF PostElsewhere
  <2>2. outbox' \in [Accounts -> Seq(1..posted')]
    BY <1>0, <2>1, SeqOfMore
  <2> QED
    BY <2>1, <2>2
<1>3. ASSUME NEW m \in 1..posted, Deliver(m)
      PROVE  BoardInv' /\ posted <= posted'
  BY <1>0, <1>3 DEF Deliver
<1>4. ASSUME outbox[user] # <<>>, UNCHANGED user, UNCHANGED posted, UNCHANGED board,
             outbox' = [outbox EXCEPT ![user] = Tail(outbox[user])], seen' \subseteq board
      PROVE  BoardInv' /\ posted <= posted'
  <2>1. Tail(outbox[user]) \in Seq(1..posted)
    BY <1>0, <1>4, TailFacts
  <2>2. outbox' \in [Accounts -> Seq(1..posted)]
    BY <2>1, <1>4
  <2>3. outbox' \in [Accounts -> Seq(Nat)]
    BY <2>2, <1>n, <1>0
  <2> QED
    BY <2>2, <2>3, <1>4, <1>0
<1>5. CASE Confirm
  <2>1. seen' \subseteq board
    BY <1>5 DEF Confirm
  <2> QED
    BY <2>1, <1>4, <1>5 DEF Confirm
<1>6. CASE Drop
  <2>1. seen' \subseteq board
    BY <1>6 DEF Drop
  <2> QED
    BY <2>1, <1>4, <1>6 DEF Drop
<1>7. ASSUME NEW S \in SUBSET board, Learn(S)
      PROVE  BoardInv' /\ posted <= posted'
  BY <1>0, <1>7 DEF Learn
<1>8. ASSUME NEW u \in Accounts, SwitchUser(u)
      PROVE  BoardInv' /\ posted <= posted'
  BY <1>0, <1>8 DEF SwitchUser
<1> QED
  BY <1>1, <1>2, <1>3, <1>5, <1>6, <1>7, <1>8 DEF BoardNext

\* A step of the view is one of the board, or leaves the board alone.
LEMMA BoardOfAStep == ViewNext => BoardNext \/ UNCHANGED boardVars
PROOF
<1> SUFFICES ASSUME ViewNext
             PROVE  BoardNext \/ UNCHANGED boardVars
  OBVIOUS
<1>1. CASE WriteMutations \/ HandleSuccessfulWrite \/ HandleRejectedWrite
  BY <1>1 DEF WriteMutations, HandleSuccessfulWrite, HandleRejectedWrite, BoardNext
<1>2. ASSUME NEW u \in Accounts, HandleCredentialChange(u)
      PROVE  BoardNext
  BY <1>2 DEF HandleCredentialChange, BoardNext
<1>3. ASSUME NEW s \in Screens, AddQueryListener(s)
      PROVE  UNCHANGED boardVars
  BY <1>3 DEF AddQueryListener
<1>4. ASSUME NEW S \in SUBSET board, NEW current \in BOOLEAN, ApplyRemoteEvent(S, current)
      PROVE  BoardNext
  BY <1>4 DEF ApplyRemoteEvent, BoardNext
<1>5. CASE OnWatchStreamChange \/ OnWatchStreamClose \/ OnlineStateTimeout \/ HandleRejectedListen
           \/ ConnectivityChanges
  BY <1>5 DEF OnWatchStreamChange, OnWatchStreamClose, OnlineStateTimeout, HandleRejectedListen,
              ConnectivityChanges
<1>6. CASE ServerStep
  BY <1>6 DEF ServerStep, BoardNext
<1> QED
  BY <1>1, <1>2, <1>3, <1>4, <1>5, <1>6 DEF ViewNext

\* The board keeps its types in every step of the view.
LEMMA BoardStaysInStep == BoardInv /\ [ViewNext]_vars => BoardInv' /\ posted <= posted'
PROOF
<1>1. BoardInv /\ UNCHANGED boardVars => BoardInv' /\ posted <= posted'
  BY DEF BoardInv, BoardTypeOK, OutboxesAreKnown, boardVars
<1> QED
  BY <1>1, BoardOfAStep, BoardStaysTyped DEF vars

-----------------------------------------------------------------------------
(* The listeners                                                           *)

\* A snapshot of the whole screen leaves every listener told, or waiting for a
\* reason: no listener misses the content, nor its first event.
LEMMA ListenersAreTold ==
    ASSUME ListenersInv, Listening, 1..posted \subseteq 1..posted',
           NEW state \in {"local", "synced"}, NEW docs, docs = Screen', docs \subseteq 1..posted',
           NEW network, network # "Offline" => online' # "Offline",
           EmitSnapshot(state, docs, network)
    PROVE  ListenersInv' /\ Listening'
PROOF
<1>1. /\ viewState' = state /\ view' = docs
      /\ listener' = [s \in Screens |->
           IF listener[s] = "waiting" /\ ShouldRaiseInitialEvent(state, docs, network)
             THEN "raised" ELSE listener[s]]
      /\ shown' = [s \in Screens |->
           IF listener'[s] = "raised" /\ (listener[s] = "waiting" \/ docs # view)
             THEN docs ELSE shown[s]]
  BY DEF EmitSnapshot
<1>2. /\ view = Screen
      /\ \A s \in Screens : /\ listener[s] = "raised" => shown[s] = Screen
                            /\ listener[s] \in {"absent", "waiting", "raised", "failed"}
                            /\ shown[s] \subseteq 1..posted
  BY DEF ListenersInv, ViewIsScreen, ShownIsScreen
<1>3. Listening' /\ viewState' \in {"none", "local", "synced"}
  BY <1>1 DEF Listening
<1>4. listener' \in [Screens -> {"absent", "waiting", "raised", "failed"}]
  BY <1>1, <1>2
<1>5. shown' \in [Screens -> SUBSET (1..posted')]
  <2>1. \A s \in Screens : shown[s] \subseteq 1..posted'
    BY <1>2
  <2> QED
    BY <1>1, <2>1
<1>6. ViewIsScreen' /\ HeardWhileListening'
  BY <1>1, <1>3 DEF ViewIsScreen, HeardWhileListening
<1>7. ShownIsScreen'
  <2> SUFFICES ASSUME NEW s \in Screens, listener'[s] = "raised"
               PROVE  shown'[s] = Screen'
    BY DEF ShownIsScreen
  <2>1. CASE listener[s] = "waiting" \/ docs # view
    BY <2>1, <1>1
  <2>2. CASE listener[s] # "waiting" /\ docs = view
    <3>1. listener[s] = "raised"
      BY <1>1, <2>2
    <3> QED
      BY <3>1, <1>1, <1>2, <2>2
  <2> QED
    BY <2>1, <2>2
<1>8. ASSUME NEW s \in Screens, listener'[s] = "waiting"
      PROVE  viewState' = "local" /\ Screen' = {} /\ online' # "Offline"
  <2>1. listener[s] = "waiting" /\ ~ShouldRaiseInitialEvent(state, docs, network)
    BY <1>1, <1>8
  <2> QED
    BY <2>1, <1>1 DEF ShouldRaiseInitialEvent
<1> QED
  BY <1>3, <1>4, <1>5, <1>6, <1>7, <1>8 DEF ListenersInv

\* A step that neither changes what there is to show nor goes offline leaves the
\* listeners as they are.
LEMMA ListenersAreLeft ==
    ASSUME ListenersInv, UNCHANGED viewVars, UNCHANGED Screen, 1..posted \subseteq 1..posted',
           online' = "Offline" => online = "Offline"
    PROVE  ListenersInv' /\ (Listening' <=> Listening)
PROOF
<1>1. /\ UNCHANGED viewState /\ UNCHANGED view /\ UNCHANGED listener /\ UNCHANGED shown
  BY DEF viewVars
<1>2. \A s \in Screens : shown[s] \subseteq 1..posted'
  BY DEF ListenersInv
<1> QED
  BY <1>1, <1>2 DEF ListenersInv, Listening, ViewIsScreen, HeardWhileListening, ShownIsScreen

\* Whatever changes on the screen is among the changed documents.
Covers(keys) == \A m : m \notin keys => (m \in Screen <=> m \in Screen')

\* The listeners after documents have changed while the network did not go
\* offline: whether there is a view or not.
LEMMA ChangedDocumentsAreTold ==
    ASSUME ListenersInv, Screen' \subseteq 1..posted', 1..posted \subseteq 1..posted',
           NEW keys, Covers(keys), DocumentsChanged(keys), online' = "Offline" => online = "Offline"
    PROVE  ListenersInv' /\ (Listening' <=> Listening)
PROOF
<1>1. CASE Listening
  <2>1. EmitSnapshot(viewState, ComputeDocumentChanges(keys), online)
    BY <1>1 DEF DocumentsChanged
  <2>2. ComputeDocumentChanges(keys) = Screen'
    <3>1. view = Screen
      BY <1>1 DEF ListenersInv, ViewIsScreen
    <3> QED
      BY <3>1, Zenon DEF ComputeDocumentChanges, Covers
  <2>3. viewState \in {"local", "synced"}
    BY <1>1 DEF ListenersInv, Listening
  <2>4. ASSUME NEW docs, docs = Screen', EmitSnapshot(viewState, docs, online)
        PROVE  ListenersInv' /\ Listening'
    <3>1. docs \subseteq 1..posted' /\ (online # "Offline" => online' # "Offline")
      BY <2>4
    <3> QED
      BY <2>3, <2>4, <3>1, <1>1, ListenersAreTold
  <2> QED
    BY <2>1, <2>2, <2>4, <1>1
<1>2. CASE ~Listening
  <2>1. UNCHANGED viewVars
    BY <1>2 DEF DocumentsChanged
  <2>2. /\ UNCHANGED viewState /\ UNCHANGED view /\ UNCHANGED listener /\ UNCHANGED shown
    BY <2>1 DEF viewVars
  <2>3. /\ \A s \in Screens : shown[s] \subseteq 1..posted'
        /\ \A s \in Screens : listener[s] \in {"absent", "failed"}
    BY <1>2 DEF ListenersInv, HeardWhileListening
  <2> QED
    BY <1>2, <2>2, <2>3 DEF ListenersInv, Listening, ViewIsScreen, HeardWhileListening, ShownIsScreen
<1> QED
  BY <1>1, <1>2

-----------------------------------------------------------------------------
(* The network                                                             *)

LEMMA NetworkIsLeft ==
    ASSUME NetworkInv, UNCHANGED networkVars, 1..posted \subseteq 1..posted', Listening' <=> Listening
    PROVE  NetworkInv'
  BY DEF NetworkInv, networkVars, OnlineStateConsistent, NetworkIsWatched

\* A restarted stream is timed, if there is a view.
LEMMA RestartIsTimed ==
    ASSUME NetworkInv, BoardInv, RestartWatchStream, 1..posted \subseteq 1..posted',
           Listening' <=> Listening, reachable' \in BOOLEAN, mishaps' \in Nat
    PROVE  NetworkInv'
PROOF
<1>1. Listening \in BOOLEAN
  BY DEF Listening
<1>2. board \subseteq 1..posted
  BY DEF BoardInv, BoardTypeOK
<1>3. /\ online' = "Unknown" /\ failures' = 0 /\ timer' = Listening
      /\ watch' = IF Listening THEN "started" ELSE "stopped"
      /\ required' = board
  BY DEF RestartWatchStream
<1>4. /\ online' \in {"Unknown", "Online", "Offline"} /\ failures' \in 0..1 /\ timer' \in BOOLEAN
      /\ watch' \in {"stopped", "started"} /\ required' \subseteq 1..posted'
  BY <1>1, <1>2, <1>3
<1>5. OnlineStateConsistent' /\ NetworkIsWatched'
  BY <1>1, <1>3 DEF OnlineStateConsistent, NetworkIsWatched
<1> QED
  BY <1>4, <1>5 DEF NetworkInv

\* A message of the server ends the waiting.
LEMMA VerdictIsKept ==
    ASSUME NetworkInv, Listening, UpdateState("Online"), 1..posted \subseteq 1..posted',
           UNCHANGED watch, UNCHANGED required, UNCHANGED reachable, UNCHANGED mishaps
    PROVE  NetworkInv'
PROOF
<1>1. /\ online' = "Online" /\ failures' = 0 /\ timer' = FALSE
      /\ watch = "started" /\ watch' = "started"
  BY DEF UpdateState, NetworkInv, NetworkIsWatched
<1>2. OnlineStateConsistent' /\ NetworkIsWatched'
  BY <1>1 DEF OnlineStateConsistent, NetworkIsWatched
<1>3. online' \in {"Unknown", "Online", "Offline"} /\ failures' \in 0..1 /\ watch' \in {"stopped", "started"}
  <2>1. failures' \in 0..1
    BY <1>1
  <2> QED
    BY <1>1, <2>1
<1>4. timer' \in BOOLEAN
  BY <1>1, Zenon
<1>5. required' \subseteq 1..posted' /\ reachable' \in BOOLEAN /\ mishaps' \in Nat
  BY DEF NetworkInv
<1> QED
  BY <1>2, <1>3, <1>4, <1>5 DEF NetworkInv

-----------------------------------------------------------------------------
(* The steps                                                               *)

\* The number of messages only grows.
LEMMA WrittenStaysWritten == BoardInv /\ BoardInv' /\ posted <= posted' => 1..posted \subseteq 1..posted'
PROOF
<1>1. BoardInv => posted \in Nat
  BY DEF BoardInv, BoardTypeOK
<1>2. BoardInv' => posted' \in Nat
  BY DEF BoardInv, BoardTypeOK
<1> QED
  BY <1>1, <1>2

LEMMA ScreenStaysWritten == BoardInv' => Screen' \subseteq 1..posted'
PROOF
<1>1. BoardInv => Screen \subseteq 1..posted
  BY ScreenIsWritten
<1>2. BoardInv' => (Screen \subseteq 1..posted)'
  BY <1>1, PTL
<1> QED
  BY <1>2

\* A message that was just written is on the screen.
LEMMA PostCovers == BoardInv /\ Post => Covers({posted'})
PROOF
<1> SUFFICES ASSUME BoardInv, Post
             PROVE  Covers({posted'})
  OBVIOUS
<1>1. /\ user \in Accounts /\ UNCHANGED user /\ UNCHANGED seen
      /\ outbox' = [outbox EXCEPT ![user] = Append(outbox[user], posted')]
      /\ outbox \in [Accounts -> Seq(Nat)] /\ posted' \in Nat
  BY DEF Post, BoardInv, BoardTypeOK
<1>2. outbox'[user] = Append(outbox[user], posted') /\ outbox[user] \in Seq(Nat)
  BY <1>1
<1>3. Waiting(user)' = Waiting(user) \cup {posted'}
  BY <1>1, <1>2, AppendFacts DEF Waiting
<1>4. Screen' = Screen \cup {posted'}
  BY <1>1, <1>3 DEF Screen
<1> QED
  BY <1>4 DEF Covers

\* A message that leaves the outbox is the only one that may leave the screen,
\* which it does not if the cache has it.
LEMMA SettleCovers ==
    ASSUME BoardInv, outbox[user] # <<>>, UNCHANGED user,
           outbox' = [outbox EXCEPT ![user] = Tail(@)],
           seen' = seen \/ seen' = seen \cup {Head(outbox[user])}
    PROVE  Covers({Head(outbox[user])})
PROOF
<1>1. /\ user \in Accounts /\ outbox \in [Accounts -> Seq(Nat)]
  BY DEF BoardInv, BoardTypeOK
<1>2. outbox'[user] = Tail(outbox[user]) /\ outbox[user] \in Seq(Nat)
  BY <1>1
<1>3. Waiting(user) = {Head(outbox[user])} \cup Waiting(user)'
  <2> DEFINE q == outbox[user]
  <2>1. q \in Seq(Nat) /\ q # <<>>
    BY <1>2
  <2>2. Waiting(user) = {q[i] : i \in 1..Len(q)}
    BY DEF Waiting
  <2>3. Waiting(user)' = {Tail(q)[i] : i \in 1..Len(Tail(q))}
    BY <1>2 DEF Waiting
  <2> HIDE DEF q
  <2>4. {q[i] : i \in 1..Len(q)} = {Head(q)} \cup {Tail(q)[i] : i \in 1..Len(Tail(q))}
    BY <2>1, TailFacts
  <2>5. Waiting(user) = {Head(q)} \cup Waiting(user)'
    BY <2>2, <2>3, <2>4
  <2> QED
    BY <2>5 DEF q
<1> QED
  BY <1>3, Zenon DEF Screen, Covers

\* The documents of both queues are all that a change of the user can affect.
LEMMA SwitchCovers ==
    ASSUME NEW u \in Accounts, SwitchUser(u)
    PROVE  Covers(AffectedByUserChange(u))
PROOF
<1>1. user' = u /\ UNCHANGED seen /\ UNCHANGED outbox
  BY DEF SwitchUser
<1>2. Screen' = seen \cup Waiting(u)
  BY <1>1 DEF Screen, Waiting
<1> QED
  BY <1>2, Zenon DEF Screen, Covers, AffectedByUserChange

\* A step that writes, settles or drops one message.
LEMMA OneDocumentChanges ==
    ASSUME ViewInv, BoardInv', 1..posted \subseteq 1..posted',
           NEW keys, Covers(keys), DocumentsChanged(keys), UNCHANGED networkVars
    PROVE  ListenersInv' /\ NetworkInv'
PROOF
<1>1. Screen' \subseteq 1..posted'
  BY ScreenStaysWritten
<1>2. UNCHANGED online
  BY DEF networkVars
<1>3. ListenersInv' /\ (Listening' <=> Listening)
  BY <1>1, <1>2, ChangedDocumentsAreTold DEF ViewInv
<1> QED
  BY <1>3, NetworkIsLeft DEF ViewInv

LEMMA WritesKeepView ==
    ASSUME ViewInv, BoardInv', 1..posted \subseteq 1..posted',
           WriteMutations \/ HandleSuccessfulWrite \/ HandleRejectedWrite
    PROVE  ListenersInv' /\ NetworkInv'
PROOF
<1>0. BoardInv
  BY DEF ViewInv
<1>1. CASE WriteMutations
  <2>1. Covers({posted'}) /\ DocumentsChanged({posted'}) /\ UNCHANGED networkVars
    BY <1>0, <1>1, PostCovers DEF WriteMutations
  <2>2. PICK k : k = {posted'}
    OBVIOUS
  <2>3. Covers(k) /\ DocumentsChanged(k)
    BY <2>1, <2>2
  <2> QED
    BY <2>1, <2>3, OneDocumentChanges
<1>2. CASE HandleSuccessfulWrite
  <2>1. Covers({Head(outbox[user])})
    BY <1>0, <1>2, SettleCovers DEF HandleSuccessfulWrite, Confirm
  <2> QED
    BY <2>1, <1>2, OneDocumentChanges DEF HandleSuccessfulWrite
<1>3. CASE HandleRejectedWrite
  <2>1. Covers({Head(outbox[user])})
    BY <1>0, <1>3, SettleCovers DEF HandleRejectedWrite, Drop
  <2> QED
    BY <2>1, <1>3, OneDocumentChanges DEF HandleRejectedWrite
<1> QED
  BY <1>1, <1>2, <1>3

LEMMA UserChangeKeepsView ==
    ASSUME ViewInv, BoardInv', 1..posted \subseteq 1..posted',
           NEW u \in Accounts, HandleCredentialChange(u)
    PROVE  ListenersInv' /\ NetworkInv'
PROOF
<1>1. /\ SwitchUser(u) /\ RestartWatchStream /\ online' = "Unknown"
      /\ UNCHANGED reachable /\ mishaps' = mishaps + 1
      /\ BoardInv /\ ListenersInv /\ NetworkInv
      /\ Screen' \subseteq 1..posted'
  BY ScreenStaysWritten DEF HandleCredentialChange, RestartWatchStream, ViewInv
<1>2. reachable' \in BOOLEAN /\ mishaps' \in Nat
  BY <1>1 DEF NetworkInv
<1>3. ListenersInv' /\ (Listening' <=> Listening)
  <2>1. CASE u = user
    <3>1. UNCHANGED Screen
      BY <2>1, <1>1 DEF SwitchUser, Screen, Waiting
    <3>2. UNCHANGED viewVars
      BY <2>1 DEF HandleCredentialChange
    <3> QED
      BY <3>1, <3>2, <1>1, ListenersAreLeft
  <2>2. CASE u # user
    <3>1. DocumentsChanged(AffectedByUserChange(u))
      BY <2>2 DEF HandleCredentialChange
    <3>2. Covers(AffectedByUserChange(u))
      BY <1>1, SwitchCovers
    <3>3. online' = "Offline" => online = "Offline"
      BY <1>1
    <3> QED
      BY <3>1, <3>2, <3>3, <1>1, ChangedDocumentsAreTold
  <2> QED
    BY <2>1, <2>2
<1> QED
  BY <1>1, <1>2, <1>3, RestartIsTimed

\* A new listener is shown the view, which the first one makes from the screen;
\* if it has to wait, the stream it waits for is timed.
LEMMA ListenerIsAdded ==
    ASSUME ViewInv, NEW s \in Screens, AddQueryListener(s)
    PROVE  ListenersInv' /\ NetworkInv'
PROOF
<1> DEFINE docs   == IF Listening THEN view ELSE Screen
           state  == IF Listening THEN viewState ELSE "local"
           raised == ShouldRaiseInitialEvent(state, docs, online)
<1>1. /\ listener[s] = "absent"
      /\ view' = docs /\ viewState' = state
      /\ listener' = [listener EXCEPT ![s] = IF raised THEN "raised" ELSE "waiting"]
      /\ shown' = IF raised THEN [shown EXCEPT ![s] = docs] ELSE shown
      /\ UNCHANGED user /\ UNCHANGED seen /\ UNCHANGED outbox /\ UNCHANGED posted /\ UNCHANGED board
      /\ UNCHANGED failures /\ UNCHANGED reachable /\ UNCHANGED mishaps
      /\ required' = IF Listening THEN required ELSE board
      /\ watch' = "started"
      /\ IF watch = "stopped" /\ failures = 0
           THEN online' = "Unknown" /\ timer' = TRUE
           ELSE UNCHANGED <<online, timer>>
  BY DEF AddQueryListener, boardVars
<1>2. /\ BoardInv /\ ListenersInv /\ NetworkInv
      /\ UNCHANGED Screen
  BY <1>1 DEF ViewInv, Screen, Waiting
<1>3. /\ docs = Screen /\ state \in {"local", "synced"} /\ Screen \subseteq 1..posted
  BY <1>2, ScreenIsWritten DEF ListenersInv, ViewIsScreen, Listening
<1>4. raised <=> state = "synced" \/ Screen # {} \/ online = "Offline"
  BY <1>3 DEF ShouldRaiseInitialEvent
<1>5. Listening => state = viewState
  OBVIOUS
<1>6. ~Listening => state = "local" /\ \A t \in Screens : listener[t] \in {"absent", "failed"}
  BY <1>2 DEF ListenersInv, HeardWhileListening
<1>7. viewState' # "none" /\ Listening'
  BY <1>1, <1>3 DEF Listening
<1> HIDE DEF docs, state, raised
<1>8. online' = "Offline" => online = "Offline"
  BY <1>1
<1>9. ListenersInv'
  <2>1. /\ \A t \in Screens : listener[t] \in {"absent", "waiting", "raised", "failed"}
        /\ \A t \in Screens : shown[t] \subseteq 1..posted
        /\ listener \in [Screens -> {"absent", "waiting", "raised", "failed"}]
        /\ shown \in [Screens -> SUBSET (1..posted)]
        /\ \A t \in Screens : listener[t] = "raised" => shown[t] = Screen
        /\ \A t \in Screens : listener[t] = "waiting" =>
              viewState = "local" /\ Screen = {} /\ online # "Offline"
    BY <1>2 DEF ListenersInv, ShownIsScreen
  <2>2. listener' \in [Screens -> {"absent", "waiting", "raised", "failed"}]
    BY <1>1, <2>1
  <2>3. shown' \in [Screens -> SUBSET (1..posted')]
    <3>1. docs \in SUBSET (1..posted) /\ posted' = posted
      BY <1>1, <1>3
    <3> QED
      BY <3>1, <1>1, <2>1
  <2>4. \A t \in Screens : t # s => listener'[t] = listener[t] /\ shown'[t] = shown[t]
    BY <1>1, <2>1
  <2>5. /\ listener'[s] = IF raised THEN "raised" ELSE "waiting"
        /\ raised => shown'[s] = docs
    BY <1>1, <2>1
  <2>6. ASSUME NEW t \in Screens
        PROVE  /\ listener'[t] = "raised" => shown'[t] = Screen
               /\ listener'[t] = "waiting" =>
                     viewState' = "local" /\ Screen = {} /\ online' # "Offline"
    <3>1. CASE t = s
      <4>1. listener'[t] = "raised" => raised
        BY <2>5, <3>1
      <4>2. listener'[t] = "waiting" => ~raised
        BY <2>5, <3>1
      <4>3. raised => shown'[t] = Screen
        BY <2>5, <3>1, <1>3
      <4>4. ~raised => state = "local" /\ Screen = {} /\ online # "Offline"
        BY <1>3, <1>4
      <4> QED
        BY <4>1, <4>2, <4>3, <4>4, <1>1, <1>8
    <3>2. CASE t # s
      <4>1. listener'[t] = listener[t] /\ shown'[t] = shown[t]
        BY <2>4, <3>2
      <4>2. listener[t] = "waiting" => Listening
        BY <1>6
      <4>3. Listening => viewState' = viewState
        BY <1>1, <1>5
      <4> QED
        BY <4>1, <4>2, <4>3, <2>1, <1>8
    <3> QED
      BY <3>1, <3>2
  <2>7. ViewIsScreen' /\ HeardWhileListening'
    BY <1>1, <1>2, <1>3, <1>7 DEF ViewIsScreen, HeardWhileListening
  <2>8. ShownIsScreen'
    BY <2>6, <1>2 DEF ShownIsScreen
  <2>9. \A t \in Screens : listener'[t] = "waiting" =>
           viewState' = "local" /\ Screen' = {} /\ online' # "Offline"
    BY <2>6, <1>2
  <2>10. viewState' \in {"none", "local", "synced"}
    BY <1>1, <1>3
  <2> QED
    BY <2>2, <2>3, <2>7, <2>8, <2>9, <2>10 DEF ListenersInv
<1>10. NetworkInv'
  <2>1. required' \subseteq 1..posted'
    BY <1>1, <1>2 DEF NetworkInv, BoardInv, BoardTypeOK
  <2>2. OnlineStateConsistent' /\ NetworkIsWatched'
    BY <1>1, <1>2 DEF NetworkInv, OnlineStateConsistent, NetworkIsWatched
  <2> QED
    BY <1>1, <1>2, <2>1, <2>2 DEF NetworkInv
<1> QED
  BY <1>9, <1>10

\* What the server tells brings the client online; a snapshot's documents are
\* all that changes on the screen.
LEMMA WatchKeepsView ==
    ASSUME ViewInv, BoardInv', 1..posted \subseteq 1..posted',
           OnWatchStreamChange \/ \E S \in SUBSET board, current \in BOOLEAN : ApplyRemoteEvent(S, current)
    PROVE  ListenersInv' /\ NetworkInv'
PROOF
<1>0. BoardInv /\ ListenersInv /\ NetworkInv
  BY DEF ViewInv
<1>1. ASSUME UpdateState("Online"), UNCHANGED watch, UNCHANGED required, UNCHANGED reachable,
             UNCHANGED mishaps, Listening
      PROVE  NetworkInv'
  BY <1>0, <1>1, VerdictIsKept
<1>2. CASE OnWatchStreamChange
  <2>1. /\ UNCHANGED viewVars /\ online' = "Online" /\ Listening
        /\ UNCHANGED user /\ UNCHANGED seen /\ UNCHANGED outbox
    BY <1>2 DEF OnWatchStreamChange, UpdateState, boardVars
  <2>2. UNCHANGED Screen
    BY <2>1 DEF Screen, Waiting
  <2>3. ListenersInv'
    BY <1>0, <2>1, <2>2, ListenersAreLeft
  <2>4. NetworkInv'
    BY <1>1, <1>2, <2>1 DEF OnWatchStreamChange
  <2> QED
    BY <2>3, <2>4
<1>3. ASSUME NEW S \in SUBSET board, NEW current \in BOOLEAN, ApplyRemoteEvent(S, current)
      PROVE  ListenersInv' /\ NetworkInv'
  <2> DEFINE state == IF current THEN "synced" ELSE "local"
  <2>1. /\ Listening /\ online' = "Online" /\ seen' = seen \cup S
        /\ UNCHANGED user /\ UNCHANGED outbox
        /\ EmitSnapshot(state, ComputeDocumentChanges(S), "Online")
    BY <1>3 DEF ApplyRemoteEvent, Learn, UpdateState
  <2>2. Screen' = Screen \cup S
    BY <2>1 DEF Screen, Waiting
  <2>3. view = Screen
    BY <1>0, <2>1 DEF ListenersInv, ViewIsScreen
  <2>4. ComputeDocumentChanges(S) = Screen'
    BY <2>2, <2>3 DEF ComputeDocumentChanges
  <2>5. state \in {"local", "synced"}
    OBVIOUS
  <2>6. Screen' \subseteq 1..posted'
    BY ScreenStaysWritten
  <2> HIDE DEF state
  <2>7. ASSUME NEW docs, docs = Screen', EmitSnapshot(state, docs, "Online")
        PROVE  ListenersInv' /\ Listening'
    <3>1. docs \subseteq 1..posted' /\ ("Online" # "Offline" => online' # "Offline")
      BY <2>1, <2>6, <2>7
    <3> QED
      BY <1>0, <2>1, <2>5, <2>7, <3>1, ListenersAreTold
  <2>8. ListenersInv'
    BY <2>1, <2>4, <2>7
  <2>9. NetworkInv'
    BY <1>1, <1>3, <2>1 DEF ApplyRemoteEvent
  <2> QED
    BY <2>8, <2>9
<1> QED
  BY <1>2, <1>3

\* An emission for a network verdict alone: the content stays.
LEMMA VerdictIsTold ==
    ASSUME ViewInv, Listening, UNCHANGED boardVars, NEW state \in {"local", "synced"},
           EmitSnapshot(state, view, online')
    PROVE  ListenersInv' /\ Listening'
PROOF
<1>1. BoardInv /\ ListenersInv
  BY DEF ViewInv
<1>2. UNCHANGED Screen /\ UNCHANGED posted
  BY DEF Screen, Waiting, boardVars
<1>3. view = Screen' /\ view \subseteq 1..posted' /\ 1..posted \subseteq 1..posted'
  BY <1>1, <1>2, ScreenIsWritten DEF ListenersInv, ViewIsScreen
<1>4. PICK network : network = online'
  OBVIOUS
<1>5. EmitSnapshot(state, view, network) /\ (network # "Offline" => online' # "Offline")
  BY <1>4
<1> QED
  BY <1>1, <1>3, <1>5, ListenersAreTold

LEMMA StateWhenFacts ==
    ASSUME ListenersInv, Listening, NEW n
    PROVE  StateWhen(n) \in {"local", "synced"}
  BY DEF ListenersInv, Listening, StateWhen

\* A broken stream either is timed from then on or takes the client offline,
\* which tells everyone who waits.
LEMMA CloseKeepsView ==
    ASSUME ViewInv, OnWatchStreamClose
    PROVE  ListenersInv' /\ NetworkInv'
PROOF
<1>0. /\ BoardInv /\ ListenersInv /\ NetworkInv
      /\ UNCHANGED boardVars /\ UNCHANGED reachable /\ watch = "started"
      /\ mishaps' \in Nat
  BY DEF ViewInv, OnWatchStreamClose, NetworkInv
<1>1. UNCHANGED Screen /\ UNCHANGED posted /\ board \subseteq 1..posted /\ 1..posted \subseteq 1..posted'
  BY <1>0 DEF Screen, Waiting, boardVars, BoardInv, BoardTypeOK
<1>2. CASE ~Listening
  <2>1. /\ online' = "Unknown" /\ failures' = 0 /\ timer' = FALSE /\ watch' = "stopped"
        /\ UNCHANGED viewVars /\ UNCHANGED required
    BY <1>2 DEF OnWatchStreamClose, UpdateState
  <2>2. ListenersInv' /\ (Listening' <=> Listening)
    BY <1>0, <1>1, <2>1, ListenersAreLeft
  <2>3. OnlineStateConsistent' /\ NetworkIsWatched'
    BY <1>2, <2>1, <2>2 DEF OnlineStateConsistent, NetworkIsWatched
  <2>4. failures' \in 0..1
    BY <2>1
  <2>5. timer' \in BOOLEAN /\ reachable' \in BOOLEAN
    BY <1>0, <2>1, Zenon DEF NetworkInv
  <2>6. /\ online' \in {"Unknown", "Online", "Offline"}
        /\ watch' \in {"stopped", "started"} /\ required' \subseteq 1..posted'
    BY <1>0, <1>1, <2>1 DEF NetworkInv
  <2>7. NetworkInv'
    BY <1>0, <2>3, <2>4, <2>5, <2>6 DEF NetworkInv
  <2> QED
    BY <2>2, <2>7
<1>3. CASE Listening
  <2>1. /\ IF online = "Online"
             THEN online' = "Unknown" /\ timer' = TRUE /\ UNCHANGED failures
             ELSE online' = "Offline" /\ timer' = FALSE /\ failures' = 1
        /\ EmitSnapshot(StateWhen(online'), view, online')
        /\ required' = board
        /\ UNCHANGED watch
    BY <1>3 DEF OnWatchStreamClose
  <2>2. PICK state : state = StateWhen(online')
    OBVIOUS
  <2>3. state \in {"local", "synced"}
    BY <2>2, <1>0, <1>3 DEF StateWhen, ListenersInv, Listening
  <2>4. EmitSnapshot(state, view, online')
    BY <2>1, <2>2
  <2>5. ListenersInv' /\ Listening'
    BY <1>0, <1>3, <2>3, <2>4, VerdictIsTold
  <2>6. OnlineStateConsistent' /\ NetworkIsWatched'
    BY <1>0, <1>3, <2>1, <2>5 DEF NetworkInv, OnlineStateConsistent, NetworkIsWatched
  <2>7. online' \in {"Unknown", "Online", "Offline"} /\ failures' \in 0..1 /\ timer' \in BOOLEAN
    <3>1. failures \in 0..1
      BY <1>0 DEF NetworkInv
    <3>2. online' \in {"Unknown", "Online", "Offline"} /\ failures' \in 0..1
      BY <2>1, <3>1
    <3>3. timer' \in BOOLEAN
      BY <2>1, Zenon
    <3> QED
      BY <3>2, <3>3
  <2>8. watch' \in {"stopped", "started"} /\ required' \subseteq 1..posted' /\ reachable' \in BOOLEAN
    BY <1>0, <1>1, <2>1 DEF NetworkInv
  <2> QED
    BY <1>0, <2>5, <2>6, <2>7, <2>8 DEF NetworkInv
<1> QED
  BY <1>2, <1>3

\* When the time is up the client counts as offline.
LEMMA TimeoutKeepsView ==
    ASSUME ViewInv, OnlineStateTimeout
    PROVE  ListenersInv' /\ NetworkInv'
PROOF
<1>0. /\ BoardInv /\ ListenersInv /\ NetworkInv
      /\ UNCHANGED boardVars /\ UNCHANGED failures /\ UNCHANGED watch /\ UNCHANGED required
      /\ UNCHANGED reachable /\ UNCHANGED mishaps
      /\ timer /\ timer' = FALSE /\ online' = "Offline"
  BY DEF ViewInv, OnlineStateTimeout
<1>1. UNCHANGED Screen /\ UNCHANGED posted /\ 1..posted \subseteq 1..posted'
  BY <1>0 DEF Screen, Waiting, boardVars
<1>2. ListenersInv' /\ (Listening' <=> Listening)
  <2>1. CASE ~Listening
    <3>1. UNCHANGED viewVars
      BY <2>1 DEF OnlineStateTimeout
    <3>2. \A s \in Screens : listener[s] \in {"absent", "failed"} /\ shown[s] \subseteq 1..posted'
      BY <1>0, <1>1, <2>1 DEF ListenersInv, HeardWhileListening
    <3> QED
      BY <1>0, <1>1, <2>1, <3>1, <3>2
      DEF ListenersInv, Listening, ViewIsScreen, HeardWhileListening, ShownIsScreen, viewVars
  <2>2. CASE Listening
    <3>1. EmitSnapshot(StateWhen("Offline"), view, "Offline")
      BY <2>2 DEF OnlineStateTimeout
    <3>2. PICK state \in {"local", "synced"} : state = StateWhen("Offline")
      BY <1>0, <2>2, StateWhenFacts
    <3>3. EmitSnapshot(state, view, online')
      BY <1>0, <3>1, <3>2
    <3> QED
      BY <1>0, <2>2, <3>3, VerdictIsTold
  <2> QED
    BY <2>1, <2>2
<1>3. NetworkInv'
  BY <1>0, <1>1, <1>2 DEF NetworkInv, OnlineStateConsistent, NetworkIsWatched
<1> QED
  BY <1>2, <1>3

\* A refused target takes the view, and all its listeners, away.
LEMMA RejectionKeepsView ==
    ASSUME ViewInv, HandleRejectedListen
    PROVE  ListenersInv' /\ NetworkInv'
PROOF
<1>0. /\ BoardInv /\ ListenersInv /\ NetworkInv
      /\ UNCHANGED boardVars /\ UNCHANGED shown /\ UNCHANGED watch /\ UNCHANGED required
      /\ UNCHANGED reachable /\ UNCHANGED mishaps
      /\ UpdateState("Online") /\ viewState' = "none" /\ view' = {}
      /\ listener' = [s \in Screens |-> IF listener[s] = "absent" THEN "absent" ELSE "failed"]
  BY DEF ViewInv, HandleRejectedListen
<1>1. UNCHANGED posted
  BY <1>0 DEF boardVars
<1>2. ~Listening'
  BY <1>0 DEF Listening
<1>3. \A s \in Screens : listener'[s] \in {"absent", "failed"}
  BY <1>0
<1>4. /\ listener' \in [Screens -> {"absent", "waiting", "raised", "failed"}]
      /\ shown' \in [Screens -> SUBSET (1..posted')]
  BY <1>0, <1>1 DEF ListenersInv
<1>5. ListenersInv'
  BY <1>0, <1>2, <1>3, <1>4 DEF ListenersInv, ViewIsScreen, HeardWhileListening, ShownIsScreen
<1>6. NetworkInv'
  <2>1. Listening
    BY DEF HandleRejectedListen
  <2> QED
    BY <1>0, <1>1, <2>1, VerdictIsKept
<1> QED
  BY <1>5, <1>6

\* What happens elsewhere is not seen; a network that comes back restarts all.
LEMMA OutsideKeepsView ==
    ASSUME ViewInv, BoardInv', 1..posted \subseteq 1..posted', ConnectivityChanges \/ ServerStep
    PROVE  ListenersInv' /\ NetworkInv'
PROOF
<1>0. BoardInv /\ ListenersInv /\ NetworkInv
  BY DEF ViewInv
<1>1. /\ UNCHANGED user /\ UNCHANGED seen /\ UNCHANGED outbox /\ UNCHANGED viewVars
      /\ online' = "Offline" => online = "Offline"
  BY DEF ConnectivityChanges, RestartWatchStream, ServerStep, PostElsewhere, Deliver, boardVars,
         networkVars
<1>2. UNCHANGED Screen
  BY <1>1 DEF Screen, Waiting
<1>3. ListenersInv' /\ (Listening' <=> Listening)
  BY <1>0, <1>1, <1>2, ListenersAreLeft
<1>4. CASE ConnectivityChanges
  <2>1. reachable' \in BOOLEAN /\ mishaps' \in Nat
    BY <1>0, <1>4 DEF ConnectivityChanges, NetworkInv
  <2>2. CASE reachable'
    BY <2>1, <2>2, <1>0, <1>3, <1>4, RestartIsTimed DEF ConnectivityChanges
  <2>3. CASE ~reachable'
    BY <2>1, <2>3, <1>0, <1>3, <1>4
    DEF ConnectivityChanges, NetworkInv, OnlineStateConsistent, NetworkIsWatched
  <2> QED
    BY <2>2, <2>3, <1>3
<1>5. CASE ServerStep
  BY <1>0, <1>3, <1>5, NetworkIsLeft DEF ServerStep
<1> QED
  BY <1>4, <1>5

-----------------------------------------------------------------------------
(* The invariant                                                           *)

LEMMA ViewStarts == ViewInit => ViewInv
PROOF
<1> SUFFICES ASSUME ViewInit
             PROVE  ViewInv
  OBVIOUS
<1> USE DEF ViewInit, BoardInit
<1>1. \A S : <<>> \in Seq(S)
  OBVIOUS
<1>2. outbox \in [Accounts -> Seq(Nat)] /\ outbox \in [Accounts -> Seq(1..posted)]
  BY <1>1
<1>3. BoardInv
  BY <1>2 DEF BoardInv, BoardTypeOK, OutboxesAreKnown
<1>4. ListenersInv
  BY DEF ListenersInv, ViewIsScreen, HeardWhileListening, ShownIsScreen, Listening
<1>5. OnlineStateConsistent /\ NetworkIsWatched
  BY DEF OnlineStateConsistent, NetworkIsWatched, Listening
<1>6. failures \in 0..1 /\ mishaps \in Nat
  OBVIOUS
<1>7. timer \in BOOLEAN /\ reachable \in BOOLEAN
  BY Zenon
<1>8. online \in {"Unknown", "Online", "Offline"} /\ watch \in {"stopped", "started"} /\ required \subseteq 1..posted
  OBVIOUS
<1> QED
  BY <1>3, <1>4, <1>5, <1>6, <1>7, <1>8 DEF ViewInv, NetworkInv

LEMMA ViewStaysInStep == ViewInv /\ [ViewNext]_vars => ViewInv'
PROOF
<1> SUFFICES ASSUME ViewInv, [ViewNext]_vars
             PROVE  ViewInv'
  OBVIOUS
<1>1. BoardInv' /\ posted <= posted'
  BY BoardStaysInStep DEF ViewInv
<1>2. 1..posted \subseteq 1..posted'
  BY <1>1, WrittenStaysWritten DEF ViewInv
<1>3. CASE WriteMutations \/ HandleSuccessfulWrite \/ HandleRejectedWrite
  BY <1>1, <1>2, <1>3, WritesKeepView DEF ViewInv
<1>4. ASSUME NEW u \in Accounts, HandleCredentialChange(u)
      PROVE  ViewInv'
  BY <1>1, <1>2, <1>4, UserChangeKeepsView DEF ViewInv
<1>5. ASSUME NEW s \in Screens, AddQueryListener(s)
      PROVE  ViewInv'
  BY <1>1, <1>5, ListenerIsAdded DEF ViewInv
<1>6. CASE OnWatchStreamChange \/ \E S \in SUBSET board, current \in BOOLEAN : ApplyRemoteEvent(S, current)
  BY <1>1, <1>2, <1>6, WatchKeepsView DEF ViewInv
<1>7. CASE OnWatchStreamClose
  BY <1>1, <1>7, CloseKeepsView DEF ViewInv
<1>8. CASE OnlineStateTimeout
  BY <1>1, <1>8, TimeoutKeepsView DEF ViewInv
<1>9. CASE HandleRejectedListen
  BY <1>1, <1>9, RejectionKeepsView DEF ViewInv
<1>10. CASE ConnectivityChanges \/ ServerStep
  BY <1>1, <1>2, <1>10, OutsideKeepsView DEF ViewInv
<1>11. CASE UNCHANGED vars
  <2>1. /\ UNCHANGED viewVars /\ UNCHANGED networkVars /\ UNCHANGED user /\ UNCHANGED seen
        /\ UNCHANGED outbox /\ UNCHANGED online
    BY <1>11 DEF vars, boardVars, networkVars
  <2>2. UNCHANGED Screen
    BY <2>1 DEF Screen, Waiting
  <2>3. ListenersInv' /\ (Listening' <=> Listening)
    BY <1>2, <2>1, <2>2, ListenersAreLeft DEF ViewInv
  <2>4. NetworkInv'
    BY <1>2, <2>1, <2>3, NetworkIsLeft DEF ViewInv
  <2> QED
    BY <1>1, <2>3, <2>4 DEF ViewInv
<1> QED
  BY <1>3, <1>4, <1>5, <1>6, <1>7, <1>8, <1>9, <1>10, <1>11 DEF ViewNext

\* In every reachable state, for every choice of the constants, the invariant
\* above holds (QueryListener, View and OnlineStateTracker in step).
THEOREM ViewInvariance == ViewSpec => []ViewInv
PROOF
<1> QED
  BY ViewStarts, ViewStaysInStep, PTL DEF ViewSpec

\* The view and the tracker keep their types and OnlineStateTracker's
\* assertions hold: the timer only runs while the state is unknown, and a
\* client that is online has forgotten its failures.
THEOREM TrackerKeepsItsAssertions == FairViewSpec => []TrackerInStep
PROOF
<1>1. ViewInv => TrackerInStep
  <2> SUFFICES ASSUME ViewInv
               PROVE  TrackerInStep
    OBVIOUS
  <2>1. view \subseteq 1..posted
    BY ScreenIsWritten DEF ViewInv, ListenersInv, ViewIsScreen
  <2> QED
    BY <2>1 DEF ViewInv, BoardInv, ListenersInv, NetworkInv, TrackerInStep, ViewTypeOK
<1> QED
  BY <1>1, ViewInvariance, PTL DEF FairViewSpec

\* A chat shows exactly the cached messages and the current user's waiting ones
\* after any sequence of differences (ComputeDocumentChanges, HandleUserChange).
THEOREM ScreensShowTheBoard == FairViewSpec => []ShownIsScreen
PROOF
<1>1. ViewInv => ShownIsScreen
  BY DEF ViewInv, ListenersInv
<1> QED
  BY <1>1, ViewInvariance, PTL DEF FairViewSpec

\* A listener waits for its first event only while a timer or the server will
\* end the waiting: no step forgets it (ShouldRaiseInitialEvent).
THEOREM NobodyWaitsInVain == FairViewSpec => []WaitingIsJustified
PROOF
<1>1. ViewInv => WaitingIsJustified
  <2> SUFFICES ASSUME ViewInv, NEW s \in Screens, listener[s] = "waiting"
               PROVE  /\ viewState = "local" /\ Screen = {} /\ online # "Offline"
                      /\ watch = "started" /\ (timer \/ online = "Online")
    BY DEF WaitingIsJustified
  <2>1. viewState = "local" /\ Screen = {} /\ online # "Offline"
    BY DEF ViewInv, ListenersInv
  <2>2. Listening
    BY <2>1 DEF Listening
  <2> QED
    BY <2>1, <2>2 DEF ViewInv, NetworkInv, NetworkIsWatched
<1> QED
  BY <1>1, ViewInvariance, PTL DEF FairViewSpec

-----------------------------------------------------------------------------
(* What a screen may lose                                                  *)

\* Message m may leave a chat in this step: this device has not seen it on the
\* board, and it waited in the outbox of an account that is replaced, or it was
\* the oldest of the outbox, which is rid of it.
MayLeave(m) ==
    /\ m \notin seen'
    /\ \/ user' # user /\ m \in Waiting(user)
       \/ /\ user' = user /\ outbox[user] # <<>> /\ m = Head(outbox[user])
          /\ outbox' = [outbox EXCEPT ![user] = Tail(@)]

\* A screen that goes on being served loses only such messages.
ShownMessagesStay ==
    \A s \in Screens : listener[s] = "raised" /\ listener'[s] = "raised" =>
        \A m \in shown[s] \ shown'[s] : MayLeave(m)

\* A message leaves the content of the chat only so.
LEMMA ContentOfAStep == BoardInv /\ [BoardNext]_boardVars => \A m \in Screen \ Screen' : MayLeave(m)
PROOF
<1> SUFFICES ASSUME BoardInv, [BoardNext]_boardVars, NEW m \in Screen, m \notin Screen'
             PROVE  MayLeave(m)
  OBVIOUS
<1>0. /\ user \in Accounts /\ outbox \in [Accounts -> Seq(1..posted)]
      /\ outbox[user] \in Seq(1..posted)
      /\ m \in seen \/ m \in Waiting(user)
      /\ m \notin seen' /\ m \notin Waiting(user)'
  BY DEF BoardInv, BoardTypeOK, OutboxesAreKnown, Screen
<1>1. CASE UNCHANGED <<user, outbox>> /\ seen \subseteq seen'
  BY <1>0, <1>1 DEF Waiting
<1>2. CASE Post
  <2>1. /\ outbox'[user] = Append(outbox[user], posted') /\ posted' = posted + 1
        /\ UNCHANGED user /\ UNCHANGED seen /\ posted \in Nat
    BY <1>0, <1>2 DEF Post, BoardInv, BoardTypeOK
  <2>2. outbox[user] \in Seq(1..posted') /\ posted' \in 1..posted'
    <3>1. 1..posted \subseteq 1..posted' /\ posted' \in 1..posted'
      BY <2>1
    <3> QED
      BY <1>0, <3>1, SeqOfMore
  <2>3. {Append(outbox[user], posted')[i] : i \in 1..Len(Append(outbox[user], posted'))}
          = {outbox[user][i] : i \in 1..Len(outbox[user])} \cup {posted'}
    BY <2>2, AppendFacts
  <2>4. {outbox'[user'][i] : i \in 1..Len(outbox'[user'])}
          = {outbox[user][i] : i \in 1..Len(outbox[user])} \cup {posted'}
    BY <2>1, <2>3
  <2>5. Waiting(user)' = Waiting(user) \cup {posted'}
    BY <2>4 DEF Waiting
  <2> QED
    BY <1>0, <2>1, <2>5
<1>3. ASSUME outbox[user] # <<>>, UNCHANGED user, seen \subseteq seen',
             outbox' = [outbox EXCEPT ![user] = Tail(outbox[user])]
      PROVE  MayLeave(m)
  <2>0. {outbox[user][i] : i \in 1..Len(outbox[user])}
          = {Head(outbox[user])} \cup {Tail(outbox[user])[i] : i \in 1..Len(Tail(outbox[user]))}
    BY <1>0, <1>3, TailFacts
  <2>1. Waiting(user) = {Head(outbox[user])} \cup {Tail(outbox[user])[i] : i \in 1..Len(Tail(outbox[user]))}
    BY <2>0 DEF Waiting
  <2>2. outbox'[user] = Tail(outbox[user])
    BY <1>0, <1>3
  <2>3. Waiting(user) \subseteq {Head(outbox[user])} \cup Waiting(user)'
    BY <2>1, <2>2, <1>3 DEF Waiting
  <2>4. m = Head(outbox[user])
    BY <1>0, <1>3, <2>3
  <2> QED
    BY <1>0, <1>3, <2>4 DEF MayLeave
<1>4. CASE Confirm
  BY <1>3, <1>4 DEF Confirm
<1>5. CASE Drop
  BY <1>3, <1>5 DEF Drop
<1>6. ASSUME NEW u \in Accounts, SwitchUser(u)
      PROVE  MayLeave(m)
  BY <1>0, <1>1, <1>6 DEF SwitchUser, MayLeave
<1>7. CASE PostElsewhere
  BY <1>1, <1>7 DEF PostElsewhere
<1>8. ASSUME NEW d \in 1..posted, Deliver(d)
      PROVE  MayLeave(m)
  BY <1>1, <1>8 DEF Deliver
<1>9. ASSUME NEW S \in SUBSET board, Learn(S)
      PROVE  MayLeave(m)
  BY <1>1, <1>9 DEF Learn
<1>10. CASE UNCHANGED boardVars
  BY <1>1, <1>10 DEF boardVars
<1> QED
  BY <1>2, <1>4, <1>5, <1>6, <1>7, <1>8, <1>9, <1>10 DEF BoardNext

\* A message does not flicker: a screen that goes on being served loses one
\* only when the account it waits for is replaced or the server refused it.  No
\* acknowledgment, snapshot, broken stream, verdict on the network or change of
\* other documents takes it away (ComputeDocumentChanges, HandleUserChange).
THEOREM ShownMessagesDoNotFlicker == ViewSpec => [][ShownMessagesStay]_vars
PROOF
<1>1. ViewInv /\ ViewInv' /\ [ViewNext]_vars => ShownMessagesStay
  <2> SUFFICES ASSUME ViewInv, ViewInv', [ViewNext]_vars,
                      NEW s \in Screens, listener[s] = "raised", listener'[s] = "raised",
                      NEW m \in shown[s] \ shown'[s]
               PROVE  MayLeave(m)
    BY DEF ShownMessagesStay
  <2>1. shown[s] = Screen /\ shown'[s] = Screen'
    BY DEF ViewInv, ListenersInv, ShownIsScreen
  <2>2. [BoardNext]_boardVars
    BY BoardOfAStep DEF vars
  <2> QED
    BY <2>1, <2>2, ContentOfAStep DEF ViewInv
<1> QED
  BY <1>1, ViewInvariance, ViewStaysInStep, PTL DEF ViewSpec
=============================================================================
