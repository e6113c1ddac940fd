-------------------------- MODULE CredentialHandoff --------------------------
(***************************************************************************)
(* How the signed-in user of FlashChat travels from FirebaseAuth to the    *)
(* write stream of Firestore, through three serial queues:                 *)
(*                                                                         *)
(*   auth work queue    owns _currentUser, answers token requests          *)
(*   main queue         runs the auth notification and the token callback  *)
(*   Firestore worker   owns the sync engine and the stream                *)
(*                                                                         *)
(* The stream asks for a token on the worker, the token is read on the     *)
(* auth queue, checked on the main queue and used on the worker, while     *)
(* the user may change at any of those points.  Two counters protect the   *)
(* answer: the provider's token_counter and the stream's close_count.      *)
(* The mutation queue a stream drains belongs to the sync engine's user,   *)
(* so the stream must never be open with somebody else's token.            *)
(***************************************************************************)
EXTENDS Naturals, Sequences

CONSTANTS
    Users,        \* the accounts that sign in on this device
    NoUser,       \* nobody is signed in
    MaxSwaps,     \* bound: changes of the signed-in user
    MaxStops      \* bound: token errors and ends of the stream, together

ASSUME HandoffAssumption ==
    /\ NoUser \notin Users
    /\ MaxSwaps \in Nat
    /\ MaxStops \in Nat

Accounts == Users \cup {NoUser}

VARIABLES
    authUser,     \* FIRAuth._currentUser
    swaps,        \* how often it changed (bounded by MaxSwaps)
    asks,         \* getToken blocks waiting on the auth work queue
    fetches,      \* tokens of a user read, whose callback is not posted yet
    mainQueue,    \* blocks dispatched to the main queue
    provider,     \* FirebaseCredentialsProvider.contents_: user and token_counter
    workerQueue,  \* operations enqueued on the Firestore worker queue
    engineUser,   \* SyncEngine.current_user_, the owner of the mutation queue
    unsent,       \* accounts whose mutation queue is not empty
    stream,       \* Stream.state_ of the write stream
    streamUser,   \* the user whose token the gRPC stream was created with
    closeCount,   \* Stream.close_count_
    stops         \* token errors and ends of the stream (bounded by MaxStops)

authVars   == <<authUser, swaps, asks, fetches>>
workerVars == <<engineUser, unsent, stream, streamUser, closeCount, stops>>
vars == <<authVars, mainQueue, provider, workerQueue, workerVars>>

-----------------------------------------------------------------------------
StreamStates == {"initial", "starting", "open", "error", "backoff"}

Ask    == [counter : Nat, close : Nat]
Fetch  == [user : Accounts, counter : Nat, close : Nat]
Notify == [kind : {"notify"}, user : Accounts]
Answer == [kind : {"token"}, user : Accounts, counter : Nat, close : Nat, ok : BOOLEAN]
Change == [kind : {"credential"}, user : Accounts]
Resume == [kind : {"resume"}, user : Accounts, close : Nat, ok : BOOLEAN]

TypeOK ==
    /\ authUser \in Accounts
    /\ swaps \in Nat
    /\ asks \in Seq(Ask)
    /\ fetches \subseteq Fetch
    /\ mainQueue \in Seq(Notify \cup Answer)
    /\ provider \in [user : Accounts, counter : Nat]
    /\ workerQueue \in Seq(Change \cup Resume)
    /\ engineUser \in Accounts
    /\ unsent \subseteq Accounts
    /\ stream \in StreamStates
    /\ streamUser \in Accounts
    /\ closeCount \in Nat
    /\ stops \in Nat

-----------------------------------------------------------------------------
(* Stream: start and stop                                                  *)

Started == stream \in {"starting", "open", "backoff"}

\* Stream::RequestCredentials: remember both counters, queue a token request.
RequestCredentials(close) ==
    asks' = Append(asks, [counter |-> provider.counter, close |-> close])

\* Mutant of StartIfNeeded: a stream that ended with an error is not restarted.
StartUnlessError(state, user, queues, close) ==
    IF user \in queues /\ state # "error"
      THEN stream' = "starting" /\ RequestCredentials(close)
      ELSE stream' = state /\ UNCHANGED asks

\* ShouldStartWriteStream and Stream::Start, for a stream that was left in the
\* given state: after an error the start waits for the back-off timer.
StartIfNeeded(state, user, queues, close) ==
    IF user \in queues
      THEN IF state = "error"
             THEN stream' = "backoff" /\ UNCHANGED asks
             ELSE stream' = "starting" /\ RequestCredentials(close)
      ELSE stream' = state /\ UNCHANGED asks

\* RestartNetwork: stop the stream (which counts a close when it was started),
\* forget the error and start again for the given user.
RestartNetwork(user) ==
    /\ closeCount' = IF Started THEN closeCount + 1 ELSE closeCount
    /\ StartIfNeeded("initial", user, unsent, closeCount')

\* Notifications that may wait when Firestore is created, user being the
\* current one: the last names it, and "nobody" is not announced twice.
Announcements(user) ==
    {q \in UNION {[1..n -> Notify] : n \in 0..MaxSwaps} :
        /\ \A i \in 2..Len(q) : q[i-1].user = NoUser => q[i].user # NoUser
        /\ q # <<>> => q[Len(q)].user = user}

\* Firestore is created, with the first chat, for the current user, while
\* earlier changes of the user may still be waiting to be announced.  In the
\* queues of earlier sessions there may be unsent messages of any accounts.
Init ==
    /\ authUser \in Accounts
    /\ mainQueue \in Announcements(authUser)
    /\ swaps = Len(mainQueue)
    /\ fetches = {}
    /\ provider = [user |-> authUser, counter |-> 0]
    /\ workerQueue = <<>>
    /\ engineUser = authUser
    /\ unsent \in SUBSET Users
    /\ streamUser = NoUser
    /\ closeCount = 0
    /\ stops = 0
    /\ IF engineUser \in unsent
         THEN stream = "starting" /\ asks = <<[counter |-> 0, close |-> 0]>>
         ELSE stream = "initial" /\ asks = <<>>

-----------------------------------------------------------------------------
(* Worker queue: the stream's own events                                   *)

\* The back-off timer fires: the stream starts over.
BackoffElapsed ==
    /\ stream = "backoff"
    /\ stream' = "starting"
    /\ RequestCredentials(closeCount)
    /\ UNCHANGED <<authUser, swaps, fetches, mainQueue, provider, workerQueue,
                   engineUser, unsent, streamUser, closeCount, stops>>

\* A transient error ends the open stream: Close, then OnWriteStreamClose.
StreamFails ==
    /\ stream = "open"
    /\ stops < MaxStops
    /\ stops' = stops + 1
    /\ closeCount' = closeCount + 1
    /\ StartIfNeeded("error", engineUser, unsent, closeCount')
    /\ UNCHANGED <<authUser, swaps, fetches, mainQueue, provider, workerQueue,
                   engineUser, unsent, streamUser>>

\* A permanent error ends it: the first write of the pipeline is dropped, and
\* the stream restarts without back-off if the queue still has messages.
WriteRejected ==
    /\ stream = "open"
    /\ engineUser \in unsent
    /\ stops < MaxStops
    /\ stops' = stops + 1
    /\ closeCount' = closeCount + 1
    /\ unsent' \in {unsent, unsent \ {engineUser}}
    /\ StartIfNeeded("initial", engineUser, unsent', closeCount')
    /\ UNCHANGED <<authUser, swaps, fetches, mainQueue, provider, workerQueue,
                   engineUser, streamUser>>

\* The idle timer of a drained stream: a graceful Stop.
IdleStop ==
    /\ stream = "open"
    /\ engineUser \notin unsent
    /\ stops < MaxStops
    /\ stops' = stops + 1
    /\ stream' = "initial"
    /\ closeCount' = closeCount + 1
    /\ UNCHANGED <<authVars, mainQueue, provider, workerQueue,
                   engineUser, unsent, streamUser>>

\* The network becomes reachable again: the streams are restarted.
ConnectivityRestored ==
    /\ stops < MaxStops
    /\ stops' = stops + 1
    /\ RestartNetwork(engineUser)
    /\ UNCHANGED <<authUser, swaps, fetches, mainQueue, provider, workerQueue,
                   engineUser, unsent, streamUser>>

\* A message is written to the queue of the engine's user, and the pipeline
\* is filled, which starts a stopped stream.
WriteMutations ==
    /\ engineUser # NoUser
    /\ unsent' = unsent \cup {engineUser}
    /\ IF Started THEN UNCHANGED <<stream, asks>>
                  ELSE StartIfNeeded(stream, engineUser, unsent', closeCount)
    /\ UNCHANGED <<authUser, swaps, fetches, mainQueue, provider, workerQueue,
                   engineUser, streamUser, closeCount, stops>>

\* The last message of the queue is acknowledged over the open stream.
DrainQueue ==
    /\ stream = "open"
    /\ engineUser \in unsent
    /\ unsent' = unsent \ {engineUser}
    /\ UNCHANGED <<authVars, mainQueue, provider, workerQueue, engineUser,
                   stream, streamUser, closeCount, stops>>

-----------------------------------------------------------------------------
(* FirebaseAuth                                                            *)

\* Mutant of AuthStateChanges: a sign-out is not announced.
OnlySignInChanges(u) == u # NoUser

\* possiblyPostAuthStateChangeNotification compares access tokens.  Every
\* sign-in brings a new one, so only "nobody" after "nobody" is silent.
AuthStateChanges(u) == u # NoUser \/ authUser # NoUser

\* A sign-in, a sign-out or a forced sign-out replaces _currentUser.
UpdateCurrentUser(u) ==
    /\ swaps < MaxSwaps
    /\ swaps' = swaps + 1
    /\ authUser' = u
    /\ mainQueue' = IF AuthStateChanges(u)
                      THEN Append(mainQueue, [kind |-> "notify", user |-> u])
                      ELSE mainQueue
    /\ UNCHANGED <<asks, fetches, provider, workerQueue, workerVars>>

\* The auth work queue runs a getToken block: it captures the current user.
GetTokenForcingRefresh ==
    /\ asks # <<>>
    /\ fetches' = fetches \cup
         {[user |-> authUser, counter |-> Head(asks).counter, close |-> Head(asks).close]}
    /\ asks' = Tail(asks)
    /\ UNCHANGED <<authUser, swaps, mainQueue, provider, workerQueue, workerVars>>

\* The cached or refreshed token, or an error, is posted to the main queue.
PostToken(f, ok) ==
    /\ IF ok THEN UNCHANGED stops
             ELSE stops < MaxStops /\ stops' = stops + 1
    /\ fetches' = fetches \ {f}
    /\ mainQueue' = Append(mainQueue, [kind |-> "token", user |-> f.user,
                        counter |-> f.counter, close |-> f.close, ok |-> ok])
    /\ UNCHANGED <<authUser, swaps, asks, provider, workerQueue, engineUser,
                   unsent, stream, streamUser, closeCount>>

-----------------------------------------------------------------------------
(* Main queue                                                              *)

\* The auth notification: the provider takes the new user, counts the change
\* and enqueues HandleCredentialChange on the worker.
RunNotification ==
    /\ mainQueue # <<>>
    /\ Head(mainQueue).kind = "notify"
    /\ provider' = [user |-> Head(mainQueue).user, counter |-> provider.counter + 1]
    /\ workerQueue' = Append(workerQueue,
                             [kind |-> "credential", user |-> Head(mainQueue).user])
    /\ mainQueue' = Tail(mainQueue)
    /\ UNCHANGED <<authVars, workerVars>>

\* The token callback of a request no notification overtook: the stream gets it.
TokenIsFresh(a) == a.counter = provider.counter

AcceptToken ==
    /\ mainQueue # <<>>
    /\ Head(mainQueue).kind = "token"
    /\ TokenIsFresh(Head(mainQueue))
    /\ workerQueue' = Append(workerQueue,
                             [kind |-> "resume", user |-> Head(mainQueue).user,
                              close |-> Head(mainQueue).close, ok |-> Head(mainQueue).ok])
    /\ mainQueue' = Tail(mainQueue)
    /\ UNCHANGED <<authVars, provider, workerVars>>

\* "GetToken aborted due to token change": ask again.
RetryToken ==
    /\ mainQueue # <<>>
    /\ Head(mainQueue).kind = "token"
    /\ ~TokenIsFresh(Head(mainQueue))
    /\ RequestCredentials(Head(mainQueue).close)
    /\ mainQueue' = Tail(mainQueue)
    /\ UNCHANGED <<authUser, swaps, fetches, provider, workerQueue, workerVars>>

-----------------------------------------------------------------------------
(* Firestore worker queue                                                  *)

\* HandleCredentialChange: take the user's mutation queue and restart the
\* network, which fills the pipeline from that queue.
HandleCredentialChange ==
    /\ workerQueue # <<>>
    /\ Head(workerQueue).kind = "credential"
    /\ engineUser' = Head(workerQueue).user
    /\ RestartNetwork(engineUser')
    /\ workerQueue' = Tail(workerQueue)
    /\ UNCHANGED <<authUser, swaps, fetches, mainQueue, provider, unsent,
                   streamUser, stops>>

\* Mutant of ResumeIsCurrent: a token for an earlier stream is used.
AnyResumeIsCurrent(r) == r.close <= closeCount

\* ResumeStartWithCredentials is dropped when the stream was closed meanwhile.
ResumeIsCurrent(r) == r.close = closeCount

DropResume ==
    /\ workerQueue # <<>>
    /\ Head(workerQueue).kind = "resume"
    /\ ~ResumeIsCurrent(Head(workerQueue))
    /\ workerQueue' = Tail(workerQueue)
    /\ UNCHANGED <<authVars, mainQueue, provider, workerVars>>

\* The gRPC stream is created with the token, and opens.
OpenStream ==
    /\ workerQueue # <<>>
    /\ Head(workerQueue).kind = "resume"
    /\ ResumeIsCurrent(Head(workerQueue))
    /\ Head(workerQueue).ok
    /\ stream' = "open"
    /\ streamUser' = Head(workerQueue).user
    /\ workerQueue' = Tail(workerQueue)
    /\ UNCHANGED <<authVars, mainQueue, provider, engineUser, unsent,
                   closeCount, stops>>

\* The token could not be obtained: OnStreamFinish closes with an error and
\* OnWriteStreamClose starts over, after the back-off.
TokenFails ==
    /\ workerQueue # <<>>
    /\ Head(workerQueue).kind = "resume"
    /\ ResumeIsCurrent(Head(workerQueue))
    /\ ~Head(workerQueue).ok
    /\ closeCount' = closeCount + 1
    /\ StartIfNeeded("error", engineUser, unsent, closeCount')
    /\ workerQueue' = Tail(workerQueue)
    /\ UNCHANGED <<authUser, swaps, fetches, mainQueue, provider, engineUser,
                   unsent, streamUser, stops>>

-----------------------------------------------------------------------------
AuthQueue == GetTokenForcingRefresh \/ \E f \in fetches, ok \in BOOLEAN : PostToken(f, ok)
MainQueue == RunNotification \/ AcceptToken \/ RetryToken
Worker    == HandleCredentialChange \/ DropResume \/ OpenStream \/ TokenFails

Next ==
    \/ \E u \in Accounts : UpdateCurrentUser(u)
    \/ AuthQueue
    \/ MainQueue
    \/ Worker
    \/ BackoffElapsed
    \/ StreamFails
    \/ WriteRejected
    \/ IdleStop
    \/ ConnectivityRestored
    \/ WriteMutations
    \/ DrainQueue

\* Serial dispatch queues run every block, token requests are answered and
\* timers fire.  Nothing is assumed of the users, the server or the network.
Fairness ==
    /\ WF_vars(AuthQueue)
    /\ WF_vars(MainQueue)
    /\ WF_vars(Worker)
    /\ WF_vars(BackoffElapsed)

Spec == Init /\ [][Next]_vars
FairSpec == Spec /\ Fairness

-----------------------------------------------------------------------------
(* Properties                                                              *)

\* The write stream is only ever open with a token of the account whose
\* mutation queue it drains: messages of one account are never sent with the
\* credentials of another, or of nobody, whatever the interleaving of the
\* sign-in with the token request (GetToken, RequestCredentials, Close).
StreamHasOwnersToken == stream = "open" => streamUser = engineUser

\* Once no auth notification and no credential change is queued, the sync
\* engine works for the user FirebaseAuth reports: no change of user is lost
\* or applied out of order on its way through the two queues.
EngineFollowsAuth ==
    (/\ \A i \in 1..Len(mainQueue) : mainQueue[i].kind # "notify"
     /\ \A i \in 1..Len(workerQueue) : workerQueue[i].kind # "credential")
       => engineUser = authUser

\* A stream that is starting has a token request under way with its own close
\* count: no dropped answer leaves it waiting forever, and there is only one,
\* so no stream is opened twice (HARD_ASSERT in ResumeStartWithCredentials).
RequestsOf(close) ==
      {<<"ask", i>> : i \in {j \in 1..Len(asks) : asks[j].close = close}}
 \cup {<<"fetch", f>> : f \in {g \in fetches : g.close = close}}
 \cup {<<"main", i>> : i \in {j \in 1..Len(mainQueue) :
             mainQueue[j].kind = "token" /\ mainQueue[j].close = close}}
 \cup {<<"worker", i>> : i \in {j \in 1..Len(workerQueue) :
             workerQueue[j].kind = "resume" /\ workerQueue[j].close = close}}

OneRequestWhileStarting ==
    IF stream = "starting"
      THEN \E r \in RequestsOf(closeCount) : RequestsOf(closeCount) = {r}
      ELSE RequestsOf(closeCount) = {}

\* The state is well formed, and each start of the stream has its one request:
\* no interleaving of stops, starts and late answers loses or doubles it.
HandoffInStep == TypeOK /\ OneRequestWhileStarting

\* A message that waits in the queue of the engine's user gets an open stream,
\* unless its queue is emptied or the user changes: no restart, retry or
\* dropped token answer loses the wake-up.
WaitingWriteGetsStream ==
    \A u \in Users :
        (engineUser = u /\ u \in unsent)
            ~> (stream = "open" \/ u \notin unsent \/ engineUser # u)

=============================================================================
