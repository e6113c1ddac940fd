------------------------ MODULE CredentialHandoffProofs ------------------------
(***************************************************************************)
(* Proofs about CredentialHandoff, for any set of accounts and any bounds: *)
(* type correctness, that the write stream only ever carries a token of    *)
(* the account whose mutation queue it drains, and that every start of a   *)
(* stream has at most one request for credentials under way.               *)
(***************************************************************************)
EXTENDS CredentialHandoff, TLAPS

IsNotify(b) == b.kind = "notify"
IsChange(b) == b.kind = "credential"

\* The last auth notification on the main queue, or else the provider, names
\* the user FirebaseAuth has.
ProviderTracksAuth ==
    /\ (\A i \in 1..Len(mainQueue) : ~IsNotify(mainQueue[i])) => provider.user = authUser
    /\ \A i \in 1..Len(mainQueue) :
          /\ IsNotify(mainQueue[i])
          /\ \A j \in 1..Len(mainQueue) : j > i => ~IsNotify(mainQueue[j])
          => mainQueue[i].user = authUser

\* The last credential change on the worker queue, or else the sync engine,
\* names the user the provider has.
EngineTracksProvider ==
    /\ (\A i \in 1..Len(workerQueue) : ~IsChange(workerQueue[i])) => engineUser = provider.user
    /\ \A i \in 1..Len(workerQueue) :
          /\ IsChange(workerQueue[i])
          /\ \A j \in 1..Len(workerQueue) : j > i => ~IsChange(workerQueue[j])
          => workerQueue[i].user = provider.user

\* No request carries a counter of the future; the closes of all requests are
\* at most the stream's, and below it while the stream is down.
IsPast(c, closes, state) == c <= closes /\ (state \in {"initial", "error"} => c < closes)

RequestsArePast ==
    /\ \A i \in 1..Len(asks) : IsPast(asks[i].close, closeCount, stream)
    /\ \A f \in fetches : IsPast(f.close, closeCount, stream)
    /\ \A i \in 1..Len(mainQueue) :
          mainQueue[i].kind = "token" => IsPast(mainQueue[i].close, closeCount, stream)
    /\ \A i \in 1..Len(workerQueue) :
          workerQueue[i].kind = "resume" => IsPast(workerQueue[i].close, closeCount, stream)

CountersArePast ==
    /\ \A i \in 1..Len(asks) : asks[i].counter <= provider.counter
    /\ \A f \in fetches : f.counter <= provider.counter
    /\ \A i \in 1..Len(mainQueue) :
          mainQueue[i].kind = "token" => mainQueue[i].counter <= provider.counter

\* A token that still has the provider's counter is of the provider's user, or
\* a notification that will make it stale is ahead of it.
FetchesAreOfProvider ==
    \A f \in fetches :
        f.counter = provider.counter =>
            \/ f.user = provider.user
            \/ \E j \in 1..Len(mainQueue) : IsNotify(mainQueue[j])

AnswersAreOfProvider ==
    \A i \in 1..Len(mainQueue) :
        (mainQueue[i].kind = "token" /\ mainQueue[i].counter = provider.counter) =>
            \/ mainQueue[i].user = provider.user
            \/ \E j \in 1..Len(mainQueue) : j < i /\ IsNotify(mainQueue[j])

\* A token the stream would accept is of the engine's user, or a credential
\* change that will close the stream is ahead of it.
ResumesAreOfEngine ==
    \A i \in 1..Len(workerQueue) :
        (workerQueue[i].kind = "resume" /\ workerQueue[i].close = closeCount) =>
            \/ workerQueue[i].user = engineUser
            \/ \E j \in 1..Len(workerQueue) : j < i /\ IsChange(workerQueue[j])

HandoffInv ==
    /\ TypeOK
    /\ ProviderTracksAuth
    /\ EngineTracksProvider
    /\ RequestsArePast
    /\ CountersArePast
    /\ FetchesAreOfProvider
    /\ AnswersAreOfProvider
    /\ ResumesAreOfEngine
    /\ StreamHasOwnersToken

-----------------------------------------------------------------------------
(* Queues                                                                  *)

\* What Append does to a queue: one more element, the others in place.
LEMMA AppendFacts ==
    ASSUME NEW S, NEW q \in Seq(S), NEW e \in S
    PROVE  /\ Append(q, e) \in Seq(S)
           /\ Len(q) \in Nat
           /\ Len(Append(q, e)) = Len(q) + 1
           /\ \A i \in 1..Len(q) : Append(q, e)[i] = q[i] /\ q[i] \in S
           /\ Append(q, e)[Len(q) + 1] = e
OBVIOUS

\* What taking the head off a queue does: every other element moves up by one.
LEMMA TailFacts ==
    ASSUME NEW S, NEW q \in Seq(S), q # <<>>
    PROVE  /\ Tail(q) \in Seq(S)
           /\ Len(q) \in Nat \ {0}
           /\ Len(Tail(q)) = Len(q) - 1
           /\ \A i \in 1..Len(Tail(q)) : Tail(q)[i] = q[i + 1]
           /\ \A i \in 1..Len(q) : q[i] \in S
           /\ Head(q) = q[1]
OBVIOUS

-----------------------------------------------------------------------------
(* Type correctness                                                        *)

\* Announcements are notifications, and the last of them is of the current user.
LEMMA AnnouncementsTyped ==
    ASSUME NEW user \in Accounts, NEW q \in Announcements(user)
    PROVE  /\ q \in Seq(Notify) /\ Len(q) \in Nat
           /\ q # <<>> => q[Len(q)].user = user
<1>1. PICK n \in 0..MaxSwaps : q \in [1..n -> Notify]
  BY DEF Announcements
<1>2. n \in Nat
  BY HandoffAssumption
<1>3. q \in Seq(Notify)
  BY <1>1, <1>2
<1>. QED
  BY <1>3 DEF Announcements

LEMMA InitTypeOK == Init => TypeOK
<1> SUFFICES ASSUME Init PROVE TypeOK
  OBVIOUS
<1>4. mainQueue \in Seq(Notify) /\ swaps \in Nat
  BY AnnouncementsTyped DEF Init
<1>1. <<[counter |-> 0, close |-> 0]>> \in Seq(Ask)
  BY DEF Ask
<1>2. asks \in Seq(Ask) /\ stream \in StreamStates
  <2>1. CASE engineUser \in unsent
    BY <1>1, <2>1 DEF Init, StreamStates
  <2>2. CASE engineUser \notin unsent
    <3>1. asks = <<>>
      BY <2>2 DEF Init
    <3>. QED
      BY <2>2, <3>1 DEF Init, StreamStates
  <2>. QED
    BY <2>1, <2>2
<1>3. /\ mainQueue \in Seq(Notify \cup Answer)
      /\ workerQueue \in Seq(Change \cup Resume)
      /\ fetches \subseteq Fetch
  BY <1>4 DEF Init
<1>. QED
  BY <1>2, <1>3, <1>4 DEF Init, TypeOK, Accounts

LEMMA RequestTyped ==
    ASSUME TypeOK, NEW close \in Nat, RequestCredentials(close)
    PROVE  asks' \in Seq(Ask)
<1>1. [counter |-> provider.counter, close |-> close] \in Ask
  BY DEF TypeOK, Ask
<1>. QED
  BY <1>1, AppendFacts DEF TypeOK, RequestCredentials

LEMMA StartTyped ==
    ASSUME TypeOK, NEW state \in {"initial", "error"}, NEW user, NEW queues,
           NEW close \in Nat, StartIfNeeded(state, user, queues, close)
    PROVE  stream' \in StreamStates /\ asks' \in Seq(Ask)
BY RequestTyped DEF StartIfNeeded, StreamStates, TypeOK

LEMMA NextTypeOK == TypeOK /\ [Next]_vars => TypeOK'
<1> SUFFICES ASSUME TypeOK, [Next]_vars PROVE TypeOK'
  OBVIOUS
<1> USE DEF Accounts
<1>1. ASSUME NEW u \in Accounts, UpdateCurrentUser(u) PROVE TypeOK'
  <2>1. [kind |-> "notify", user |-> u] \in Notify \cup Answer
    BY DEF Notify
  <2>2. mainQueue' \in Seq(Notify \cup Answer)
    BY <1>1, <2>1, AppendFacts DEF TypeOK, UpdateCurrentUser
  <2>. QED
    BY <1>1, <2>2 DEF TypeOK, UpdateCurrentUser, workerVars
<1>2. CASE GetTokenForcingRefresh
  <2>1. Head(asks) \in Ask /\ asks' \in Seq(Ask)
    BY <1>2, TailFacts DEF TypeOK, GetTokenForcingRefresh
  <2>2. fetches' \subseteq Fetch
    BY <1>2, <2>1 DEF TypeOK, GetTokenForcingRefresh, Fetch, Ask
  <2>. QED
    BY <1>2, <2>1, <2>2 DEF TypeOK, GetTokenForcingRefresh, workerVars
<1>3. ASSUME NEW f \in fetches, NEW ok \in BOOLEAN, PostToken(f, ok) PROVE TypeOK'
  <2>1. [kind |-> "token", user |-> f.user, counter |-> f.counter,
         close |-> f.close, ok |-> ok] \in Notify \cup Answer
    BY DEF Answer, TypeOK, Fetch
  <2>2. mainQueue' \in Seq(Notify \cup Answer)
    BY <1>3, <2>1, AppendFacts DEF TypeOK, PostToken
  <2>. QED
    BY <1>3, <2>2 DEF TypeOK, PostToken
<1>4. CASE RunNotification
  <2>1. Head(mainQueue) \in Notify /\ mainQueue' \in Seq(Notify \cup Answer)
    BY <1>4, TailFacts DEF TypeOK, RunNotification, Answer
  <2>2. [kind |-> "credential", user |-> Head(mainQueue).user] \in Change \cup Resume
    BY <2>1 DEF Change, Notify
  <2>3. workerQueue' \in Seq(Change \cup Resume)
    BY <1>4, <2>2, AppendFacts DEF TypeOK, RunNotification
  <2>. QED
    BY <1>4, <2>1, <2>3 DEF TypeOK, RunNotification, authVars, workerVars, Notify
<1>5. CASE AcceptToken
  <2>1. Head(mainQueue) \in Answer /\ mainQueue' \in Seq(Notify \cup Answer)
    BY <1>5, TailFacts DEF TypeOK, AcceptToken, Notify
  <2>2. [kind |-> "resume", user |-> Head(mainQueue).user,
         close |-> Head(mainQueue).close, ok |-> Head(mainQueue).ok] \in Change \cup Resume
    BY <2>1 DEF Resume, Answer
  <2>3. workerQueue' \in Seq(Change \cup Resume)
    BY <1>5, <2>2, AppendFacts DEF TypeOK, AcceptToken
  <2>. QED
    BY <1>5, <2>1, <2>3 DEF TypeOK, AcceptToken, authVars, workerVars
<1>6. CASE RetryToken
  <2>1. Head(mainQueue).close \in Nat /\ mainQueue' \in Seq(Notify \cup Answer)
    BY <1>6, TailFacts DEF TypeOK, RetryToken, Notify, Answer
  <2>2. asks' \in Seq(Ask)
    BY <1>6, <2>1, RequestTyped DEF RetryToken
  <2>. QED
    BY <1>6, <2>1, <2>2 DEF TypeOK, RetryToken, workerVars
<1>7. CASE HandleCredentialChange
  <2>1. Head(workerQueue) \in Change /\ workerQueue' \in Seq(Change \cup Resume)
    BY <1>7, TailFacts DEF TypeOK, HandleCredentialChange, Resume
  <2>2. closeCount' \in Nat
    BY <1>7 DEF TypeOK, HandleCredentialChange, RestartNetwork
  <2>3. stream' \in StreamStates /\ asks' \in Seq(Ask)
    BY <1>7, <2>2, StartTyped DEF HandleCredentialChange, RestartNetwork
  <2>. QED
    BY <1>7, <2>1, <2>2, <2>3 DEF TypeOK, HandleCredentialChange, Change
<1>8. CASE DropResume
  BY <1>8, TailFacts DEF TypeOK, DropResume, authVars, workerVars
<1>9. CASE OpenStream
  <2>1. Head(workerQueue) \in Resume /\ workerQueue' \in Seq(Change \cup Resume)
    BY <1>9, TailFacts DEF TypeOK, OpenStream, Change
  <2>. QED
    BY <1>9, <2>1 DEF TypeOK, OpenStream, authVars, Resume, StreamStates
<1>10. CASE TokenFails
  <2>1. workerQueue' \in Seq(Change \cup Resume)
    BY <1>10, TailFacts DEF TypeOK, TokenFails
  <2>2. closeCount' \in Nat
    BY <1>10 DEF TypeOK, TokenFails
  <2>3. stream' \in StreamStates /\ asks' \in Seq(Ask)
    BY <1>10, <2>2, StartTyped DEF TokenFails
  <2>. QED
    BY <1>10, <2>1, <2>2, <2>3 DEF TypeOK, TokenFails
<1>11. CASE BackoffElapsed
  <2>1. asks' \in Seq(Ask)
    BY <1>11, RequestTyped DEF TypeOK, BackoffElapsed
  <2>. QED
    BY <1>11, <2>1 DEF TypeOK, BackoffElapsed, StreamStates
<1>12. CASE StreamFails
  <2>1. closeCount' \in Nat
    BY <1>12 DEF TypeOK, StreamFails
  <2>2. stream' \in StreamStates /\ asks' \in Seq(Ask)
    BY <1>12, <2>1, StartTyped DEF StreamFails
  <2>. QED
    BY <1>12, <2>1, <2>2 DEF TypeOK, StreamFails
<1>13. CASE WriteRejected
  <2>1. closeCount' \in Nat
    BY <1>13 DEF TypeOK, WriteRejected
  <2>2. stream' \in StreamStates /\ asks' \in Seq(Ask)
    BY <1>13, <2>1, StartTyped DEF WriteRejected
  <2>. QED
    BY <1>13, <2>1, <2>2 DEF TypeOK, WriteRejected
<1>14. CASE IdleStop
  BY <1>14 DEF TypeOK, IdleStop, authVars, StreamStates
<1>15. CASE ConnectivityRestored
  <2>1. closeCount' \in Nat
    BY <1>15 DEF TypeOK, ConnectivityRestored, RestartNetwork
  <2>2. stream' \in StreamStates /\ asks' \in Seq(Ask)
    BY <1>15, <2>1, StartTyped DEF ConnectivityRestored, RestartNetwork
  <2>. QED
    BY <1>15, <2>1, <2>2 DEF TypeOK, ConnectivityRestored
<1>16. CASE WriteMutations
  <2>1. stream' \in StreamStates /\ asks' \in Seq(Ask)
    <3>1. CASE Started
      BY <1>16, <3>1 DEF WriteMutations, TypeOK
    <3>2. CASE ~Started
      <4>1. stream \in {"initial", "error"}
        BY <3>2 DEF Started, TypeOK, StreamStates
      <4>. QED
        BY <1>16, <3>2, <4>1, StartTyped DEF WriteMutations, TypeOK
    <3>. QED
      BY <3>1, <3>2
  <2>. QED
    BY <1>16, <2>1 DEF TypeOK, WriteMutations
<1>17. CASE DrainQueue
  BY <1>17 DEF TypeOK, DrainQueue, authVars
<1>18. CASE UNCHANGED vars
  BY <1>18 DEF TypeOK, vars, authVars, workerVars
<1>. QED
  BY <1>1, <1>2, <1>3, <1>4, <1>5, <1>6, <1>7, <1>8, <1>9, <1>10, <1>11,
     <1>12, <1>13, <1>14, <1>15, <1>16, <1>17, <1>18
  DEF Next, AuthQueue, MainQueue, Worker

\* Every queue holds well-formed blocks and every counter is a natural number,
\* whatever the accounts and the bounds (FIRAuth, FirebaseCredentialsProvider,
\* Stream and SyncEngine together).
THEOREM TypeCorrect == Spec => []TypeOK
BY InitTypeOK, NextTypeOK, PTL DEF Spec

-----------------------------------------------------------------------------
(* The stream belongs to its owner                                         *)

LEMMA InitHandoffInv == Init => HandoffInv
<1> SUFFICES ASSUME Init PROVE HandoffInv
  OBVIOUS
<1>1. TypeOK
  BY InitTypeOK
<1>2. /\ mainQueue \in Seq(Notify)
      /\ mainQueue # <<>> => mainQueue[Len(mainQueue)].user = authUser
  BY AnnouncementsTyped DEF Init
<1>3. \A i \in 1..Len(mainQueue) : IsNotify(mainQueue[i])
  <2>1. \A i \in 1..Len(mainQueue) : mainQueue[i] \in Notify
    BY <1>2
  <2>2. \A b \in Notify : b.kind = "notify"
    BY DEF Notify
  <2>. QED
    BY <2>1, <2>2 DEF IsNotify
<1>4. ProviderTracksAuth
  <2>1. (\A i \in 1..Len(mainQueue) : ~IsNotify(mainQueue[i])) => provider.user = authUser
    BY DEF Init
  <2>2. ASSUME NEW i \in 1..Len(mainQueue),
               \A j \in 1..Len(mainQueue) : j > i => ~IsNotify(mainQueue[j])
        PROVE  mainQueue[i].user = authUser
    <3>1. Len(mainQueue) \in Nat /\ mainQueue # <<>>
      BY <1>2
    <3>2. i = Len(mainQueue)
      BY <1>3, <2>2, <3>1
    <3>. QED
      BY <1>2, <3>1, <3>2
  <2>. QED
    BY <2>1, <2>2 DEF ProviderTracksAuth
<1>5. AnswersAreOfProvider
  BY <1>3 DEF AnswersAreOfProvider, IsNotify
<1>6. EngineTracksProvider /\ FetchesAreOfProvider /\ ResumesAreOfEngine /\ StreamHasOwnersToken
  BY DEF Init, EngineTracksProvider, FetchesAreOfProvider, ResumesAreOfEngine,
         StreamHasOwnersToken
<1>7. RequestsArePast /\ CountersArePast
  BY <1>3 DEF Init, RequestsArePast, CountersArePast, IsPast, IsNotify
<1>. QED
  BY <1>1, <1>4, <1>5, <1>6, <1>7 DEF HandoffInv

\* A step of the stream that leaves the user, the provider and the main queue
\* alone, handles at most the first block of the worker queue, ends up no
\* earlier than it was, and asks for at most one token, of the new close count.
StreamMoves ==
    /\ UNCHANGED <<authUser, fetches, mainQueue, provider>>
    /\ workerQueue' = workerQueue \/ (workerQueue # <<>> /\ workerQueue' = Tail(workerQueue))
    /\ \/ asks' = asks
       \/ /\ asks' = Append(asks, [counter |-> provider.counter, close |-> closeCount'])
          /\ stream' = "starting"
    /\ \/ closeCount' = closeCount + 1
       \/ /\ closeCount' = closeCount
          /\ stream \in {"initial", "error"} \/ stream' \in {"starting", "backoff", "open"}

LEMMA StartEffect ==
    ASSUME TypeOK, NEW state, NEW user, NEW queues,
           StartIfNeeded(state, user, queues, closeCount')
    PROVE  /\ \/ asks' = asks
              \/ /\ asks' = Append(asks, [counter |-> provider.counter, close |-> closeCount'])
                 /\ stream' = "starting"
           /\ stream' \in {state, "starting", "backoff"}
BY DEF StartIfNeeded, RequestCredentials

\* Such a step keeps everything that is said of the main queue and of the
\* counters of the requests.
LEMMA StreamMovesFacts ==
    ASSUME HandoffInv, TypeOK', StreamMoves
    PROVE  /\ ProviderTracksAuth' /\ FetchesAreOfProvider' /\ AnswersAreOfProvider'
           /\ RequestsArePast' /\ CountersArePast'
<1> USE DEF HandoffInv
<1>1. ProviderTracksAuth' /\ FetchesAreOfProvider' /\ AnswersAreOfProvider'
  BY DEF StreamMoves, ProviderTracksAuth, FetchesAreOfProvider, AnswersAreOfProvider
<1>2. \A c \in Nat : IsPast(c, closeCount, stream) => IsPast(c, closeCount', stream')
  BY DEF StreamMoves, IsPast, TypeOK
<1>3. /\ \A i \in 1..Len(asks') : IsPast(asks'[i].close, closeCount', stream')
      /\ \A i \in 1..Len(asks') : asks'[i].counter <= provider.counter
  <2>1. CASE asks' = asks
    <3>0. \A i \in 1..Len(asks) : asks[i] \in Ask
      BY DEF TypeOK
    <3>1. \A i \in 1..Len(asks) : asks[i].close \in Nat
      BY <3>0 DEF Ask
    <3>. QED
      BY <1>2, <2>1, <3>1 DEF RequestsArePast, CountersArePast
  <2>2. CASE /\ asks' = Append(asks, [counter |-> provider.counter, close |-> closeCount'])
             /\ stream' = "starting"
    <3> DEFINE new == [counter |-> provider.counter, close |-> closeCount']
    <3>1. new \in Ask /\ asks \in Seq(Ask)
      BY DEF TypeOK, Ask
    <3>2. /\ Len(asks) \in Nat /\ Len(asks') = Len(asks) + 1
          /\ \A i \in 1..Len(asks) : asks'[i] = asks[i] /\ asks[i] \in Ask
          /\ asks'[Len(asks) + 1] = new
      BY <2>2, <3>1, AppendFacts
    <3>3. IsPast(new.close, closeCount', stream') /\ new.counter <= provider.counter
      BY <2>2 DEF IsPast, TypeOK
    <3>4. \A i \in 1..Len(asks) : asks[i].close \in Nat
      BY <3>2 DEF Ask
    <3>. HIDE DEF new
    <3>5. \A i \in 1..Len(asks) : IsPast(asks'[i].close, closeCount', stream') /\ asks'[i].counter <= provider.counter
      BY <1>2, <3>2, <3>4 DEF RequestsArePast, CountersArePast
    <3>. QED
      BY <3>2, <3>3, <3>5
  <2>. QED
    BY <2>1, <2>2 DEF StreamMoves
<1>4. \A f \in fetches : IsPast(f.close, closeCount', stream')
  BY <1>2 DEF RequestsArePast, TypeOK, Fetch
<1>5. \A i \in 1..Len(mainQueue) :
         mainQueue[i].kind = "token" => IsPast(mainQueue[i].close, closeCount', stream')
  <2>1. \A i \in 1..Len(mainQueue) : mainQueue[i] \in Notify \cup Answer
    BY DEF TypeOK
  <2>. QED
    BY <1>2, <2>1 DEF RequestsArePast, Notify, Answer
<1>6. \A i \in 1..Len(workerQueue) :
         workerQueue[i].kind = "resume" => IsPast(workerQueue[i].close, closeCount', stream')
  <2>1. \A i \in 1..Len(workerQueue) : workerQueue[i] \in Change \cup Resume
    BY DEF TypeOK
  <2>. QED
    BY <1>2, <2>1 DEF RequestsArePast, Change, Resume
<1>7. \A i \in 1..Len(workerQueue') :
         workerQueue'[i].kind = "resume" => IsPast(workerQueue'[i].close, closeCount', stream')
  <2>1. CASE workerQueue' = workerQueue
    BY <1>6, <2>1
  <2>2. CASE workerQueue # <<>> /\ workerQueue' = Tail(workerQueue)
    <3>1. /\ Len(workerQueue) \in Nat /\ Len(workerQueue') = Len(workerQueue) - 1
          /\ \A i \in 1..Len(workerQueue') : workerQueue'[i] = workerQueue[i + 1]
      BY <2>2, TailFacts DEF TypeOK
    <3>. QED
      BY <1>6, <3>1
  <2>. QED
    BY <2>1, <2>2 DEF StreamMoves
<1>8. RequestsArePast'
  BY <1>3, <1>4, <1>5, <1>7 DEF RequestsArePast, StreamMoves
<1>9. CountersArePast'
  BY <1>3 DEF CountersArePast, StreamMoves
<1>. QED
  BY <1>1, <1>8, <1>9

\* A step of the stream that handles no block of the worker queue also keeps
\* what is said of that queue.
LEMMA StreamMovesAlone ==
    ASSUME HandoffInv, TypeOK', StreamMoves, UNCHANGED <<workerQueue, engineUser>>
    PROVE  EngineTracksProvider' /\ ResumesAreOfEngine'
<1> USE DEF HandoffInv
<1>1. EngineTracksProvider'
  BY DEF EngineTracksProvider, StreamMoves, IsChange
<1>2. CASE closeCount' = closeCount
  BY <1>1, <1>2 DEF ResumesAreOfEngine, IsChange
<1>3. CASE closeCount' = closeCount + 1
  <2>1. \A i \in 1..Len(workerQueue) :
          workerQueue[i].kind = "resume" => workerQueue[i].close <= closeCount
    BY DEF RequestsArePast, IsPast
  <2>2. \A i \in 1..Len(workerQueue) :
          workerQueue[i].kind = "resume" => workerQueue[i].close \in Nat
    <3>1. \A i \in 1..Len(workerQueue) : workerQueue[i] \in Change \cup Resume
      BY DEF TypeOK
    <3>. QED
      BY <3>1 DEF Change, Resume
  <2>3. closeCount \in Nat
    BY DEF TypeOK
  <2>. QED
    BY <1>1, <1>3, <2>1, <2>2, <2>3 DEF ResumesAreOfEngine, IsChange
<1>. QED
  BY <1>1, <1>2, <1>3 DEF StreamMoves

LEMMA StreamStepKeepsInv ==
    ASSUME HandoffInv, TypeOK', Next,
           BackoffElapsed \/ StreamFails \/ WriteRejected \/ IdleStop
             \/ ConnectivityRestored \/ WriteMutations
    PROVE  HandoffInv'
<1> USE DEF HandoffInv
<1>1. ASSUME StreamMoves, UNCHANGED <<workerQueue, engineUser, streamUser>>,
             stream' = stream \/ stream' # "open"
      PROVE  HandoffInv'
  <2>1. StreamHasOwnersToken'
    BY <1>1 DEF StreamHasOwnersToken
  <2>. QED
    BY <1>1, <2>1, StreamMovesFacts, StreamMovesAlone
<1>2. CASE BackoffElapsed
  BY <1>1, <1>2 DEF BackoffElapsed, RequestCredentials, StreamMoves
<1>3. CASE StreamFails
  BY <1>1, <1>3, StartEffect DEF StreamFails, StreamMoves
<1>4. CASE WriteRejected
  BY <1>1, <1>4, StartEffect DEF WriteRejected, StreamMoves
<1>5. CASE IdleStop
  BY <1>1, <1>5 DEF IdleStop, StreamMoves, authVars
<1>6. CASE ConnectivityRestored
  <2>1. closeCount' = closeCount + 1
        \/ (closeCount' = closeCount /\ stream \in {"initial", "error"})
    BY <1>6 DEF ConnectivityRestored, RestartNetwork, Started, TypeOK, StreamStates
  <2>. QED
    BY <1>1, <1>6, <2>1, StartEffect DEF ConnectivityRestored, RestartNetwork, StreamMoves
<1>7. CASE WriteMutations
  <2>1. CASE Started
    BY <1>1, <1>7, <2>1 DEF WriteMutations, Started, StreamMoves
  <2>2. CASE ~Started
    <3>1. stream \in {"initial", "error"}
      BY <2>2 DEF Started, TypeOK, StreamStates
    <3>2. closeCount' = closeCount /\ StartIfNeeded(stream, engineUser, unsent', closeCount')
      BY <1>7, <2>2 DEF WriteMutations
    <3>. QED
      BY <1>1, <1>7, <3>1, <3>2, StartEffect DEF WriteMutations, StreamMoves
  <2>. QED
    BY <2>1, <2>2
<1>. QED
  BY <1>2, <1>3, <1>4, <1>5, <1>6, <1>7

\* The steps that take a block off the worker queue.
LEMMA WorkerStepKeepsInv ==
    ASSUME HandoffInv, TypeOK', Worker
    PROVE  HandoffInv'
<1> USE DEF HandoffInv
<1>1. /\ workerQueue # <<>>
      /\ workerQueue' = Tail(workerQueue)
      /\ UNCHANGED <<authUser, fetches, mainQueue, provider>>
  BY DEF Worker, HandleCredentialChange, DropResume, OpenStream, TokenFails, authVars
<1>2. /\ Len(workerQueue) \in Nat \ {0}
      /\ Len(workerQueue') = Len(workerQueue) - 1
      /\ \A i \in 1..Len(workerQueue') : workerQueue'[i] = workerQueue[i + 1]
      /\ Head(workerQueue) = workerQueue[1]
      /\ \A i \in 1..Len(workerQueue) : workerQueue[i] \in Change \cup Resume
  BY <1>1, TailFacts DEF TypeOK
<1>3. \A i \in 1..Len(workerQueue) : i > 1 =>
         i - 1 \in 1..Len(workerQueue') /\ workerQueue'[i - 1] = workerQueue[i]
  BY <1>2
<1>4. \A i \in 1..Len(workerQueue) :
         workerQueue[i].kind = "resume" =>
            /\ workerQueue[i].close \in Nat
            /\ workerQueue[i].close <= closeCount
            /\ stream \in {"initial", "error"} => workerQueue[i].close < closeCount
  BY <1>2 DEF RequestsArePast, IsPast, Change, Resume
<1>. closeCount \in Nat
  BY DEF TypeOK
<1>5. CASE HandleCredentialChange
  <2>1. IsChange(workerQueue[1]) /\ engineUser' = workerQueue[1].user
    BY <1>2, <1>5 DEF HandleCredentialChange, IsChange
  <2>2. closeCount' = closeCount + 1
        \/ (closeCount' = closeCount /\ stream \in {"initial", "error"})
    BY <1>5 DEF HandleCredentialChange, RestartNetwork, Started, TypeOK, StreamStates
  <2>3. StreamMoves /\ stream' # "open"
    BY <1>1, <1>5, <2>2, StartEffect DEF HandleCredentialChange, RestartNetwork, StreamMoves
  <2>4. ResumesAreOfEngine'
    <3>1. \A i \in 1..Len(workerQueue) :
            workerQueue[i].kind = "resume" => workerQueue[i].close < closeCount'
      BY <1>4, <2>2
    <3>2. \A i \in 1..Len(workerQueue') :
            workerQueue'[i].kind = "resume" => workerQueue'[i].close # closeCount'
      <4>1. SUFFICES ASSUME NEW i \in 1..Len(workerQueue'), workerQueue'[i].kind = "resume"
                     PROVE  workerQueue'[i].close # closeCount'
        OBVIOUS
      <4>2. i + 1 \in 1..Len(workerQueue) /\ workerQueue'[i] = workerQueue[i + 1]
        BY <1>2
      <4>3. workerQueue[i + 1].close < closeCount' /\ workerQueue[i + 1].close \in Nat
        BY <1>4, <3>1, <4>1, <4>2
      <4>. QED
        BY <2>2, <4>2, <4>3
    <3>. QED
      BY <3>2 DEF ResumesAreOfEngine
  <2>5. EngineTracksProvider'
    <3>1. (\A i \in 1..Len(workerQueue') : ~IsChange(workerQueue'[i]))
             => engineUser' = provider.user
      <4>1. SUFFICES ASSUME \A i \in 1..Len(workerQueue') : ~IsChange(workerQueue'[i])
                     PROVE  engineUser' = provider.user
        OBVIOUS
      <4>2. \A i \in 1..Len(workerQueue) : i > 1 => ~IsChange(workerQueue[i])
        BY <1>3, <4>1
      <4>. QED
        BY <1>2, <2>1, <4>2 DEF EngineTracksProvider
    <3>2. ASSUME NEW i \in 1..Len(workerQueue'), IsChange(workerQueue'[i]),
                 \A j \in 1..Len(workerQueue') : j > i => ~IsChange(workerQueue'[j])
          PROVE  workerQueue'[i].user = provider.user
      <4>1. \A j \in 1..Len(workerQueue) : j > i + 1 => ~IsChange(workerQueue[j])
        BY <1>2, <1>3, <3>2
      <4>. QED
        BY <1>2, <3>2, <4>1 DEF EngineTracksProvider
    <3>. QED
      BY <1>1, <3>1, <3>2 DEF EngineTracksProvider, IsChange
  <2>. QED
    BY <2>3, <2>4, <2>5, StreamMovesFacts DEF StreamHasOwnersToken
<1>6. ASSUME workerQueue[1].kind = "resume", UNCHANGED engineUser
      PROVE  EngineTracksProvider'
  <2>1. ~IsChange(workerQueue[1])
    BY <1>6 DEF IsChange
  <2>2. (\A i \in 1..Len(workerQueue') : ~IsChange(workerQueue'[i]))
           => engineUser = provider.user
    <3>1. SUFFICES ASSUME \A i \in 1..Len(workerQueue') : ~IsChange(workerQueue'[i])
                   PROVE  engineUser = provider.user
      OBVIOUS
    <3>2. \A i \in 1..Len(workerQueue) : i > 1 => ~IsChange(workerQueue[i])
      BY <1>3, <3>1
    <3>. QED
      BY <1>2, <2>1, <3>2 DEF EngineTracksProvider
  <2>3. ASSUME NEW i \in 1..Len(workerQueue'), IsChange(workerQueue'[i]),
               \A j \in 1..Len(workerQueue') : j > i => ~IsChange(workerQueue'[j])
        PROVE  workerQueue'[i].user = provider.user
    <3>1. \A j \in 1..Len(workerQueue) : j > i + 1 => ~IsChange(workerQueue[j])
      BY <1>2, <1>3, <2>3
    <3>. QED
      BY <1>2, <2>3, <3>1 DEF EngineTracksProvider
  <2>. QED
    BY <1>1, <1>6, <2>2, <2>3 DEF EngineTracksProvider, IsChange
<1>7. ASSUME workerQueue[1].kind = "resume", UNCHANGED <<engineUser, closeCount>>
      PROVE  ResumesAreOfEngine'
  <2>1. SUFFICES ASSUME NEW i \in 1..Len(workerQueue'), workerQueue'[i].kind = "resume",
                        workerQueue'[i].close = closeCount, workerQueue'[i].user # engineUser
                 PROVE  \E j \in 1..Len(workerQueue') : j < i /\ IsChange(workerQueue'[j])
    BY <1>7 DEF ResumesAreOfEngine, IsChange
  <2>2. PICK j \in 1..Len(workerQueue) : j < i + 1 /\ IsChange(workerQueue[j])
    BY <1>2, <2>1 DEF ResumesAreOfEngine
  <2>3. j > 1
    BY <1>2, <1>7, <2>2 DEF IsChange
  <2>4. j - 1 \in 1..Len(workerQueue') /\ j - 1 < i
    BY <1>2, <1>3, <2>2, <2>3
  <2>5. workerQueue'[j - 1] = workerQueue[j]
    BY <1>3, <2>2, <2>3, <2>4
  <2>. QED
    BY <2>2, <2>4, <2>5
<1>8. CASE DropResume
  <2>1. StreamMoves /\ UNCHANGED <<engineUser, streamUser, stream, closeCount>>
    BY <1>1, <1>8 DEF DropResume, StreamMoves, authVars, workerVars, TypeOK, StreamStates
  <2>. QED
    BY <1>2, <1>6, <1>7, <1>8, <2>1, StreamMovesFacts DEF DropResume, StreamHasOwnersToken
<1>9. CASE OpenStream
  <2>1. workerQueue[1].kind = "resume" /\ workerQueue[1].close = closeCount
    BY <1>2, <1>9 DEF OpenStream, ResumeIsCurrent
  <2>2. workerQueue[1].user = engineUser
    BY <1>2, <2>1 DEF ResumesAreOfEngine
  <2>3. StreamMoves
    BY <1>1, <1>9 DEF OpenStream, StreamMoves, authVars
  <2>4. StreamHasOwnersToken'
    BY <1>2, <1>9, <2>2 DEF OpenStream, StreamHasOwnersToken
  <2>5. UNCHANGED <<engineUser, closeCount>>
    BY <1>9 DEF OpenStream
  <2>. QED
    BY <1>6, <1>7, <2>1, <2>3, <2>4, <2>5, StreamMovesFacts
<1>10. CASE TokenFails
  <2>1. workerQueue[1].kind = "resume" /\ closeCount' = closeCount + 1
        /\ UNCHANGED <<engineUser, streamUser>>
    BY <1>2, <1>10 DEF TokenFails
  <2>2. StreamMoves /\ stream' # "open"
    BY <1>1, <1>10, <2>1, StartEffect DEF TokenFails, StreamMoves
  <2>3. ResumesAreOfEngine'
    <3>1. \A i \in 1..Len(workerQueue') :
            workerQueue'[i].kind = "resume" => workerQueue'[i].close # closeCount'
      <4>1. SUFFICES ASSUME NEW i \in 1..Len(workerQueue'), workerQueue'[i].kind = "resume"
                     PROVE  workerQueue'[i].close # closeCount'
        OBVIOUS
      <4>2. i + 1 \in 1..Len(workerQueue) /\ workerQueue'[i] = workerQueue[i + 1]
        BY <1>2
      <4>. QED
        BY <1>4, <2>1, <4>1, <4>2
    <3>. QED
      BY <3>1 DEF ResumesAreOfEngine
  <2>. QED
    BY <1>6, <2>1, <2>2, <2>3, StreamMovesFacts DEF StreamHasOwnersToken
<1>. QED
  BY <1>5, <1>8, <1>9, <1>10 DEF Worker

\* The steps of FirebaseAuth: only the main queue's tail, the requests and the
\* tokens read change.
LEMMA AuthStepKeepsInv ==
    ASSUME HandoffInv, TypeOK',
           AuthQueue \/ \E u \in Accounts : UpdateCurrentUser(u)
    PROVE  HandoffInv'
<1> USE DEF HandoffInv
<1>1. /\ UNCHANGED <<provider, workerQueue, engineUser, stream, streamUser, closeCount>>
      /\ EngineTracksProvider' /\ ResumesAreOfEngine' /\ StreamHasOwnersToken'
  <2>1. UNCHANGED <<provider, workerQueue, engineUser, stream, streamUser, closeCount>>
    BY DEF AuthQueue, GetTokenForcingRefresh, PostToken, UpdateCurrentUser, workerVars
  <2>. QED
    BY <2>1 DEF EngineTracksProvider, ResumesAreOfEngine, StreamHasOwnersToken, IsChange
<1>2. CASE mainQueue' = mainQueue /\ UNCHANGED <<authUser, asks, fetches>>
  BY <1>1, <1>2 DEF ProviderTracksAuth, RequestsArePast, CountersArePast,
                    FetchesAreOfProvider, AnswersAreOfProvider
<1>3. ASSUME NEW u \in Accounts, UpdateCurrentUser(u) PROVE HandoffInv'
  <2>1. UNCHANGED <<asks, fetches>>
    BY <1>3 DEF UpdateCurrentUser
  <2>2. CASE ~AuthStateChanges(u)
    BY <1>2, <1>3, <2>2 DEF UpdateCurrentUser, AuthStateChanges
  <2>3. CASE AuthStateChanges(u)
    <3> DEFINE n == [kind |-> "notify", user |-> u]
    <3>1. /\ Len(mainQueue) \in Nat /\ Len(mainQueue') = Len(mainQueue) + 1
          /\ \A i \in 1..Len(mainQueue) : mainQueue'[i] = mainQueue[i]
          /\ mainQueue'[Len(mainQueue) + 1] = n
      <4>1. n \in Notify \cup Answer /\ mainQueue \in Seq(Notify \cup Answer)
        BY DEF Notify, TypeOK
      <4>. QED
        BY <1>3, <2>3, <4>1, AppendFacts DEF UpdateCurrentUser
    <3>2. n.kind = "notify" /\ n.kind # "token" /\ n.user = u /\ authUser' = u
      BY <1>3 DEF UpdateCurrentUser
    <3>. HIDE DEF n
    <3>3. \A i \in 1..Len(mainQueue') :
             i \in 1..Len(mainQueue) \/ (i = Len(mainQueue) + 1 /\ mainQueue'[i] = n)
      BY <3>1
    <3>4. ProviderTracksAuth'
      <4>1. Len(mainQueue) + 1 \in 1..Len(mainQueue') /\ IsNotify(mainQueue'[Len(mainQueue) + 1])
        BY <3>1, <3>2 DEF IsNotify
      <4>2. \A i \in 1..Len(mainQueue') : i <= Len(mainQueue) => Len(mainQueue) + 1 > i
        BY <3>1
      <4>. QED
        BY <3>1, <3>2, <3>3, <4>1, <4>2 DEF ProviderTracksAuth, IsNotify
    <3>5. RequestsArePast' /\ CountersArePast'
      BY <1>1, <2>1, <3>1, <3>2, <3>3 DEF RequestsArePast, CountersArePast
    <3>6. FetchesAreOfProvider' /\ AnswersAreOfProvider'
      BY <1>1, <2>1, <3>1, <3>2, <3>3 DEF FetchesAreOfProvider, AnswersAreOfProvider, IsNotify
    <3>. QED
      BY <1>1, <3>4, <3>5, <3>6
  <2>. QED
    BY <2>2, <2>3
<1>4. CASE GetTokenForcingRefresh
  <2> DEFINE new == [user |-> authUser, counter |-> asks[1].counter, close |-> asks[1].close]
  <2>1. /\ Len(asks) \in Nat \ {0} /\ Len(asks') = Len(asks) - 1
        /\ \A i \in 1..Len(asks') : asks'[i] = asks[i + 1]
        /\ fetches' = fetches \cup {new}
        /\ UNCHANGED <<authUser, mainQueue>>
    BY <1>4, TailFacts DEF GetTokenForcingRefresh, TypeOK
  <2>2. /\ new.user = authUser
        /\ IsPast(new.close, closeCount, stream) /\ new.counter <= provider.counter
    BY <2>1 DEF RequestsArePast, CountersArePast
  <2>. HIDE DEF new
  <2>3. ProviderTracksAuth' /\ AnswersAreOfProvider'
    BY <1>1, <2>1 DEF ProviderTracksAuth, AnswersAreOfProvider, IsNotify
  <2>4. RequestsArePast' /\ CountersArePast'
    BY <1>1, <2>1, <2>2 DEF RequestsArePast, CountersArePast
  <2>5. FetchesAreOfProvider'
    BY <1>1, <2>1, <2>2 DEF FetchesAreOfProvider, ProviderTracksAuth, IsNotify
  <2>. QED
    BY <1>1, <2>3, <2>4, <2>5
<1>5. ASSUME NEW f \in fetches, NEW ok \in BOOLEAN, PostToken(f, ok) PROVE HandoffInv'
  <2> DEFINE a == [kind |-> "token", user |-> f.user, counter |-> f.counter,
                   close |-> f.close, ok |-> ok]
  <2>1. /\ Len(mainQueue) \in Nat /\ Len(mainQueue') = Len(mainQueue) + 1
        /\ \A i \in 1..Len(mainQueue) : mainQueue'[i] = mainQueue[i]
        /\ mainQueue'[Len(mainQueue) + 1] = a
    <3>1. a \in Notify \cup Answer /\ mainQueue \in Seq(Notify \cup Answer)
      BY DEF Answer, Fetch, TypeOK
    <3>. QED
      BY <1>5, <3>1, AppendFacts DEF PostToken
  <2>2. /\ a.kind = "token" /\ ~IsNotify(a) /\ a.user = f.user
        /\ a.counter = f.counter /\ a.close = f.close
    BY DEF IsNotify
  <2>3. fetches' = fetches \ {f} /\ UNCHANGED <<authUser, asks>>
    BY <1>5 DEF PostToken
  <2>. HIDE DEF a
  <2>4. \A i \in 1..Len(mainQueue') :
           i \in 1..Len(mainQueue) \/ (i = Len(mainQueue) + 1 /\ mainQueue'[i] = a)
    BY <2>1
  <2>5. 1..Len(mainQueue) \subseteq 1..Len(mainQueue')
    BY <2>1
  <2>6. ProviderTracksAuth'
    BY <1>1, <2>1, <2>2, <2>3, <2>4, <2>5 DEF ProviderTracksAuth, IsNotify
  <2>7. RequestsArePast' /\ CountersArePast'
    BY <1>1, <2>1, <2>2, <2>3, <2>4 DEF RequestsArePast, CountersArePast
  <2>8. FetchesAreOfProvider'
    BY <1>1, <2>1, <2>3, <2>5 DEF FetchesAreOfProvider, IsNotify
  <2>9. AnswersAreOfProvider'
    <3>1. ASSUME NEW i \in 1..Len(mainQueue'), mainQueue'[i].kind = "token",
                 mainQueue'[i].counter = provider.counter, mainQueue'[i].user # provider.user
          PROVE  \E j \in 1..Len(mainQueue') : j < i /\ IsNotify(mainQueue'[j])
      <4>1. CASE i \in 1..Len(mainQueue)
        BY <2>1, <2>5, <3>1, <4>1 DEF AnswersAreOfProvider
      <4>2. CASE i = Len(mainQueue) + 1 /\ mainQueue'[i] = a
        <5>1. PICK j \in 1..Len(mainQueue) : IsNotify(mainQueue[j])
          BY <2>2, <3>1, <4>2 DEF FetchesAreOfProvider
        <5>. QED
          BY <2>1, <2>5, <4>2, <5>1
      <4>. QED
        BY <2>4, <4>1, <4>2
    <3>. QED
      BY <1>1, <3>1 DEF AnswersAreOfProvider, IsNotify
  <2>. QED
    BY <1>1, <2>6, <2>7, <2>8, <2>9
<1>. QED
  BY <1>3, <1>4, <1>5 DEF AuthQueue

\* The steps that run a block of the main queue.
LEMMA MainStepKeepsInv ==
    ASSUME HandoffInv, TypeOK', MainQueue
    PROVE  HandoffInv'
<1> USE DEF HandoffInv
<1>1. /\ mainQueue # <<>>
      /\ mainQueue' = Tail(mainQueue)
      /\ UNCHANGED <<authUser, fetches, engineUser, stream, streamUser, closeCount>>
  BY DEF MainQueue, RunNotification, AcceptToken, RetryToken, authVars, workerVars
<1>2. /\ Len(mainQueue) \in Nat \ {0}
      /\ Len(mainQueue') = Len(mainQueue) - 1
      /\ \A i \in 1..Len(mainQueue') : mainQueue'[i] = mainQueue[i + 1]
      /\ Head(mainQueue) = mainQueue[1]
      /\ \A i \in 1..Len(mainQueue) : mainQueue[i] \in Notify \cup Answer
  BY <1>1, TailFacts DEF TypeOK
<1>3. \A i \in 1..Len(mainQueue) : i > 1 =>
         i - 1 \in 1..Len(mainQueue') /\ mainQueue'[i - 1] = mainQueue[i]
  BY <1>2
<1>4. \A i \in 1..Len(mainQueue') : i + 1 \in 1..Len(mainQueue)
  BY <1>2
<1>5. StreamHasOwnersToken'
  BY <1>1 DEF StreamHasOwnersToken
<1>6. ASSUME UNCHANGED workerQueue PROVE RequestsArePast' <=>
         \A i \in 1..Len(asks') : IsPast(asks'[i].close, closeCount, stream)
  BY <1>1, <1>2, <1>4, <1>6 DEF RequestsArePast
<1>7. CASE RunNotification
  <2> DEFINE c == [kind |-> "credential", user |-> mainQueue[1].user]
  <2>1. /\ IsNotify(mainQueue[1])
        /\ provider'.user = mainQueue[1].user /\ provider'.counter = provider.counter + 1
        /\ UNCHANGED asks
    BY <1>2, <1>7 DEF RunNotification, IsNotify, authVars
  <2>2. /\ Len(workerQueue) \in Nat /\ Len(workerQueue') = Len(workerQueue) + 1
        /\ \A i \in 1..Len(workerQueue) : workerQueue'[i] = workerQueue[i]
        /\ workerQueue'[Len(workerQueue) + 1] = c
    <3>1. c \in Change \cup Resume /\ workerQueue \in Seq(Change \cup Resume)
      BY <1>2, <2>1 DEF Change, TypeOK, Notify, Answer, IsNotify
    <3>. QED
      BY <1>2, <1>7, <3>1, AppendFacts DEF RunNotification
  <2>3. IsChange(c) /\ c.kind # "resume" /\ c.user = provider'.user
    BY <2>1 DEF IsChange
  <2>. HIDE DEF c
  <2>4. \A i \in 1..Len(workerQueue') :
           i \in 1..Len(workerQueue) \/ (i = Len(workerQueue) + 1 /\ workerQueue'[i] = c)
    BY <2>2
  <2>5. 1..Len(workerQueue) \subseteq 1..Len(workerQueue')
    BY <2>2
  <2>6. ProviderTracksAuth'
    <3>1. (\A i \in 1..Len(mainQueue') : ~IsNotify(mainQueue'[i])) => provider'.user = authUser
      <4>1. SUFFICES ASSUME \A i \in 1..Len(mainQueue') : ~IsNotify(mainQueue'[i])
                     PROVE  provider'.user = authUser
        OBVIOUS
      <4>2. \A i \in 1..Len(mainQueue) : i > 1 => ~IsNotify(mainQueue[i])
        BY <1>3, <4>1
      <4>. QED
        BY <1>2, <2>1, <4>2 DEF ProviderTracksAuth
    <3>2. ASSUME NEW i \in 1..Len(mainQueue'), IsNotify(mainQueue'[i]),
                 \A j \in 1..Len(mainQueue') : j > i => ~IsNotify(mainQueue'[j])
          PROVE  mainQueue'[i].user = authUser
      <4>1. \A j \in 1..Len(mainQueue) : j > i + 1 => ~IsNotify(mainQueue[j])
        BY <1>2, <1>3, <3>2
      <4>. QED
        BY <1>2, <1>4, <3>2, <4>1 DEF ProviderTracksAuth
    <3>. QED
      BY <1>1, <3>1, <3>2 DEF ProviderTracksAuth, IsNotify
  <2>7. EngineTracksProvider'
    <3>1. /\ Len(workerQueue) + 1 \in 1..Len(workerQueue')
          /\ IsChange(workerQueue'[Len(workerQueue) + 1])
      BY <2>2, <2>3
    <3>2. \A i \in 1..Len(workerQueue') : i <= Len(workerQueue) => Len(workerQueue) + 1 > i
      BY <2>2
    <3>. QED
      BY <2>2, <2>3, <2>4, <3>1, <3>2 DEF EngineTracksProvider, IsChange
  <2>8. RequestsArePast'
    BY <1>1, <1>2, <1>4, <2>1, <2>2, <2>3, <2>4 DEF RequestsArePast
  <2>9. /\ \A i \in 1..Len(asks) : asks[i].counter < provider'.counter
        /\ \A f \in fetches : f.counter < provider'.counter
        /\ \A i \in 1..Len(mainQueue) :
              mainQueue[i].kind = "token" => mainQueue[i].counter < provider'.counter
    <3>1. provider.counter \in Nat
      BY DEF TypeOK
    <3>2. \A i \in 1..Len(asks) : asks[i] \in Ask
      BY DEF TypeOK
    <3>3. \A i \in 1..Len(asks) : asks[i].counter \in Nat
      BY <3>2 DEF Ask
    <3>4. \A f \in fetches : f.counter \in Nat
      BY DEF Fetch, TypeOK
    <3>5. \A i \in 1..Len(mainQueue) : mainQueue[i].kind = "token" => mainQueue[i].counter \in Nat
      BY <1>2 DEF Notify, Answer
    <3>. QED
      BY <2>1, <3>1, <3>3, <3>4, <3>5 DEF CountersArePast
  <2>10. \A n \in Nat : n < provider'.counter => n <= provider'.counter /\ n # provider'.counter
    BY <2>1 DEF TypeOK
  <2>11. /\ \A i \in 1..Len(asks) : asks[i].counter \in Nat
         /\ \A f \in fetches : f.counter \in Nat
         /\ \A i \in 1..Len(mainQueue) : mainQueue[i].kind = "token" => mainQueue[i].counter \in Nat
    <3>1. \A i \in 1..Len(asks) : asks[i] \in Ask
      BY DEF TypeOK
    <3>2. \A f \in fetches : f \in Fetch
      BY DEF TypeOK
    <3>. QED
      BY <1>2, <3>1, <3>2 DEF Ask, Fetch, Notify, Answer
  <2>12. CountersArePast'
    BY <1>1, <1>2, <1>4, <2>1, <2>9, <2>10, <2>11 DEF CountersArePast
  <2>13. FetchesAreOfProvider' /\ AnswersAreOfProvider'
    BY <1>1, <1>2, <1>4, <2>9, <2>10, <2>11 DEF FetchesAreOfProvider, AnswersAreOfProvider
  <2>14. ResumesAreOfEngine'
    BY <1>1, <2>2, <2>3, <2>4, <2>5 DEF ResumesAreOfEngine, IsChange
  <2>. QED
    BY <1>5, <2>6, <2>7, <2>8, <2>12, <2>13, <2>14
<1>8. ASSUME mainQueue[1].kind = "token", UNCHANGED provider
      PROVE  /\ ProviderTracksAuth' /\ FetchesAreOfProvider' /\ AnswersAreOfProvider'
             /\ \A i \in 1..Len(mainQueue') :
                   mainQueue'[i].kind = "token" => mainQueue'[i].counter <= provider.counter
  <2>1. ~IsNotify(mainQueue[1])
    BY <1>8 DEF IsNotify
  <2>2. ASSUME NEW j \in 1..Len(mainQueue), IsNotify(mainQueue[j])
        PROVE  j > 1 /\ j - 1 \in 1..Len(mainQueue') /\ IsNotify(mainQueue'[j - 1])
    <3>1. j > 1
      BY <1>2, <2>1, <2>2
    <3>. QED
      BY <1>3, <2>2, <3>1
  <2>3. (\A i \in 1..Len(mainQueue') : ~IsNotify(mainQueue'[i])) => provider.user = authUser
    BY <2>2 DEF ProviderTracksAuth
  <2>4. ASSUME NEW i \in 1..Len(mainQueue'), IsNotify(mainQueue'[i]),
               \A j \in 1..Len(mainQueue') : j > i => ~IsNotify(mainQueue'[j])
        PROVE  mainQueue'[i].user = authUser
    <3>1. \A j \in 1..Len(mainQueue) : j > i + 1 => ~IsNotify(mainQueue[j])
      BY <1>2, <1>3, <2>4
    <3>. QED
      BY <1>2, <1>4, <2>4, <3>1 DEF ProviderTracksAuth
  <2>5. ProviderTracksAuth'
    BY <1>1, <1>8, <2>3, <2>4 DEF ProviderTracksAuth, IsNotify
  <2>6. FetchesAreOfProvider'
    BY <1>1, <1>8, <2>2 DEF FetchesAreOfProvider, IsNotify
  <2>7. AnswersAreOfProvider'
    <3>1. ASSUME NEW i \in 1..Len(mainQueue'), mainQueue'[i].kind = "token",
                 mainQueue'[i].counter = provider.counter, mainQueue'[i].user # provider.user
          PROVE  \E j \in 1..Len(mainQueue') : j < i /\ IsNotify(mainQueue'[j])
      <4>1. PICK j \in 1..Len(mainQueue) : j < i + 1 /\ IsNotify(mainQueue[j])
        BY <1>2, <1>4, <3>1 DEF AnswersAreOfProvider
      <4>. QED
        BY <2>2, <4>1
    <3>. QED
      BY <1>8, <3>1 DEF AnswersAreOfProvider, IsNotify
  <2>. QED
    BY <1>2, <1>4, <2>5, <2>6, <2>7 DEF CountersArePast
<1>9. CASE AcceptToken
  <2> DEFINE r == [kind |-> "resume", user |-> mainQueue[1].user,
                   close |-> mainQueue[1].close, ok |-> mainQueue[1].ok]
  <2>1. /\ mainQueue[1].kind = "token" /\ mainQueue[1].counter = provider.counter
        /\ UNCHANGED <<asks, provider>>
    BY <1>2, <1>9 DEF AcceptToken, TokenIsFresh, authVars
  <2>2. mainQueue[1].user = provider.user
    BY <1>2, <2>1 DEF AnswersAreOfProvider
  <2>3. /\ Len(workerQueue) \in Nat /\ Len(workerQueue') = Len(workerQueue) + 1
        /\ \A i \in 1..Len(workerQueue) : workerQueue'[i] = workerQueue[i]
        /\ workerQueue'[Len(workerQueue) + 1] = r
    <3>1. r \in Change \cup Resume /\ workerQueue \in Seq(Change \cup Resume)
      BY <1>2, <2>1 DEF Resume, TypeOK, Notify, Answer
    <3>. QED
      BY <1>2, <1>9, <3>1, AppendFacts DEF AcceptToken
  <2>4. ~IsChange(r) /\ r.user = provider.user /\ r.close = mainQueue[1].close
    BY <2>2 DEF IsChange
  <2>5. IsPast(r.close, closeCount, stream)
    BY <1>2, <2>1, <2>4 DEF RequestsArePast
  <2>. HIDE DEF r
  <2>6. \A i \in 1..Len(workerQueue') :
           i \in 1..Len(workerQueue) \/ (i = Len(workerQueue) + 1 /\ workerQueue'[i] = r)
    BY <2>3
  <2>7. 1..Len(workerQueue) \subseteq 1..Len(workerQueue')
    BY <2>3
  <2>8. RequestsArePast'
    BY <1>1, <1>2, <1>4, <2>1, <2>3, <2>5, <2>6 DEF RequestsArePast
  <2>9. CountersArePast'
    BY <1>1, <1>8, <2>1 DEF CountersArePast
  <2>10. EngineTracksProvider'
    BY <1>1, <2>1, <2>3, <2>4, <2>6, <2>7 DEF EngineTracksProvider, IsChange
  <2>11. ResumesAreOfEngine'
    <3>1. ASSUME NEW i \in 1..Len(workerQueue'), workerQueue'[i].kind = "resume",
                 workerQueue'[i].close = closeCount, workerQueue'[i].user # engineUser
          PROVE  \E j \in 1..Len(workerQueue') : j < i /\ IsChange(workerQueue'[j])
      <4>1. CASE i \in 1..Len(workerQueue)
        BY <2>3, <2>7, <3>1, <4>1 DEF ResumesAreOfEngine
      <4>2. CASE i = Len(workerQueue) + 1 /\ workerQueue'[i] = r
        <5>1. PICK j \in 1..Len(workerQueue) : IsChange(workerQueue[j])
          BY <2>4, <3>1, <4>2 DEF EngineTracksProvider
        <5>. QED
          BY <2>3, <2>7, <4>2, <5>1
      <4>. QED
        BY <2>6, <4>1, <4>2
    <3>. QED
      BY <1>1, <3>1 DEF ResumesAreOfEngine, IsChange
  <2>. QED
    BY <1>5, <1>8, <2>1, <2>8, <2>9, <2>10, <2>11
<1>10. CASE RetryToken
  <2> DEFINE new == [counter |-> provider.counter, close |-> mainQueue[1].close]
  <2>1. mainQueue[1].kind = "token" /\ UNCHANGED <<provider, workerQueue>>
    BY <1>2, <1>10 DEF RetryToken
  <2>2. /\ Len(asks) \in Nat /\ Len(asks') = Len(asks) + 1
        /\ \A i \in 1..Len(asks) : asks'[i] = asks[i]
        /\ asks'[Len(asks) + 1] = new
    <3>1. new \in Ask /\ asks \in Seq(Ask)
      BY <1>2, <2>1 DEF Ask, TypeOK, Notify, Answer
    <3>. QED
      BY <1>2, <1>10, <3>1, AppendFacts DEF RetryToken, RequestCredentials
  <2>3. IsPast(new.close, closeCount, stream) /\ new.counter <= provider.counter
    BY <1>2, <2>1 DEF RequestsArePast, TypeOK
  <2>. HIDE DEF new
  <2>4. \A i \in 1..Len(asks') :
           i \in 1..Len(asks) \/ (i = Len(asks) + 1 /\ asks'[i] = new)
    BY <2>2
  <2>5. RequestsArePast'
    BY <1>6, <2>1, <2>2, <2>3, <2>4 DEF RequestsArePast
  <2>6. CountersArePast'
    BY <1>1, <1>8, <2>1, <2>2, <2>3, <2>4 DEF CountersArePast
  <2>7. EngineTracksProvider' /\ ResumesAreOfEngine'
    BY <1>1, <2>1 DEF EngineTracksProvider, ResumesAreOfEngine, IsChange
  <2>. QED
    BY <1>5, <1>8, <2>1, <2>5, <2>6, <2>7
<1>. QED
  BY <1>7, <1>9, <1>10 DEF MainQueue

LEMMA NextHandoffInv == HandoffInv /\ [Next]_vars => HandoffInv'
<1> SUFFICES ASSUME HandoffInv, [Next]_vars PROVE HandoffInv'
  OBVIOUS
<1>1. TypeOK'
  BY NextTypeOK DEF HandoffInv
<1>2. ASSUME UNCHANGED <<authUser, asks, fetches, mainQueue, provider, workerQueue,
                          engineUser, stream, streamUser, closeCount>>
      PROVE  HandoffInv'
  <2>1. ProviderTracksAuth'
    BY <1>2 DEF HandoffInv, ProviderTracksAuth, IsNotify
  <2>2. EngineTracksProvider'
    BY <1>2 DEF HandoffInv, EngineTracksProvider, IsChange
  <2>3. RequestsArePast' /\ CountersArePast'
    BY <1>2 DEF HandoffInv, RequestsArePast, CountersArePast, IsPast
  <2>4. FetchesAreOfProvider' /\ AnswersAreOfProvider'
    BY <1>2 DEF HandoffInv, FetchesAreOfProvider, AnswersAreOfProvider, IsNotify
  <2>5. ResumesAreOfEngine'
    BY <1>2 DEF HandoffInv, ResumesAreOfEngine, IsChange
  <2>6. StreamHasOwnersToken'
    BY <1>2 DEF HandoffInv, StreamHasOwnersToken
  <2>. QED
    BY <1>1, <2>1, <2>2, <2>3, <2>4, <2>5, <2>6 DEF HandoffInv
<1>3. CASE UNCHANGED vars
  BY <1>2, <1>3 DEF vars, authVars, workerVars
<1>4. CASE DrainQueue
  BY <1>2, <1>4 DEF DrainQueue, authVars
<1>. QED
  BY <1>1, <1>3, <1>4, AuthStepKeepsInv, MainStepKeepsInv, WorkerStepKeepsInv,
     StreamStepKeepsInv DEF Next

\* Whatever the accounts and however often they change, the write stream is
\* only open with a token of the account whose mutation queue it drains:
\* GetToken's counter and the stream's close count suffice.
THEOREM OwnersToken == Spec => []StreamHasOwnersToken
<1>1. HandoffInv => StreamHasOwnersToken
  BY DEF HandoffInv
<1>. QED
  BY <1>1, InitHandoffInv, NextHandoffInv, PTL DEF Spec

\* Once both queues are free of user changes, the sync engine works for the
\* user FirebaseAuth reports.
THEOREM EngineCatchesUp == Spec => []EngineFollowsAuth
<1>1. HandoffInv => EngineFollowsAuth
  BY DEF HandoffInv, EngineFollowsAuth, ProviderTracksAuth, EngineTracksProvider,
         IsNotify, IsChange
<1>. QED
  BY <1>1, InitHandoffInv, NextHandoffInv, PTL DEF Spec

-----------------------------------------------------------------------------
(* One request for each start of the stream                                *)

AsksOf(close)    == {j \in 1..Len(asks) : asks[j].close = close}
FetchesOf(close) == {g \in fetches : g.close = close}
AnswersOf(close) == {j \in 1..Len(mainQueue) :
                        mainQueue[j].kind = "token" /\ mainQueue[j].close = close}
ResumesOf(close) == {j \in 1..Len(workerQueue) :
                        workerQueue[j].kind = "resume" /\ workerQueue[j].close = close}

NoRequest(close) ==
    AsksOf(close) = {} /\ FetchesOf(close) = {} /\ AnswersOf(close) = {} /\ ResumesOf(close) = {}

Single(S) == \A x, y \in S : x = y

\* At most one request, wherever it is on its way through the three queues.
AtMostOne(a, f, m, w) ==
    /\ Single(a) /\ Single(f) /\ Single(m) /\ Single(w)
    /\ a # {} => f = {} /\ m = {} /\ w = {}
    /\ f # {} => m = {} /\ w = {}
    /\ m # {} => w = {}

OneRequest ==
    IF stream = "starting"
      THEN /\ ~NoRequest(closeCount)
           /\ AtMostOne(AsksOf(closeCount), FetchesOf(closeCount),
                        AnswersOf(closeCount), ResumesOf(closeCount))
      ELSE NoRequest(closeCount)

\* One place in one of the four sets is one element of their union.
LEMMA OneRequestSuffices == OneRequest => OneRequestWhileStarting
<1> SUFFICES ASSUME OneRequest PROVE OneRequestWhileStarting
  OBVIOUS
<1> DEFINE A == AsksOf(closeCount)
           F == FetchesOf(closeCount)
           M == AnswersOf(closeCount)
           W == ResumesOf(closeCount)
<1>1. RequestsOf(closeCount) = {<<"ask", i>> : i \in A} \cup {<<"fetch", f>> : f \in F}
                                 \cup {<<"main", i>> : i \in M} \cup {<<"worker", i>> : i \in W}
  BY Zenon DEF RequestsOf, AsksOf, FetchesOf, AnswersOf, ResumesOf
<1>2. IF stream = "starting"
        THEN ~(A = {} /\ F = {} /\ M = {} /\ W = {}) /\ AtMostOne(A, F, M, W)
        ELSE A = {} /\ F = {} /\ M = {} /\ W = {}
  BY Zenon DEF OneRequest, NoRequest
<1>. HIDE DEF A, F, M, W
<1>3. CASE stream # "starting"
  BY <1>1, <1>2, <1>3 DEF OneRequestWhileStarting
<1>4. CASE stream = "starting"
  <2>1. CASE A # {}
    <3>1. PICK i \in A : A = {i}
      BY <1>2, <1>4, <2>1 DEF AtMostOne, Single
    <3>2. RequestsOf(closeCount) = {<<"ask", i>>}
      BY <1>1, <1>2, <1>4, <3>1 DEF AtMostOne
    <3>. QED
      BY <1>4, <3>2 DEF OneRequestWhileStarting
  <2>2. CASE F # {}
    <3>1. PICK f \in F : F = {f}
      BY <1>2, <1>4, <2>2 DEF AtMostOne, Single
    <3>2. RequestsOf(closeCount) = {<<"fetch", f>>}
      BY <1>1, <1>2, <1>4, <3>1 DEF AtMostOne
    <3>. QED
      BY <1>4, <3>2 DEF OneRequestWhileStarting
  <2>3. CASE M # {}
    <3>1. PICK i \in M : M = {i}
      BY <1>2, <1>4, <2>3 DEF AtMostOne, Single
    <3>2. RequestsOf(closeCount) = {<<"main", i>>}
      BY <1>1, <1>2, <1>4, <3>1 DEF AtMostOne
    <3>. QED
      BY <1>4, <3>2 DEF OneRequestWhileStarting
  <2>4. CASE W # {}
    <3>1. PICK i \in W : W = {i}
      BY <1>2, <1>4, <2>4 DEF AtMostOne, Single
    <3>2. RequestsOf(closeCount) = {<<"worker", i>>}
      BY <1>1, <1>2, <1>4, <3>1 DEF AtMostOne
    <3>. QED
      BY <1>4, <3>2 DEF OneRequestWhileStarting
  <2>. QED
    BY <1>2, <1>4, <2>1, <2>2, <2>3, <2>4
<1>. QED
  BY <1>3, <1>4

\* When the head leaves a queue, the places of the others move up: the set of
\* places stays as large, unless the first place was among them.
LEMMA PlacesMoveUp ==
    ASSUME NEW n \in Nat \ {0}, NEW S \in SUBSET (1..n), NEW T \in SUBSET (1..(n - 1)),
           \A x \in 1..(n - 1) : x \in T <=> x + 1 \in S
    PROVE  /\ Single(S) => Single(T)
           /\ Single(S) /\ 1 \in S => T = {}
           /\ 1 \notin S => (T = {} <=> S = {})
<1>1. \A x \in T : x + 1 \in S /\ x \in Nat \ {0}
  OBVIOUS
<1>2. Single(S) => Single(T)
  <2>1. SUFFICES ASSUME Single(S), NEW x \in T, NEW y \in T PROVE x = y
    BY DEF Single
  <2>2. x + 1 = y + 1
    BY <1>1, <2>1 DEF Single
  <2>. QED
    BY <1>1, <2>2
<1>3. Single(S) /\ 1 \in S => T = {}
  <2>1. SUFFICES ASSUME Single(S), 1 \in S, NEW x \in T PROVE FALSE
    OBVIOUS
  <2>2. x + 1 = 1
    BY <1>1, <2>1 DEF Single
  <2>. QED
    BY <1>1, <2>2
<1>4. ASSUME 1 \notin S, NEW y \in S PROVE T # {}
  <2>1. y - 1 \in 1..(n - 1) /\ (y - 1) + 1 = y
    BY <1>4
  <2>. QED
    BY <1>4, <2>1
<1>. QED
  BY <1>1, <1>2, <1>3, <1>4

\* The places in the tail of each queue.
LEMMA TailPlaces ==
    ASSUME TypeOK, NEW close
    PROVE  /\ asks # <<>> /\ asks' = Tail(asks) =>
                /\ Single(AsksOf(close)) => Single(AsksOf(close)')
                /\ Single(AsksOf(close)) /\ Head(asks).close = close => AsksOf(close)' = {}
                /\ Head(asks).close # close => (AsksOf(close)' = {} <=> AsksOf(close) = {})
           /\ mainQueue # <<>> /\ mainQueue' = Tail(mainQueue) =>
                /\ Single(AnswersOf(close)) => Single(AnswersOf(close)')
                /\ Single(AnswersOf(close)) /\ 1 \in AnswersOf(close) => AnswersOf(close)' = {}
                /\ 1 \notin AnswersOf(close) => (AnswersOf(close)' = {} <=> AnswersOf(close) = {})
           /\ workerQueue # <<>> /\ workerQueue' = Tail(workerQueue) =>
                /\ Single(ResumesOf(close)) => Single(ResumesOf(close)')
                /\ Single(ResumesOf(close)) /\ 1 \in ResumesOf(close) => ResumesOf(close)' = {}
                /\ 1 \notin ResumesOf(close) => (ResumesOf(close)' = {} <=> ResumesOf(close) = {})
<1>1. ASSUME asks # <<>>, asks' = Tail(asks)
      PROVE  /\ Len(asks) \in Nat \ {0} /\ (1 \in AsksOf(close) <=> Head(asks).close = close)
             /\ AsksOf(close) \in SUBSET (1..Len(asks))
             /\ AsksOf(close)' \in SUBSET (1..(Len(asks) - 1))
             /\ \A x \in 1..(Len(asks) - 1) : x \in AsksOf(close)' <=> x + 1 \in AsksOf(close)
  BY <1>1, TailFacts DEF TypeOK, AsksOf
<1>2. ASSUME mainQueue # <<>>, mainQueue' = Tail(mainQueue)
      PROVE  /\ Len(mainQueue) \in Nat \ {0}
             /\ AnswersOf(close) \in SUBSET (1..Len(mainQueue))
             /\ AnswersOf(close)' \in SUBSET (1..(Len(mainQueue) - 1))
             /\ \A x \in 1..(Len(mainQueue) - 1) :
                   x \in AnswersOf(close)' <=> x + 1 \in AnswersOf(close)
  BY <1>2, TailFacts DEF TypeOK, AnswersOf
<1>3. ASSUME workerQueue # <<>>, workerQueue' = Tail(workerQueue)
      PROVE  /\ Len(workerQueue) \in Nat \ {0}
             /\ ResumesOf(close) \in SUBSET (1..Len(workerQueue))
             /\ ResumesOf(close)' \in SUBSET (1..(Len(workerQueue) - 1))
             /\ \A x \in 1..(Len(workerQueue) - 1) :
                   x \in ResumesOf(close)' <=> x + 1 \in ResumesOf(close)
  BY <1>3, TailFacts DEF TypeOK, ResumesOf
<1>4. ASSUME asks # <<>>, asks' = Tail(asks)
      PROVE  /\ Single(AsksOf(close)) => Single(AsksOf(close)')
             /\ Single(AsksOf(close)) /\ Head(asks).close = close => AsksOf(close)' = {}
             /\ Head(asks).close # close => (AsksOf(close)' = {} <=> AsksOf(close) = {})
  <2> HIDE DEF AsksOf
  <2>. QED
    BY <1>1, <1>4, PlacesMoveUp
<1>5. ASSUME mainQueue # <<>>, mainQueue' = Tail(mainQueue)
      PROVE  /\ Single(AnswersOf(close)) => Single(AnswersOf(close)')
             /\ Single(AnswersOf(close)) /\ 1 \in AnswersOf(close) => AnswersOf(close)' = {}
             /\ 1 \notin AnswersOf(close) => (AnswersOf(close)' = {} <=> AnswersOf(close) = {})
  BY <1>2, <1>5, PlacesMoveUp
<1>6. ASSUME workerQueue # <<>>, workerQueue' = Tail(workerQueue)
      PROVE  /\ Single(ResumesOf(close)) => Single(ResumesOf(close)')
             /\ Single(ResumesOf(close)) /\ 1 \in ResumesOf(close) => ResumesOf(close)' = {}
             /\ 1 \notin ResumesOf(close) => (ResumesOf(close)' = {} <=> ResumesOf(close) = {})
  BY <1>3, <1>6, PlacesMoveUp
<1>. QED
  BY <1>4, <1>5, <1>6

\* The places in each queue after one more element.
LEMMA AppendPlaces ==
    ASSUME TypeOK, NEW close
    PROVE  /\ \A a \in Ask : asks' = Append(asks, a) =>
                AsksOf(close)' = AsksOf(close) \cup (IF a.close = close THEN {Len(asks) + 1} ELSE {})
           /\ \A b \in Notify \cup Answer : mainQueue' = Append(mainQueue, b) =>
                AnswersOf(close)' = AnswersOf(close) \cup
                    (IF b.kind = "token" /\ b.close = close THEN {Len(mainQueue) + 1} ELSE {})
           /\ \A b \in Change \cup Resume : workerQueue' = Append(workerQueue, b) =>
                ResumesOf(close)' = ResumesOf(close) \cup
                    (IF b.kind = "resume" /\ b.close = close THEN {Len(workerQueue) + 1} ELSE {})
<1>1. ASSUME NEW a \in Ask, asks' = Append(asks, a)
      PROVE  AsksOf(close)' = AsksOf(close) \cup (IF a.close = close THEN {Len(asks) + 1} ELSE {})
  <2>1. /\ Len(asks) \in Nat /\ Len(asks') = Len(asks) + 1
        /\ \A i \in 1..Len(asks) : asks'[i] = asks[i]
        /\ asks'[Len(asks) + 1] = a
    BY <1>1, AppendFacts DEF TypeOK
  <2>2. 1..Len(asks') = 1..Len(asks) \cup {Len(asks) + 1}
    BY <2>1
  <2>. QED
    BY <2>1, <2>2 DEF AsksOf
<1>2. ASSUME NEW b \in Notify \cup Answer, mainQueue' = Append(mainQueue, b)
      PROVE  AnswersOf(close)' = AnswersOf(close) \cup
                 (IF b.kind = "token" /\ b.close = close THEN {Len(mainQueue) + 1} ELSE {})
  <2>1. /\ Len(mainQueue) \in Nat /\ Len(mainQueue') = Len(mainQueue) + 1
        /\ \A i \in 1..Len(mainQueue) : mainQueue'[i] = mainQueue[i]
        /\ mainQueue'[Len(mainQueue) + 1] = b
    BY <1>2, AppendFacts DEF TypeOK
  <2>2. 1..Len(mainQueue') = 1..Len(mainQueue) \cup {Len(mainQueue) + 1}
    BY <2>1
  <2>. QED
    BY <2>1, <2>2 DEF AnswersOf
<1>3. ASSUME NEW b \in Change \cup Resume, workerQueue' = Append(workerQueue, b)
      PROVE  ResumesOf(close)' = ResumesOf(close) \cup
                 (IF b.kind = "resume" /\ b.close = close THEN {Len(workerQueue) + 1} ELSE {})
  <2>1. /\ Len(workerQueue) \in Nat /\ Len(workerQueue') = Len(workerQueue) + 1
        /\ \A i \in 1..Len(workerQueue) : workerQueue'[i] = workerQueue[i]
        /\ workerQueue'[Len(workerQueue) + 1] = b
    BY <1>3, AppendFacts DEF TypeOK
  <2>2. 1..Len(workerQueue') = 1..Len(workerQueue) \cup {Len(workerQueue) + 1}
    BY <2>1
  <2>. QED
    BY <2>1, <2>2 DEF ResumesOf
<1>. QED
  BY <1>1, <1>2, <1>3

\* No request has a close count the stream has not reached.
LEMMA NoRequestOfTheFuture ==
    ASSUME TypeOK, RequestsArePast
    PROVE  NoRequest(closeCount + 1)
BY DEF TypeOK, RequestsArePast, IsPast, NoRequest, AsksOf, FetchesOf, AnswersOf, ResumesOf

\* StartIfNeeded from a stream without requests: one ask when the stream is
\* starting, none otherwise.
LEMMA StartAsksOnce ==
    ASSUME TypeOK, closeCount' \in Nat, NoRequest(closeCount'),
           NEW state \in {"initial", "error"}, NEW user, NEW queues,
           StartIfNeeded(state, user, queues, closeCount'),
           UNCHANGED <<fetches, mainQueue>>,
           workerQueue' = workerQueue \/ (workerQueue # <<>> /\ workerQueue' = Tail(workerQueue))
    PROVE  OneRequest'
<1>1. PICK c \in Nat : c = closeCount'
  OBVIOUS
<1>2. FetchesOf(c)' = {} /\ AnswersOf(c)' = {}
  BY <1>1 DEF NoRequest, FetchesOf, AnswersOf
<1>3. NoRequest(c)
  BY <1>1 DEF NoRequest, AsksOf, FetchesOf, AnswersOf, ResumesOf
<1>4. ResumesOf(c)' = {}
  <2>1. CASE workerQueue' = workerQueue
    BY <1>3, <2>1 DEF NoRequest, ResumesOf
  <2>2. CASE workerQueue # <<>> /\ workerQueue' = Tail(workerQueue)
    <3>1. ResumesOf(c) = {} /\ 1 \notin ResumesOf(c)
      BY <1>3 DEF NoRequest
    <3>. QED
      BY <2>2, <3>1, TailPlaces
  <2>. QED
    BY <2>1, <2>2
<1>5. CASE UNCHANGED asks /\ stream' \in {"initial", "error", "backoff"}
  <2>1. AsksOf(c)' = {}
    BY <1>3, <1>5 DEF NoRequest, AsksOf
  <2>. QED
    BY <1>1, <1>2, <1>4, <1>5, <2>1 DEF OneRequest, NoRequest, AsksOf, FetchesOf, AnswersOf, ResumesOf
<1>6. CASE RequestCredentials(closeCount') /\ stream' = "starting"
  <2>1. PICK a \in Ask : a.close = c /\ asks' = Append(asks, a)
    <3>1. [counter |-> provider.counter, close |-> c] \in Ask
      BY DEF TypeOK, Ask
    <3>. QED
      BY <1>1, <1>6, <3>1 DEF RequestCredentials
  <2>2. AsksOf(c)' = AsksOf(c) \cup {Len(asks) + 1}
    BY <2>1, AppendPlaces
  <2>3. AsksOf(c)' = {Len(asks) + 1}
    BY <1>3, <2>2 DEF NoRequest
  <2>4. /\ AsksOf(closeCount)' = {Len(asks) + 1}
        /\ FetchesOf(closeCount)' = {} /\ AnswersOf(closeCount)' = {} /\ ResumesOf(closeCount)' = {}
    BY <1>1, <1>2, <1>4, <2>3 DEF AsksOf, FetchesOf, AnswersOf, ResumesOf
  <2>. QED
    BY <1>6, <2>4 DEF OneRequest, NoRequest, AtMostOne, Single
<1>. QED
  BY <1>5, <1>6 DEF StartIfNeeded

LEMMA InitOneRequest == Init => OneRequest
<1> SUFFICES ASSUME Init PROVE OneRequest
  OBVIOUS
<1>1. \A i \in 1..Len(mainQueue) : mainQueue[i].kind = "notify"
  <2>1. mainQueue \in Seq(Notify)
    BY AnnouncementsTyped DEF Init
  <2>2. \A i \in 1..Len(mainQueue) : mainQueue[i] \in Notify
    BY <2>1
  <2>. QED
    BY <2>2 DEF Notify
<1>2. FetchesOf(0) = {} /\ AnswersOf(0) = {} /\ ResumesOf(0) = {} /\ closeCount = 0
  BY <1>1 DEF Init, FetchesOf, AnswersOf, ResumesOf
<1>3. CASE engineUser \in unsent
  <2> DEFINE a == [counter |-> 0, close |-> 0]
  <2>2. asks = <<a>> /\ stream = "starting"
    BY <1>3 DEF Init
  <2>3. a.close = 0
    OBVIOUS
  <2>. HIDE DEF a
  <2>4. Len(asks) = 1 /\ asks[1].close = 0
    BY <2>2, <2>3
  <2>1. AsksOf(0) = {1} /\ stream = "starting"
    BY <2>2, <2>4 DEF AsksOf
  <2>. QED
    BY <1>2, <2>1 DEF OneRequest, NoRequest, AtMostOne, Single
<1>4. CASE engineUser \notin unsent
  <2>1. AsksOf(0) = {} /\ stream = "initial"
    BY <1>4 DEF Init, AsksOf
  <2>. QED
    BY <1>2, <2>1 DEF OneRequest, NoRequest
<1>. QED
  BY <1>3, <1>4

\* The steps of the stream and of the worker queue: a stop leaves every request
\* behind, a start asks once, and the answer that opens the stream was the one.
LEMMA StreamKeepsOneRequest ==
    ASSUME TypeOK, TypeOK', RequestsArePast, OneRequest,
           \/ BackoffElapsed \/ StreamFails \/ WriteRejected \/ IdleStop
           \/ ConnectivityRestored \/ WriteMutations
           \/ HandleCredentialChange \/ TokenFails \/ OpenStream
    PROVE  OneRequest'
<1>1. closeCount' \in Nat
  BY DEF TypeOK
<1>2. ASSUME closeCount' = closeCount + 1 PROVE NoRequest(closeCount')
  BY <1>2, NoRequestOfTheFuture
<1>3. ASSUME stream # "starting" PROVE NoRequest(closeCount)
  BY <1>3 DEF OneRequest
<1>4. ASSUME closeCount' = closeCount + 1, UNCHANGED <<asks, fetches, mainQueue, workerQueue>>,
             stream' # "starting"
      PROVE  OneRequest'
  BY <1>2, <1>4 DEF OneRequest, NoRequest, AsksOf, FetchesOf, AnswersOf, ResumesOf
<1>5. ASSUME NEW user, RestartNetwork(user), UNCHANGED <<fetches, mainQueue>>,
             workerQueue' = workerQueue \/ (workerQueue # <<>> /\ workerQueue' = Tail(workerQueue))
      PROVE  OneRequest'
  <2>1. CASE Started
    <3>1. NoRequest(closeCount')
      BY <1>2, <1>5, <2>1 DEF RestartNetwork
    <3>. QED
      BY <1>1, <1>5, <3>1, StartAsksOnce DEF RestartNetwork
  <2>2. CASE ~Started
    <3>1. NoRequest(closeCount')
      BY <1>3, <1>5, <2>2 DEF RestartNetwork, Started
    <3>. QED
      BY <1>1, <1>5, <3>1, StartAsksOnce DEF RestartNetwork
  <2>. QED
    BY <2>1, <2>2
\* The timer's start is that of a stream with something to send.
<1>6. CASE BackoffElapsed
  <2>1. NoRequest(closeCount') /\ closeCount' = closeCount /\ UNCHANGED <<fetches, mainQueue, workerQueue>>
    BY <1>3, <1>6 DEF BackoffElapsed
  <2>2. 1 \in {1} /\ StartIfNeeded("initial", 1, {1}, closeCount')
    BY <1>6, <2>1 DEF BackoffElapsed, StartIfNeeded
  <2>. QED
    BY <1>1, <2>1, <2>2, StartAsksOnce
<1>7. CASE StreamFails
  BY <1>1, <1>2, <1>7, StartAsksOnce DEF StreamFails
<1>8. CASE WriteRejected
  BY <1>1, <1>2, <1>8, StartAsksOnce DEF WriteRejected
<1>9. CASE IdleStop
  BY <1>4, <1>9 DEF IdleStop, authVars
<1>10. CASE ConnectivityRestored
  BY <1>5, <1>10 DEF ConnectivityRestored
<1>11. CASE WriteMutations
  <2>1. CASE Started
    BY <1>11, <2>1 DEF WriteMutations, OneRequest, NoRequest, AsksOf, FetchesOf, AnswersOf, ResumesOf
  <2>2. CASE ~Started
    <3>1. NoRequest(closeCount') /\ stream \in {"initial", "error"} /\ closeCount' = closeCount
      BY <1>3, <1>11, <2>2 DEF WriteMutations, Started, TypeOK, StreamStates
    <3>. QED
      BY <1>1, <1>11, <2>2, <3>1, StartAsksOnce DEF WriteMutations
  <2>. QED
    BY <2>1, <2>2
<1>12. CASE HandleCredentialChange
  <2>1. PICK user : user = engineUser' /\ RestartNetwork(user)
    BY <1>12 DEF HandleCredentialChange
  <2>. QED
    BY <1>5, <1>12, <2>1 DEF HandleCredentialChange
<1>13. CASE TokenFails
  BY <1>1, <1>2, <1>13, StartAsksOnce DEF TokenFails
<1>14. CASE OpenStream
  <2>1. PICK c \in Nat : c = closeCount
    BY DEF TypeOK
  <2>2. 1 \in ResumesOf(c)
    <3>1. Len(workerQueue) \in Nat \ {0} /\ Head(workerQueue) = workerQueue[1]
      BY <1>14, TailFacts DEF TypeOK, OpenStream
    <3>2. 1 \in 1..Len(workerQueue)
      BY <3>1
    <3>. QED
      BY <1>14, <2>1, <3>1, <3>2 DEF OpenStream, ResumeIsCurrent, ResumesOf
  <2>3. AtMostOne(AsksOf(c), FetchesOf(c), AnswersOf(c), ResumesOf(c))
    BY <2>1, <2>2 DEF OneRequest, NoRequest
  <2>4. AsksOf(c) = {} /\ FetchesOf(c) = {} /\ AnswersOf(c) = {} /\ Single(ResumesOf(c))
    BY <2>2, <2>3 DEF AtMostOne
  <2>5. ResumesOf(c)' = {}
    BY <1>14, <2>2, <2>4, TailPlaces DEF OpenStream
  <2>. QED
    BY <1>14, <2>1, <2>4, <2>5
    DEF OpenStream, authVars, OneRequest, NoRequest, AsksOf, FetchesOf, AnswersOf, ResumesOf
<1>. QED
  BY <1>6, <1>7, <1>8, <1>9, <1>10, <1>11, <1>12, <1>13, <1>14

\* The steps that hand a request on: from the asks to the fetches, to the main
\* queue, to the worker queue or back to the asks.  None is lost on the way or
\* met by a second of the same close.
LEMMA HandingOnKeepsOneRequest ==
    ASSUME TypeOK, TypeOK', OneRequest, UNCHANGED <<stream, closeCount>>,
           \/ AuthQueue \/ MainQueue \/ DropResume \/ \E u \in Accounts : UpdateCurrentUser(u)
    PROVE  OneRequest'
<1>1. PICK c \in Nat : c = closeCount
  BY DEF TypeOK
<1> DEFINE A == AsksOf(c)
           F == FetchesOf(c)
           M == AnswersOf(c)
           W == ResumesOf(c)
<1>2. IF stream = "starting"
        THEN ~(A = {} /\ F = {} /\ M = {} /\ W = {}) /\ AtMostOne(A, F, M, W)
        ELSE A = {} /\ F = {} /\ M = {} /\ W = {}
  BY <1>1 DEF OneRequest, NoRequest
<1>3. SUFFICES IF stream = "starting"
                 THEN ~(A' = {} /\ F' = {} /\ M' = {} /\ W' = {}) /\ AtMostOne(A', F', M', W')
                 ELSE A' = {} /\ F' = {} /\ M' = {} /\ W' = {}
  BY <1>1 DEF OneRequest, NoRequest, AsksOf, FetchesOf, AnswersOf, ResumesOf
<1>4. Single(A) /\ Single(F) /\ Single(M) /\ Single(W)
  BY <1>2 DEF AtMostOne, Single
<1>5. /\ UNCHANGED asks => A' = A
      /\ UNCHANGED fetches => F' = F
      /\ UNCHANGED mainQueue => M' = M
      /\ UNCHANGED workerQueue => W' = W
  BY DEF AsksOf, FetchesOf, AnswersOf, ResumesOf
<1>6. asks # <<>> /\ asks' = Tail(asks) =>
        /\ Single(A')
        /\ Head(asks).close = c => A' = {}
        /\ Head(asks).close # c => (A' = {} <=> A = {})
  BY <1>4, TailPlaces
<1>7. mainQueue # <<>> /\ mainQueue' = Tail(mainQueue) =>
        /\ Single(M')
        /\ 1 \in M => M' = {}
        /\ 1 \notin M => (M' = {} <=> M = {})
        /\ 1 \in M <=> Head(mainQueue).kind = "token" /\ Head(mainQueue).close = c
  <2>1. mainQueue # <<>> => 1 \in 1..Len(mainQueue) /\ Head(mainQueue) = mainQueue[1]
    BY DEF TypeOK
  <2>2. mainQueue # <<>> =>
          (1 \in M <=> Head(mainQueue).kind = "token" /\ Head(mainQueue).close = c)
    BY <2>1 DEF AnswersOf
  <2>. QED
    BY <1>4, <2>2, TailPlaces
<1>8. ASSUME NEW f \in fetches, NEW ok \in BOOLEAN, PostToken(f, ok)
      PROVE  /\ F' = F \ {f}
             /\ M' = M \cup (IF f.close = c THEN {Len(mainQueue) + 1} ELSE {})
             /\ A' = A /\ W' = W /\ (f.close = c <=> f \in F)
  <2> DEFINE b == [kind |-> "token", user |-> f.user, counter |-> f.counter,
                   close |-> f.close, ok |-> ok]
  <2>1. b \in Notify \cup Answer /\ b.kind = "token" /\ b.close = f.close
    BY DEF Answer, Fetch, TypeOK
  <2>2. mainQueue' = Append(mainQueue, b)
    BY <1>8 DEF PostToken
  <2>. HIDE DEF b
  <2>3. M' = M \cup (IF f.close = c THEN {Len(mainQueue) + 1} ELSE {})
    BY <2>1, <2>2, AppendPlaces
  <2>4. F' = F \ {f} /\ (f.close = c <=> f \in F)
    BY <1>8 DEF PostToken, FetchesOf
  <2>. QED
    BY <1>5, <1>8, <2>3, <2>4 DEF PostToken
<1>9. GetTokenForcingRefresh =>
        /\ asks # <<>> /\ asks' = Tail(asks)
        /\ \E f : F' = F \cup (IF Head(asks).close = c THEN {f} ELSE {})
        /\ M' = M /\ W' = W
        /\ Head(asks).close = c => A # {}
  <2>1. SUFFICES ASSUME GetTokenForcingRefresh
                 PROVE  /\ \E f : F' = F \cup (IF Head(asks).close = c THEN {f} ELSE {})
                        /\ Head(asks).close = c => A # {}
    BY <1>5 DEF GetTokenForcingRefresh, workerVars
  <2> DEFINE f == [user |-> authUser, counter |-> Head(asks).counter, close |-> Head(asks).close]
  <2>2. fetches' = fetches \cup {f} /\ f.close = Head(asks).close
    BY <2>1 DEF GetTokenForcingRefresh
  <2>. HIDE DEF f
  <2>3. F' = F \cup (IF Head(asks).close = c THEN {f} ELSE {})
    BY <2>2 DEF FetchesOf
  <2>4. 1 \in 1..Len(asks) /\ Head(asks) = asks[1]
    BY <2>1 DEF GetTokenForcingRefresh, TypeOK
  <2>. QED
    BY <2>3, <2>4 DEF AsksOf
<1>10. RunNotification => A' = A /\ F' = F /\ W' = W /\ 1 \notin M
  <2>1. SUFFICES ASSUME RunNotification PROVE W' = W
    BY <1>5, <1>7 DEF RunNotification, authVars
  <2> DEFINE b == [kind |-> "credential", user |-> Head(mainQueue).user]
  <2>2. b \in Change \cup Resume /\ b.kind # "resume"
    <3>1. Head(mainQueue) \in Notify
      BY <2>1, TailFacts DEF RunNotification, TypeOK, Answer
    <3>. QED
      BY <3>1 DEF Change, Notify
  <2>3. workerQueue' = Append(workerQueue, b)
    BY <2>1 DEF RunNotification
  <2>. HIDE DEF b
  <2>4. W' = W \cup (IF b.kind = "resume" /\ b.close = c THEN {Len(workerQueue) + 1} ELSE {})
    BY <2>2, <2>3, AppendPlaces
  <2>. QED
    BY <2>2, <2>4
<1>11. AcceptToken => /\ A' = A /\ F' = F
                      /\ W' = W \cup (IF 1 \in M THEN {Len(workerQueue) + 1} ELSE {})
  <2>1. SUFFICES ASSUME AcceptToken
                 PROVE  W' = W \cup (IF 1 \in M THEN {Len(workerQueue) + 1} ELSE {})
    BY <1>5 DEF AcceptToken, authVars
  <2> DEFINE b == [kind |-> "resume", user |-> Head(mainQueue).user,
                   close |-> Head(mainQueue).close, ok |-> Head(mainQueue).ok]
  <2>2. b \in Change \cup Resume /\ b.kind = "resume" /\ b.close = Head(mainQueue).close
    <3>1. Head(mainQueue) \in Answer
      BY <2>1, TailFacts DEF AcceptToken, TypeOK, Notify
    <3>. QED
      BY <3>1 DEF Resume, Answer
  <2>3. workerQueue' = Append(workerQueue, b)
    BY <2>1 DEF AcceptToken
  <2>4. 1 \in M <=> b.close = c
    BY <1>7, <2>1, <2>2 DEF AcceptToken
  <2>. HIDE DEF b, M
  <2>. QED
    BY <2>2, <2>3, <2>4, AppendPlaces
<1>12. RetryToken => /\ F' = F /\ W' = W
                     /\ A' = A \cup (IF 1 \in M THEN {Len(asks) + 1} ELSE {})
  <2>1. SUFFICES ASSUME RetryToken
                 PROVE  A' = A \cup (IF 1 \in M THEN {Len(asks) + 1} ELSE {})
    BY <1>5 DEF RetryToken
  <2> DEFINE a == [counter |-> provider.counter, close |-> Head(mainQueue).close]
  <2>2. a \in Ask /\ a.close = Head(mainQueue).close
    <3>1. Head(mainQueue) \in Answer
      BY <2>1, TailFacts DEF RetryToken, TypeOK, Notify
    <3>. QED
      BY <3>1 DEF Ask, Answer, TypeOK
  <2>3. asks' = Append(asks, a)
    BY <2>1 DEF RetryToken, RequestCredentials
  <2>4. 1 \in M <=> a.close = c
    BY <1>7, <2>1, <2>2 DEF RetryToken
  <2>. HIDE DEF a, M
  <2>. QED
    BY <2>2, <2>3, <2>4, AppendPlaces
<1>13. DropResume => /\ A' = A /\ F' = F /\ M' = M
                     /\ Single(W') /\ (W' = {} <=> W = {})
  <2>1. SUFFICES ASSUME DropResume PROVE Single(W') /\ (W' = {} <=> W = {})
    BY <1>5 DEF DropResume, authVars
  <2>2. Head(workerQueue).close # c /\ Head(workerQueue) = workerQueue[1]
    BY <1>1, <2>1 DEF DropResume, ResumeIsCurrent, TypeOK
  <2>3. 1 \notin W
    BY <2>2 DEF ResumesOf
  <2>. QED
    BY <1>4, <2>1, <2>3, TailPlaces DEF DropResume
<1>14. ASSUME NEW u \in Accounts, UpdateCurrentUser(u)
       PROVE  A' = A /\ F' = F /\ M' = M /\ W' = W
  <2>1. CASE UNCHANGED mainQueue
    BY <1>5, <1>14, <2>1 DEF UpdateCurrentUser
  <2>2. CASE mainQueue' = Append(mainQueue, [kind |-> "notify", user |-> u])
    <3>1. PICK b \in Notify \cup Answer : b.kind # "token" /\ mainQueue' = Append(mainQueue, b)
      BY <2>2 DEF Notify
    <3>2. M' = M \cup (IF b.kind = "token" /\ b.close = c THEN {Len(mainQueue) + 1} ELSE {})
      BY <3>1, AppendPlaces
    <3>. QED
      BY <1>5, <1>14, <3>1, <3>2 DEF UpdateCurrentUser
  <2>. QED
    BY <1>14, <2>1, <2>2 DEF UpdateCurrentUser
<1>. HIDE DEF A, F, M, W
<1>. USE DEF AtMostOne, Single
<1>15. CASE GetTokenForcingRefresh
  BY <1>2, <1>6, <1>9, <1>15
<1>16. ASSUME NEW f \in fetches, NEW ok \in BOOLEAN, PostToken(f, ok)
       PROVE  IF stream = "starting"
                THEN ~(A' = {} /\ F' = {} /\ M' = {} /\ W' = {}) /\ AtMostOne(A', F', M', W')
                ELSE A' = {} /\ F' = {} /\ M' = {} /\ W' = {}
  BY <1>2, <1>8, <1>16
<1>17. CASE RunNotification
  BY <1>2, <1>7, <1>10, <1>17 DEF RunNotification
<1>18. CASE AcceptToken
  BY <1>2, <1>7, <1>11, <1>18 DEF AcceptToken
<1>19. CASE RetryToken
  BY <1>2, <1>7, <1>12, <1>19 DEF RetryToken
<1>20. CASE DropResume
  BY <1>2, <1>13, <1>20
<1>21. CASE \E u \in Accounts : UpdateCurrentUser(u)
  BY <1>2, <1>14, <1>21
<1>. QED
  BY <1>15, <1>16, <1>17, <1>18, <1>19, <1>20, <1>21 DEF AuthQueue, MainQueue

\* However starts, stops, retries and late answers interleave, a stream that is
\* starting has exactly one token request under way with its close count, and
\* any other stream has none: no wake-up is lost, no stream is resumed twice.
THEOREM OneRequestPerStart == Spec => []HandoffInStep
<1>1. Init => HandoffInv /\ OneRequest
  BY InitHandoffInv, InitOneRequest
<1>2. HandoffInv /\ OneRequest /\ [Next]_vars => (HandoffInv /\ OneRequest)'
  <2>1. SUFFICES ASSUME HandoffInv, OneRequest, [Next]_vars PROVE OneRequest'
    BY NextHandoffInv
  <2>2. TypeOK /\ TypeOK' /\ RequestsArePast
    BY <2>1, NextTypeOK DEF HandoffInv
  <2>3. CASE DrainQueue \/ UNCHANGED vars
    BY <2>1, <2>3 DEF DrainQueue, vars, authVars, workerVars,
       OneRequest, NoRequest, AsksOf, FetchesOf, AnswersOf, ResumesOf
  <2>4. CASE AuthQueue \/ MainQueue \/ DropResume \/ \E u \in Accounts : UpdateCurrentUser(u)
    <3>1. UNCHANGED <<stream, closeCount>>
      BY <2>4 DEF AuthQueue, MainQueue, GetTokenForcingRefresh, PostToken, RunNotification,
         AcceptToken, RetryToken, DropResume, UpdateCurrentUser, workerVars
    <3>. QED
      BY <2>1, <2>2, <2>4, <3>1, HandingOnKeepsOneRequest
  <2>. QED
    BY <2>1, <2>2, <2>3, <2>4, StreamKeepsOneRequest DEF Next, Worker
<1>3. HandoffInv /\ OneRequest => HandoffInStep
  BY OneRequestSuffices DEF HandoffInv, HandoffInStep
<1>. QED
  BY <1>1, <1>2, <1>3, PTL DEF Spec

=============================================================================
