-------------------------- MODULE ChatSessionProofs --------------------------
(***************************************************************************)
(* Proofs about ChatSession, for any number of requests, forms and         *)
(* restarts: nobody looks at a chat that the current session would not     *)
(* show, the keychain agrees with FirebaseAuth, and a message is queued    *)
(* for the session that sent it.                                           *)
(***************************************************************************)
EXTENDS ChatSession, SequenceTheorems, TLAPS

\* The blocks on the main queue.
Slots == 1..Len(mainQueue)
IsNotify(i) == mainQueue[i].kind = "notify"
IsAnswer(i) == mainQueue[i].kind = "answer"
IsSuccess(i) == IsAnswer(i) /\ mainQueue[i].ok

FormsAreKnown ==
    /\ \A r \in 1..Len(requests) : requests[r].form <= forms
    /\ nav # <<>> => nav[1].form <= forms

\* A request is answered once, and nobody is signed in before the answer.
AnswersAreGiven ==
    /\ \A i \in Slots : IsAnswer(i) => requests[mainQueue[i].request].answered
    /\ \A i, j \in Slots : IsAnswer(i) /\ IsAnswer(j) /\ mainQueue[i].request = mainQueue[j].request
          => i = j
    /\ currentUser # 0 => requests[currentUser].answered

\* The notification of a new session comes right before its callback.
NotifiedFirst ==
    \A i \in Slots : IsNotify(i) /\ mainQueue[i].user # 0 =>
       /\ i + 1 \in Slots
       /\ IsSuccess(i + 1) /\ mainQueue[i + 1].request = mainQueue[i].user

\* No notification on the way is later than the one about the current user.
LastNotified ==
    \A i \in Slots : IsNotify(i) =>
       \E j \in Slots : j >= i /\ IsNotify(j) /\ mainQueue[j].user = currentUser

\* No success on the way is later than the current user's.
LatestIsCurrent ==
    currentUser # 0 => \A i \in Slots : IsSuccess(i) =>
       \E j \in Slots : j >= i /\ IsSuccess(j) /\ mainQueue[j].request = currentUser

\* Whoever was not hasty has one request, and its form in front.
AloneUnlessHasty ==
    \A r \in Pending \ hasty :
       /\ \A p \in Pending : p = r
       /\ Len(nav) = 1
       /\ FormIsOpen(requests[r].form)

TopIsSession(u) == TopIs("chat") /\ nav[Len(nav)].session = u

\* Once its callback has run, the current session is the visible chat, or its
\* form is gone for good; then a chat is only open to who was hasty.
CurrentIsShown ==
    currentUser # 0 /\ (\A i \in Slots : IsSuccess(i) => mainQueue[i].request # currentUser) =>
       \/ TopIsSession(currentUser)
       \/ ~FormIsOpen(requests[currentUser].form) /\ (ChatIsOpen => currentUser \in hasty)

ChatsUseFirestore == ChatIsOpen => firestore

\* A success that would still push a chat is one of a session that lasts.
SuccessHasAUser ==
    \A i \in Slots : IsSuccess(i) /\ FormIsOpen(requests[mainQueue[i].request].form)
       => currentUser # 0 \/ forcedOut

\* Firestore, once it exists, is told of every change in order.
AnnouncedInStep ==
    firestore /\ (\A i \in Slots : ~IsNotify(i)) => announced = currentUser

QueueInv == AnswersAreGiven /\ NotifiedFirst /\ LastNotified /\ LatestIsCurrent

ScreensInv ==
    /\ FormsAreKnown
    /\ AloneUnlessHasty
    /\ CurrentIsShown
    /\ ChatsUseFirestore
    /\ SuccessHasAUser
    /\ ChatImpliesSignedIn

\* The inductive invariant.
SessionInv ==
    /\ TypeOK
    /\ QueueInv
    /\ ScreensInv
    /\ AnnouncedInStep
    /\ SavedIsCurrent
    /\ SenderOwnsMessage

-----------------------------------------------------------------------------
(* Sequences                                                               *)

LEMMA ElementFacts ==
    ASSUME NEW S, NEW q \in Seq(S)
    PROVE  Len(q) \in Nat /\ \A i \in 1..Len(q) : q[i] \in S
  OBVIOUS

LEMMA SeqOfMore ==
    ASSUME NEW S, NEW T, S \subseteq T, NEW q \in Seq(S)
    PROVE  q \in Seq(T)
  OBVIOUS

LEMMA TailFacts ==
    ASSUME NEW S, NEW q \in Seq(S), q # <<>>
    PROVE  /\ Tail(q) \in Seq(S)
           /\ Head(q) = q[1] /\ 1 \in 1..Len(q) /\ Len(q) \in Nat
           /\ Len(Tail(q)) = Len(q) - 1
           /\ \A i \in 1..Len(Tail(q)) : Tail(q)[i] = q[i + 1] /\ i + 1 \in 1..Len(q) /\ i + 1 # 1
           /\ \A i \in 1..Len(q) : i # 1 => i - 1 \in 1..Len(Tail(q)) /\ Tail(q)[i - 1] = q[i]
PROOF
<1>1. /\ Len(q) \in Nat /\ Len(q) > 0 /\ Len(Tail(q)) = Len(q) - 1
      /\ Head(q) = q[1] /\ Tail(q) \in Seq(S)
      /\ \A i \in 1..Len(Tail(q)) : Tail(q)[i] = q[i + 1]
  OBVIOUS
<1>2. ASSUME NEW i \in 1..Len(q), i # 1
      PROVE  i - 1 \in 1..Len(Tail(q)) /\ Tail(q)[i - 1] = q[i]
  <2>1. i - 1 \in 1..Len(Tail(q)) /\ (i - 1) + 1 = i
    BY <1>1, <1>2
  <2> QED
    BY <2>1, <1>1
<1>3. \A i \in 1..Len(Tail(q)) : i + 1 \in 1..Len(q) /\ i + 1 # 1
  BY <1>1
<1>4. 1 \in 1..Len(q)
  BY <1>1
<1> QED
  BY <1>1, <1>2, <1>3, <1>4

LEMMA AppendFacts ==
    ASSUME NEW S, NEW q \in Seq(S), NEW e \in S
    PROVE  /\ Append(q, e) \in Seq(S)
           /\ Len(q) \in Nat /\ Len(Append(q, e)) = Len(q) + 1
           /\ Append(q, e)[Len(q) + 1] = e
           /\ \A i \in 1..Len(q) : Append(q, e)[i] = q[i]
           /\ \A i \in 1..Len(Append(q, e)) : i \in 1..Len(q) \/ i = Len(q) + 1
           /\ \A i \in 1..Len(q) : i \in 1..Len(Append(q, e)) /\ i + 1 \in 1..Len(Append(q, e))
PROOF
<1>1. /\ Append(q, e) \in Seq(S)
      /\ Len(q) \in Nat /\ Len(Append(q, e)) = Len(q) + 1
      /\ Append(q, e)[Len(q) + 1] = e
      /\ \A i \in 1..Len(q) : Append(q, e)[i] = q[i]
  OBVIOUS
<1>2. \A i \in 1..(Len(q) + 1) : i \in 1..Len(q) \/ i = Len(q) + 1
  BY <1>1
<1>3. \A i \in 1..Len(q) : i \in 1..(Len(q) + 1) /\ i + 1 \in 1..(Len(q) + 1)
  BY <1>1
<1> QED
  BY <1>1, <1>2, <1>3

-----------------------------------------------------------------------------
(* The blocks                                                              *)

\* What a block holds.
LEMMA BlockTypes ==
    TypeOK => /\ mainQueue \in Seq(Notify \cup Answer)
              /\ Len(mainQueue) \in Nat /\ Len(requests) \in Nat
              /\ \A i \in Slots :
                    \/ IsNotify(i) /\ ~IsAnswer(i) /\ mainQueue[i].user \in Sessions
                    \/ IsAnswer(i) /\ ~IsNotify(i) /\ mainQueue[i].request \in 1..Len(requests)
                       /\ mainQueue[i].ok \in BOOLEAN
PROOF
<1> SUFFICES ASSUME TypeOK
             PROVE  /\ mainQueue \in Seq(Notify \cup Answer)
                    /\ Len(mainQueue) \in Nat /\ Len(requests) \in Nat
                    /\ \A i \in Slots :
                          \/ IsNotify(i) /\ ~IsAnswer(i) /\ mainQueue[i].user \in Sessions
                          \/ IsAnswer(i) /\ ~IsNotify(i) /\ mainQueue[i].request \in 1..Len(requests)
                             /\ mainQueue[i].ok \in BOOLEAN
  OBVIOUS
<1>1. mainQueue \in Seq(Notify \cup Answer) /\ requests \in Seq(Request)
  BY DEF TypeOK
<1>2. Len(mainQueue) \in Nat /\ Len(requests) \in Nat
      /\ \A i \in Slots : mainQueue[i] \in Notify \cup Answer
  BY <1>1, ElementFacts DEF Slots
<1>3. \A s \in Sessions \ {0} : s \in 1..Len(requests)
  BY <1>2 DEF Sessions
<1>4. ASSUME NEW e \in Notify
      PROVE  e.kind = "notify" /\ e.user \in Sessions
  BY DEF Notify
<1>5. ASSUME NEW e \in Answer
      PROVE  e.kind = "answer" /\ e.request \in Sessions \ {0} /\ e.ok \in BOOLEAN
  BY DEF Answer
<1>6. "notify" # "answer"
  OBVIOUS
<1> QED
  BY <1>1, <1>2, <1>3, <1>4, <1>5, <1>6 DEF IsNotify, IsAnswer

\* What has been answered stays so.
Settled ==
    /\ Len(requests) \in Nat /\ Len(requests') \in Nat /\ Len(requests) <= Len(requests')
    /\ \A r \in 1..Len(requests) : requests[r].answered => requests'[r].answered

\* The queue stays as it is.
LEMMA QueueStays ==
    ASSUME TypeOK, QueueInv, UNCHANGED mainQueue, UNCHANGED currentUser, Settled
    PROVE  QueueInv'
PROOF
<1>1. \A i \in Slots : IsAnswer(i) => mainQueue[i].request \in 1..Len(requests)
  BY BlockTypes
<1>2. currentUser # 0 => currentUser \in 1..Len(requests)
  BY DEF TypeOK, Sessions, Settled
<1>3. AnswersAreGiven'
  BY <1>1, <1>2 DEF QueueInv, AnswersAreGiven, Slots, IsAnswer, Settled
<1>4. NotifiedFirst' /\ LastNotified' /\ LatestIsCurrent'
  BY DEF QueueInv, NotifiedFirst, LastNotified, LatestIsCurrent, Slots, IsNotify, IsSuccess, IsAnswer
<1> QED
  BY <1>3, <1>4 DEF QueueInv

\* What a pop of the queue leaves, place by place.
LEMMA Popped ==
    ASSUME TypeOK, mainQueue # <<>>, mainQueue' = Tail(mainQueue)
    PROVE  /\ 1 \in Slots /\ Head(mainQueue) = mainQueue[1]
           /\ \A i \in Slots' : i \in Nat /\ i + 1 \in Slots /\ i + 1 # 1 /\ mainQueue'[i] = mainQueue[i + 1]
           /\ \A i \in Slots : i \in Nat /\ (i # 1 => i - 1 \in Slots' /\ mainQueue'[i - 1] = mainQueue[i])
PROOF
<1>1. mainQueue \in Seq(Notify \cup Answer)
  BY DEF TypeOK
<1>2. /\ 1 \in Slots /\ Head(mainQueue) = mainQueue[1]
      /\ \A i \in Slots' : i + 1 \in Slots /\ i + 1 # 1 /\ mainQueue'[i] = mainQueue[i + 1]
      /\ \A i \in Slots : i # 1 => i - 1 \in Slots' /\ mainQueue'[i - 1] = mainQueue[i]
  BY <1>1, TailFacts DEF Slots
<1>3. (\A i \in Slots : i \in Nat) /\ (\A i \in Slots' : i \in Nat)
  BY DEF Slots
<1> QED
  BY <1>2, <1>3

LEMMA QueuePops ==
    ASSUME TypeOK, QueueInv, mainQueue # <<>>, mainQueue' = Tail(mainQueue),
           UNCHANGED currentUser, UNCHANGED requests
    PROVE  QueueInv'
PROOF
<1>1. /\ 1 \in Slots
      /\ \A i \in Slots' : i \in Nat /\ i + 1 \in Slots /\ i + 1 # 1 /\ mainQueue'[i] = mainQueue[i + 1]
      /\ \A i \in Slots : i \in Nat /\ (i # 1 => i - 1 \in Slots' /\ mainQueue'[i - 1] = mainQueue[i])
  BY Popped
<1>2. \A i \in Slots' : /\ IsNotify(i)' <=> IsNotify(i + 1)
                        /\ IsAnswer(i)' <=> IsAnswer(i + 1)
                        /\ IsSuccess(i)' <=> IsSuccess(i + 1)
  BY <1>1 DEF IsNotify, IsAnswer, IsSuccess
<1>3. AnswersAreGiven'
  <2>1. \A i \in Slots' : IsAnswer(i)' => requests'[mainQueue'[i].request].answered
    BY <1>1, <1>2 DEF QueueInv, AnswersAreGiven
  <2>2. ASSUME NEW i \in Slots', NEW j \in Slots', IsAnswer(i)', IsAnswer(j)',
               mainQueue'[i].request = mainQueue'[j].request
        PROVE  i = j
    <3>0. /\ i + 1 \in Slots /\ j + 1 \in Slots /\ IsAnswer(i + 1) /\ IsAnswer(j + 1)
          /\ mainQueue[i + 1].request = mainQueue[j + 1].request
      BY <2>2, <1>1, <1>2
    <3>1. i + 1 = j + 1
      <4>1. \A k, l \in Slots : IsAnswer(k) /\ IsAnswer(l)
               /\ mainQueue[k].request = mainQueue[l].request => k = l
        BY DEF QueueInv, AnswersAreGiven
      <4> QED
        BY <3>0, <4>1
    <3> QED
      BY <3>1, <1>1
  <2>3. (currentUser # 0 => requests[currentUser].answered)'
    BY DEF QueueInv, AnswersAreGiven
  <2> QED
    BY <2>1, <2>2, <2>3 DEF AnswersAreGiven
<1>4. NotifiedFirst'
  <2> SUFFICES ASSUME NEW i \in Slots', IsNotify(i)', mainQueue'[i].user # 0
               PROVE  i + 1 \in Slots' /\ IsSuccess(i + 1)' /\ mainQueue'[i + 1].request = mainQueue'[i].user
    BY DEF NotifiedFirst
  <2>1. /\ i + 1 \in Slots /\ IsNotify(i + 1) /\ mainQueue[i + 1].user # 0 /\ mainQueue'[i] = mainQueue[i + 1]
    BY <1>1, <1>2
  <2>2. /\ (i + 1) + 1 \in Slots /\ IsSuccess((i + 1) + 1)
        /\ mainQueue[(i + 1) + 1].request = mainQueue[i + 1].user
    BY <2>1 DEF QueueInv, NotifiedFirst
  <2>3. ((i + 1) + 1) - 1 = i + 1 /\ (i + 1) + 1 # 1
    BY <1>1
  <2>4. i + 1 \in Slots' /\ mainQueue'[i + 1] = mainQueue[(i + 1) + 1]
    BY <1>1, <2>2, <2>3
  <2> QED
    BY <1>2, <2>1, <2>2, <2>4
<1>5. LastNotified'
  <2> SUFFICES ASSUME NEW i \in Slots', IsNotify(i)'
               PROVE  \E j \in Slots' : j >= i /\ IsNotify(j)' /\ mainQueue'[j].user = currentUser'
    BY DEF LastNotified
  <2>1. i + 1 \in Slots /\ IsNotify(i + 1)
    BY <1>1, <1>2
  <2>2. PICK j \in Slots : j >= i + 1 /\ IsNotify(j) /\ mainQueue[j].user = currentUser
    BY <2>1 DEF QueueInv, LastNotified
  <2>3. j # 1 /\ (j - 1) + 1 = j /\ j - 1 >= i
    BY <2>2, <1>1
  <2>4. j - 1 \in Slots' /\ mainQueue'[j - 1] = mainQueue[j]
    BY <2>3, <1>1
  <2>5. IsNotify(j - 1)'
    BY <2>2, <2>3, <2>4, <1>2
  <2> QED
    BY <2>2, <2>3, <2>4, <2>5
<1>6. LatestIsCurrent'
  <2> SUFFICES ASSUME currentUser # 0, NEW i \in Slots', IsSuccess(i)'
               PROVE  \E j \in Slots' : j >= i /\ IsSuccess(j)' /\ mainQueue'[j].request = currentUser
    BY DEF LatestIsCurrent
  <2>1. i + 1 \in Slots /\ IsSuccess(i + 1)
    BY <1>1, <1>2
  <2>2. PICK j \in Slots : j >= i + 1 /\ IsSuccess(j) /\ mainQueue[j].request = currentUser
    BY <2>1 DEF QueueInv, LatestIsCurrent
  <2>3. j # 1 /\ (j - 1) + 1 = j /\ j - 1 >= i
    BY <2>2, <1>1
  <2>4. j - 1 \in Slots' /\ mainQueue'[j - 1] = mainQueue[j]
    BY <2>3, <1>1
  <2>5. IsSuccess(j - 1)'
    BY <2>2, <2>3, <2>4, <1>2
  <2> QED
    BY <2>2, <2>3, <2>4, <2>5
<1> QED
  BY <1>3, <1>4, <1>5, <1>6 DEF QueueInv

LEMMA BlockFields ==
    ASSUME NEW x
    PROVE  /\ \A e : e = [kind |-> "notify", user |-> x] => e.kind = "notify" /\ e.user = x
           /\ \A e : e = [kind |-> "answer", request |-> x, ok |-> TRUE] =>
                 e.kind = "answer" /\ e.request = x /\ e.ok
           /\ \A e : e = [kind |-> "answer", request |-> x, ok |-> FALSE] =>
                 e.kind = "answer" /\ e.request = x /\ ~e.ok
  OBVIOUS

\* The queue after one block more, at place n.
Grown(n, e) ==
    /\ n \in Nat /\ n \in Slots' /\ mainQueue'[n] = e
    /\ \A i \in Slots : /\ i \in Nat /\ i < n /\ i \in Slots' /\ i + 1 \in Slots'
                        /\ mainQueue'[i] = mainQueue[i]
                        /\ IsNotify(i)' <=> IsNotify(i)
                        /\ IsAnswer(i)' <=> IsAnswer(i)
                        /\ IsSuccess(i)' <=> IsSuccess(i)
    /\ \A i \in Slots' : i \in Nat /\ (i \in Slots \/ i = n)

LEMMA Appended ==
    ASSUME TypeOK, NEW e, mainQueue' = Append(mainQueue, e)
    PROVE  \E n \in Nat : Grown(n, e)
PROOF
<1> DEFINE S == (Notify \cup Answer) \cup {e}
<1>1. mainQueue \in Seq(Notify \cup Answer)
  BY DEF TypeOK
<1>2. Notify \cup Answer \subseteq S /\ e \in S
  OBVIOUS
<1> HIDE DEF S
<1>3. mainQueue \in Seq(S)
  BY <1>1, <1>2, SeqOfMore
<1>4. /\ Len(mainQueue) \in Nat /\ Len(mainQueue') = Len(mainQueue) + 1
      /\ mainQueue'[Len(mainQueue) + 1] = e
      /\ \A i \in Slots : mainQueue'[i] = mainQueue[i]
      /\ \A i \in Slots' : i \in Slots \/ i = Len(mainQueue) + 1
      /\ \A i \in Slots : i \in Slots' /\ i + 1 \in Slots'
  BY <1>2, <1>3, AppendFacts DEF Slots
<1>5. PICK n \in Nat : n = Len(mainQueue) + 1
  BY <1>4
<1>6. n \in Slots' /\ \A i \in Slots : i \in Nat /\ i < n
  BY <1>4, <1>5 DEF Slots
<1>7. \A i \in Slots : /\ IsNotify(i)' <=> IsNotify(i)
                       /\ IsAnswer(i)' <=> IsAnswer(i)
                       /\ IsSuccess(i)' <=> IsSuccess(i)
  BY <1>4 DEF IsNotify, IsAnswer, IsSuccess
<1>8. \A i \in Slots' : i \in Nat
  BY DEF Slots
<1>9. mainQueue'[n] = e /\ \A i \in Slots' : i \in Slots \/ i = n
  BY <1>4, <1>5
<1> QED
  BY <1>4, <1>6, <1>7, <1>8, <1>9 DEF Grown

\* Somebody is signed out: the notification says so.
LEMMA QueueOfSignOut ==
    ASSUME TypeOK, QueueInv, currentUser' = 0, UNCHANGED requests,
           mainQueue' = Append(mainQueue, [kind |-> "notify", user |-> 0])
    PROVE  QueueInv'
PROOF
<1>0. PICK n \in Nat : Grown(n, [kind |-> "notify", user |-> 0])
  BY Appended
<1>1. mainQueue'[n].kind = "notify" /\ mainQueue'[n].user = 0
  <2>1. mainQueue'[n] = [kind |-> "notify", user |-> 0]
    BY <1>0 DEF Grown
  <2> QED
    BY <2>1, BlockFields, Zenon
<1>2. IsNotify(n)' /\ ~IsAnswer(n)' /\ ~IsSuccess(n)'
  BY <1>1 DEF IsNotify, IsAnswer, IsSuccess
<1> USE <1>0 DEF Grown
<1>3. AnswersAreGiven'
  <2>1. \A i \in Slots' : IsAnswer(i)' => i \in Slots /\ IsAnswer(i) /\ mainQueue'[i] = mainQueue[i]
    BY <1>2
  <2>2. /\ \A i \in Slots : IsAnswer(i) => requests[mainQueue[i].request].answered
        /\ \A i, j \in Slots : IsAnswer(i) /\ IsAnswer(j)
              /\ mainQueue[i].request = mainQueue[j].request => i = j
    BY DEF QueueInv, AnswersAreGiven
  <2>3. \A i \in Slots' : IsAnswer(i)' => requests'[mainQueue'[i].request].answered
    BY <2>1, <2>2
  <2>4. ASSUME NEW i \in Slots', NEW j \in Slots', IsAnswer(i)', IsAnswer(j)',
               mainQueue'[i].request = mainQueue'[j].request
        PROVE  i = j
    <3>1. /\ i \in Slots /\ IsAnswer(i) /\ j \in Slots /\ IsAnswer(j)
          /\ mainQueue[i].request = mainQueue[j].request
      BY <2>1, <2>4
    <3> QED
      BY <3>1, <2>2
  <2> QED
    BY <2>3, <2>4 DEF AnswersAreGiven
<1>4. NotifiedFirst'
  <2> SUFFICES ASSUME NEW i \in Slots', IsNotify(i)', mainQueue'[i].user # 0
               PROVE  i + 1 \in Slots' /\ IsSuccess(i + 1)' /\ mainQueue'[i + 1].request = mainQueue'[i].user
    BY DEF NotifiedFirst
  <2>1. i \in Slots /\ IsNotify(i) /\ mainQueue'[i] = mainQueue[i]
    BY <1>1, <1>2
  <2>2. i + 1 \in Slots /\ IsSuccess(i + 1) /\ mainQueue[i + 1].request = mainQueue[i].user
    BY <2>1 DEF QueueInv, NotifiedFirst
  <2> QED
    BY <2>1, <2>2, <1>1, <1>2
<1>5. LastNotified'
  <2> SUFFICES ASSUME NEW i \in Slots', IsNotify(i)'
               PROVE  \E j \in Slots' : j >= i /\ IsNotify(j)' /\ mainQueue'[j].user = currentUser'
    BY DEF LastNotified
  <2>1. n >= i
    <3>1. n \in Nat /\ i \in Nat /\ (i < n \/ i = n)
      OBVIOUS
    <3> QED
      BY <3>1
  <2> QED
    BY <2>1, <1>1, <1>2
<1>6. LatestIsCurrent'
  BY DEF LatestIsCurrent
<1> QED
  BY <1>3, <1>4, <1>5, <1>6 DEF QueueInv

\* The request that was answered; all others are as they were.
Answered(r) ==
    /\ r \in Unanswered
    /\ requests' = [requests EXCEPT ![r].answered = TRUE]

LEMMA AnsweredFacts ==
    ASSUME TypeOK, NEW r, Answered(r)
    PROVE  /\ r \in 1..Len(requests) /\ ~requests[r].answered /\ requests'[r].answered
           /\ requests' \in Seq(Request) /\ Len(requests') = Len(requests)
           /\ \A q \in 1..Len(requests) : /\ requests'[q].form = requests[q].form
                                          /\ q # r => requests'[q] = requests[q]
           /\ Settled
PROOF
<1>1. r \in 1..Len(requests) /\ ~requests[r].answered
  BY DEF Answered, Unanswered
<1>2. requests \in Seq(Request)
  BY DEF TypeOK
<1>3. \A q \in 1..Len(requests) : requests[q] \in Request
  BY <1>2, ElementFacts
<1>4. requests' = [requests EXCEPT ![r] = [requests[r] EXCEPT !.answered = TRUE]]
  BY DEF Answered
<1>5. [requests[r] EXCEPT !.answered = TRUE] \in Request
  BY <1>1, <1>3 DEF Request
<1>6. requests' \in Seq(Request) /\ Len(requests') = Len(requests)
  BY <1>1, <1>2, <1>4, <1>5
<1>a. DOMAIN requests = 1..Len(requests)
  BY <1>2
<1>7. /\ requests'[r] = [requests[r] EXCEPT !.answered = TRUE]
      /\ \A q \in 1..Len(requests) : q # r => requests'[q] = requests[q]
  BY <1>1, <1>a, <1>4
<1>8. requests'[r].answered /\ requests'[r].form = requests[r].form
  BY <1>1, <1>3, <1>7 DEF Request
<1>9. Len(requests) \in Nat
  BY <1>2, ElementFacts
<1>10. \A q \in 1..Len(requests) : requests'[q].form = requests[q].form
                                  /\ (requests[q].answered => requests'[q].answered)
  BY <1>7, <1>8
<1>11. Settled
  BY <1>6, <1>9, <1>10 DEF Settled
<1> QED
  BY <1>1, <1>6, <1>7, <1>8, <1>10, <1>11

\* A refused request adds its callback.
LEMMA QueueOfRefusal ==
    ASSUME TypeOK, QueueInv, NEW r, Answered(r), UNCHANGED currentUser,
           mainQueue' = Append(mainQueue, [kind |-> "answer", request |-> r, ok |-> FALSE])
    PROVE  QueueInv'
PROOF
<1>0. PICK n \in Nat : Grown(n, [kind |-> "answer", request |-> r, ok |-> FALSE])
  BY Appended
<1>1. mainQueue'[n].kind = "answer" /\ mainQueue'[n].request = r /\ ~mainQueue'[n].ok
  <2>1. mainQueue'[n] = [kind |-> "answer", request |-> r, ok |-> FALSE]
    BY <1>0 DEF Grown
  <2> QED
    BY <2>1, BlockFields, Zenon
<1>2. ~IsNotify(n)' /\ IsAnswer(n)' /\ ~IsSuccess(n)'
  BY <1>1 DEF IsNotify, IsAnswer, IsSuccess
<1> USE <1>0 DEF Grown
<1>3. AnswersAreGiven'
  <2>0. /\ ~requests[r].answered /\ requests'[r].answered
        /\ \A q \in 1..Len(requests) : requests[q].answered => requests'[q].answered
    BY AnsweredFacts DEF Settled
  <2>1. \A i \in Slots : IsAnswer(i) =>
           mainQueue[i].request \in 1..Len(requests) /\ requests[mainQueue[i].request].answered
    BY BlockTypes DEF QueueInv, AnswersAreGiven
  <2>2. \A i \in Slots' : IsAnswer(i)' => requests'[mainQueue'[i].request].answered
    BY <2>0, <2>1, <1>1, <1>2
  <2>3. ASSUME NEW i \in Slots', NEW j \in Slots', IsAnswer(i)', IsAnswer(j)',
               mainQueue'[i].request = mainQueue'[j].request
        PROVE  i = j
    <3>1. CASE i \in Slots /\ j \in Slots
      <4>1. \A k, l \in Slots : IsAnswer(k) /\ IsAnswer(l)
               /\ mainQueue[k].request = mainQueue[l].request => k = l
        BY DEF QueueInv, AnswersAreGiven
      <4> QED
        BY <2>3, <3>1, <4>1, <1>1, <1>2
    <3>2. CASE i \in Slots /\ j = n
      BY <2>0, <2>1, <2>3, <3>2, <1>1, <1>2
    <3>3. CASE i = n /\ j \in Slots
      BY <2>0, <2>1, <2>3, <3>3, <1>1, <1>2
    <3> QED
      BY <3>1, <3>2, <3>3, <1>1
  <2>4. (currentUser # 0 => requests[currentUser].answered)'
    <3>1. currentUser # 0 => currentUser \in 1..Len(requests)
      BY BlockTypes DEF TypeOK, Sessions
    <3> QED
      BY <3>1, <2>0 DEF QueueInv, AnswersAreGiven
  <2> QED
    BY <2>2, <2>3, <2>4 DEF AnswersAreGiven
<1>4. NotifiedFirst'
  <2> SUFFICES ASSUME NEW i \in Slots', IsNotify(i)', mainQueue'[i].user # 0
               PROVE  i + 1 \in Slots' /\ IsSuccess(i + 1)' /\ mainQueue'[i + 1].request = mainQueue'[i].user
    BY DEF NotifiedFirst
  <2>1. i \in Slots /\ IsNotify(i) /\ mainQueue'[i] = mainQueue[i]
    BY <1>1, <1>2
  <2>2. i + 1 \in Slots /\ IsSuccess(i + 1) /\ mainQueue[i + 1].request = mainQueue[i].user
    BY <2>1 DEF QueueInv, NotifiedFirst
  <2> QED
    BY <2>1, <2>2, <1>1, <1>2
<1>5. LastNotified'
  <2> SUFFICES ASSUME NEW i \in Slots', IsNotify(i)'
               PROVE  \E j \in Slots' : j >= i /\ IsNotify(j)' /\ mainQueue'[j].user = currentUser'
    BY DEF LastNotified
  <2>1. i \in Slots /\ IsNotify(i)
    BY <1>1, <1>2
  <2>2. PICK j \in Slots : j >= i /\ IsNotify(j) /\ mainQueue[j].user = currentUser
    BY <2>1 DEF QueueInv, LastNotified
  <2> QED
    BY <2>2, <1>1, <1>2
<1>6. LatestIsCurrent'
  <2> SUFFICES ASSUME currentUser # 0, NEW i \in Slots', IsSuccess(i)'
               PROVE  \E j \in Slots' : j >= i /\ IsSuccess(j)' /\ mainQueue'[j].request = currentUser
    BY DEF LatestIsCurrent
  <2>1. i \in Slots /\ IsSuccess(i)
    BY <1>1, <1>2
  <2>2. PICK j \in Slots : j >= i /\ IsSuccess(j) /\ mainQueue[j].request = currentUser
    BY <2>1 DEF QueueInv, LatestIsCurrent
  <2> QED
    BY <2>2, <1>1, <1>2
<1> QED
  BY <1>3, <1>4, <1>5, <1>6 DEF QueueInv

LEMMA TwoMoreFacts ==
    ASSUME NEW S, NEW q \in Seq(S), NEW a \in S, NEW b \in S
    PROVE  /\ Len(q) \in Nat /\ Len(q \o <<a, b>>) = Len(q) + 2
           /\ (q \o <<a, b>>)[Len(q) + 1] = a /\ (q \o <<a, b>>)[Len(q) + 2] = b
           /\ \A i \in 1..Len(q) : (q \o <<a, b>>)[i] = q[i]
           /\ q \o <<a, b>> \in Seq(S)
PROOF
<1> DEFINE p == <<a, b>>
<1>1. p \in Seq(S) /\ Len(p) = 2 /\ p[1] = a /\ p[2] = b
  OBVIOUS
<1> HIDE DEF p
<1>2. /\ Len(q) \in Nat /\ Len(q \o p) = Len(q) + Len(p) /\ q \o p \in Seq(S)
      /\ \A i \in 1..Len(q) : (q \o p)[i] = q[i]
      /\ \A i \in 1..Len(p) : (q \o p)[Len(q) + i] = p[i]
  <2>1. /\ q \o p \in Seq(S) /\ Len(q \o p) = Len(q) + Len(p)
        /\ \A i \in 1..Len(q) + Len(p) : (q \o p)[i] = IF i <= Len(q) THEN q[i] ELSE p[i - Len(q)]
    BY <1>1, ConcatProperties
  <2>2. Len(q) \in Nat /\ Len(p) \in Nat
    BY <1>1, LenProperties
  <2> QED
    BY <2>1, <2>2
<1>3. (q \o p)[Len(q) + 1] = a /\ (q \o p)[Len(q) + 2] = b
  <2>1. 1 \in 1..Len(p) /\ 2 \in 1..Len(p)
    BY <1>1
  <2> QED
    BY <1>1, <1>2, <2>1
<1> QED
  BY <1>1, <1>2, <1>3 DEF p

\* The queue after two blocks more, at places n and n + 1.
GrownByTwo(n, a, b) ==
    /\ n \in Nat /\ n \in Slots' /\ n + 1 \in Slots' /\ mainQueue'[n] = a /\ mainQueue'[n + 1] = b
    /\ \A i \in Slots : /\ i \in Nat /\ i < n /\ i \in Slots' /\ i + 1 \in Slots'
                        /\ mainQueue'[i] = mainQueue[i]
                        /\ IsNotify(i)' <=> IsNotify(i)
                        /\ IsAnswer(i)' <=> IsAnswer(i)
                        /\ IsSuccess(i)' <=> IsSuccess(i)
    /\ \A i \in Slots' : i \in Nat /\ (i \in Slots \/ i = n \/ i = n + 1)

LEMMA AppendedTwo ==
    ASSUME TypeOK, NEW a, NEW b, mainQueue' = mainQueue \o <<a, b>>
    PROVE  \E n \in Nat : GrownByTwo(n, a, b)
PROOF
<1> DEFINE S == (Notify \cup Answer) \cup {a, b}
<1>1. mainQueue \in Seq(Notify \cup Answer)
  BY DEF TypeOK
<1>2. Notify \cup Answer \subseteq S /\ a \in S /\ b \in S
  OBVIOUS
<1> HIDE DEF S
<1>3. mainQueue \in Seq(S)
  BY <1>1, <1>2, SeqOfMore
<1>4. /\ Len(mainQueue) \in Nat /\ Len(mainQueue') = Len(mainQueue) + 2
      /\ mainQueue'[Len(mainQueue) + 1] = a /\ mainQueue'[Len(mainQueue) + 2] = b
      /\ \A i \in Slots : mainQueue'[i] = mainQueue[i]
  BY <1>2, <1>3, TwoMoreFacts DEF Slots
<1>5. PICK n \in Nat : n = Len(mainQueue) + 1
  BY <1>4
<1>6. /\ n \in Slots' /\ n + 1 \in Slots' /\ n + 1 = Len(mainQueue) + 2
      /\ \A i \in Slots : i \in Nat /\ i < n /\ i \in Slots' /\ i + 1 \in Slots'
      /\ \A i \in Slots' : i \in Nat /\ (i \in Slots \/ i = n \/ i = n + 1)
  BY <1>4, <1>5 DEF Slots
<1>7. \A i \in Slots : /\ IsNotify(i)' <=> IsNotify(i)
                       /\ IsAnswer(i)' <=> IsAnswer(i)
                       /\ IsSuccess(i)' <=> IsSuccess(i)
  BY <1>4 DEF IsNotify, IsAnswer, IsSuccess
<1>8. mainQueue'[n] = a /\ mainQueue'[n + 1] = b
  BY <1>4, <1>5, <1>6
<1> QED
  BY <1>4, <1>6, <1>7, <1>8 DEF GrownByTwo

\* An accepted request adds the notification and its callback.
LEMMA QueueOfSuccess ==
    ASSUME TypeOK, QueueInv, NEW r, Answered(r), currentUser' = r,
           mainQueue' = mainQueue \o <<[kind |-> "notify", user |-> r],
                                       [kind |-> "answer", request |-> r, ok |-> TRUE]>>
    PROVE  QueueInv'
PROOF
<1>0. PICK n \in Nat : GrownByTwo(n, [kind |-> "notify", user |-> r],
                                     [kind |-> "answer", request |-> r, ok |-> TRUE])
  BY AppendedTwo
<1>1. /\ mainQueue'[n].kind = "notify" /\ mainQueue'[n].user = r
      /\ mainQueue'[n + 1].kind = "answer" /\ mainQueue'[n + 1].request = r /\ mainQueue'[n + 1].ok
  <2>1. /\ mainQueue'[n] = [kind |-> "notify", user |-> r]
        /\ mainQueue'[n + 1] = [kind |-> "answer", request |-> r, ok |-> TRUE]
    BY <1>0 DEF GrownByTwo
  <2>2. mainQueue'[n].kind = "notify" /\ mainQueue'[n].user = r
    BY <2>1, BlockFields, Zenon
  <2>3. mainQueue'[n + 1].kind = "answer" /\ mainQueue'[n + 1].request = r /\ mainQueue'[n + 1].ok
    <3>1. PICK e : e = mainQueue'[n + 1]
      OBVIOUS
    <3>2. e = [kind |-> "answer", request |-> r, ok |-> TRUE]
      BY <2>1, <3>1
    <3>3. e.kind = "answer" /\ e.request = r /\ e.ok
      BY <3>2, BlockFields, Zenon
    <3> QED
      BY <3>1, <3>3
  <2> QED
    BY <2>2, <2>3
<1>2. /\ IsNotify(n)' /\ ~IsAnswer(n)' /\ ~IsSuccess(n)'
      /\ ~IsNotify(n + 1)' /\ IsAnswer(n + 1)' /\ IsSuccess(n + 1)'
  BY <1>1 DEF IsNotify, IsAnswer, IsSuccess
<1> USE <1>0 DEF GrownByTwo
<1>3. AnswersAreGiven'
  <2>0. /\ ~requests[r].answered /\ requests'[r].answered
        /\ \A q \in 1..Len(requests) : requests[q].answered => requests'[q].answered
    BY AnsweredFacts DEF Settled
  <2>1. \A i \in Slots : IsAnswer(i) =>
           mainQueue[i].request \in 1..Len(requests) /\ requests[mainQueue[i].request].answered
    BY BlockTypes DEF QueueInv, AnswersAreGiven
  <2>2. \A i \in Slots' : IsAnswer(i)' =>
           \/ i \in Slots /\ IsAnswer(i) /\ mainQueue'[i] = mainQueue[i]
           \/ i = n + 1
    BY <1>2
  <2>3. ASSUME NEW i \in Slots', IsAnswer(i)'
        PROVE  requests'[mainQueue'[i].request].answered
    <3>1. CASE i = n + 1
      BY <3>1, <2>0, <1>1
    <3>2. CASE i \in Slots /\ IsAnswer(i) /\ mainQueue'[i] = mainQueue[i]
      BY <3>2, <2>0, <2>1
    <3> QED
      BY <2>2, <2>3, <3>1, <3>2
  <2>4. ASSUME NEW i \in Slots', NEW j \in Slots', IsAnswer(i)', IsAnswer(j)',
               mainQueue'[i].request = mainQueue'[j].request
        PROVE  i = j
    <3>1. \A k, l \in Slots : IsAnswer(k) /\ IsAnswer(l)
               /\ mainQueue[k].request = mainQueue[l].request => k = l
      BY DEF QueueInv, AnswersAreGiven
    <3>2. CASE i \in Slots /\ j \in Slots
      BY <2>2, <2>4, <3>1, <3>2
    <3>3. CASE i \in Slots /\ j = n + 1
      <4>1. IsAnswer(i) /\ mainQueue[i].request = r
        BY <2>4, <3>3, <1>1
      <4> QED
        BY <4>1, <3>3, <2>0, <2>1
    <3>4. CASE i = n + 1 /\ j \in Slots
      <4>1. IsAnswer(j) /\ mainQueue[j].request = r
        BY <2>4, <3>4, <1>1
      <4> QED
        BY <4>1, <3>4, <2>0, <2>1
    <3> QED
      BY <2>2, <2>4, <3>2, <3>3, <3>4
  <2>5. (currentUser # 0 => requests[currentUser].answered)'
    BY <2>0
  <2> QED
    BY <2>3, <2>4, <2>5 DEF AnswersAreGiven
<1>4. NotifiedFirst'
  <2> SUFFICES ASSUME NEW i \in Slots', IsNotify(i)', mainQueue'[i].user # 0
               PROVE  i + 1 \in Slots' /\ IsSuccess(i + 1)' /\ mainQueue'[i + 1].request = mainQueue'[i].user
    BY DEF NotifiedFirst
  <2>1. CASE i \in Slots
    <3>1. IsNotify(i) /\ mainQueue'[i] = mainQueue[i]
      BY <2>1
    <3>2. i + 1 \in Slots /\ IsSuccess(i + 1) /\ mainQueue[i + 1].request = mainQueue[i].user
      BY <2>1, <3>1 DEF QueueInv, NotifiedFirst
    <3> QED
      BY <3>1, <3>2
  <2>2. CASE i = n
    BY <2>2, <1>1, <1>2
  <2>3. i # n + 1
    BY <1>2
  <2> QED
    BY <2>1, <2>2, <2>3
<1>5. LastNotified'
  <2> SUFFICES ASSUME NEW i \in Slots', IsNotify(i)'
               PROVE  \E j \in Slots' : j >= i /\ IsNotify(j)' /\ mainQueue'[j].user = currentUser'
    BY DEF LastNotified
  <2>0. i # n + 1
    BY <1>2
  <2>1. n >= i
    <3>1. n \in Nat /\ i \in Nat /\ (i < n \/ i = n)
      BY <2>0
    <3> QED
      BY <3>1
  <2> QED
    BY <2>1, <1>1, <1>2
<1>6. LatestIsCurrent'
  <2> SUFFICES ASSUME NEW i \in Slots', IsSuccess(i)'
               PROVE  \E j \in Slots' : j >= i /\ IsSuccess(j)' /\ mainQueue'[j].request = currentUser'
    BY DEF LatestIsCurrent
  <2>1. n + 1 >= i
    <3>1. n \in Nat /\ i \in Nat /\ (i < n \/ i = n \/ i = n + 1)
      OBVIOUS
    <3> QED
      BY <3>1
  <2> QED
    BY <2>1, <1>1, <1>2
<1> QED
  BY <1>3, <1>4, <1>5, <1>6 DEF QueueInv

\* The app starts again, with the saved user and nothing on the queue.
LEMMA QueueOfRestart ==
    ASSUME TypeOK, Restart
    PROVE  QueueInv'
PROOF
<1>1. /\ mainQueue' = <<>> /\ currentUser' = savedUser
      /\ requests' = [r \in 1..Len(requests) |-> [requests[r] EXCEPT !.answered = TRUE]]
  BY DEF Restart
<1>2. Slots' = {}
  BY <1>1 DEF Slots
<1>3. requests \in Seq(Request) /\ savedUser \in Sessions /\ Len(requests) \in Nat
  BY BlockTypes DEF TypeOK
<1>4. savedUser # 0 => savedUser \in 1..Len(requests)
  BY <1>3 DEF Sessions
<1>5. \A r \in 1..Len(requests) : requests[r] \in Request
  BY <1>3, ElementFacts
<1>6. \A r \in 1..Len(requests) : requests'[r].answered
  BY <1>1, <1>5 DEF Request
<1> QED
  BY <1>1, <1>2, <1>4, <1>6
  DEF QueueInv, AnswersAreGiven, NotifiedFirst, LastNotified, LatestIsCurrent

-----------------------------------------------------------------------------
(* Types                                                                   *)

\* What is on the navigation stack: a form, and chats over it.
LEMMA NavFacts ==
    ASSUME TypeOK
    PROVE  /\ nav \in Seq(Form \cup Chat) /\ Len(nav) \in Nat
           /\ \A i \in 1..Len(nav) :
                 IF i = 1 THEN nav[i] \in Form /\ nav[i].kind = "form"
                          ELSE nav[i] \in Chat /\ nav[i].kind = "chat"
           /\ nav # <<>> => 1 \in 1..Len(nav) /\ Len(nav) \in 1..Len(nav)
           /\ TopIs("form") => Len(nav) = 1 /\ FormIsOpen(nav[1].form)
           /\ TopIs("chat") => Len(nav) # 1 /\ ChatIsOpen
PROOF
<1>1. nav \in Seq(Form \cup Chat) /\ \A i \in 1..Len(nav) : nav[i].kind = "form" <=> i = 1
  BY DEF TypeOK
<1>2. Len(nav) \in Nat /\ \A i \in 1..Len(nav) : nav[i] \in Form \cup Chat
  BY <1>1, ElementFacts
<1>3. (\A x \in Form : x.kind = "form") /\ (\A x \in Chat : x.kind = "chat")
  BY DEF Form, Chat
<1>4. "form" # "chat"
  OBVIOUS
<1>5. \A i \in 1..Len(nav) :
         IF i = 1 THEN nav[i] \in Form /\ nav[i].kind = "form"
                  ELSE nav[i] \in Chat /\ nav[i].kind = "chat"
  BY <1>1, <1>2, <1>3, <1>4, Zenon
<1>6. nav # <<>> => 1 \in 1..Len(nav) /\ Len(nav) \in 1..Len(nav)
  <2>1. nav # <<>> => Len(nav) # 0
    BY <1>1, EmptySeq
  <2> QED
    BY <1>2, <2>1
<1>7. TopIs("form") => Len(nav) = 1 /\ FormIsOpen(nav[1].form)
  <2> SUFFICES ASSUME TopIs("form")
               PROVE  Len(nav) = 1 /\ FormIsOpen(nav[1].form)
    OBVIOUS
  <2>1. nav # <<>> /\ nav[Len(nav)].kind = "form"
    BY DEF TopIs
  <2>2. Len(nav) = 1
    BY <1>1, <1>6, <2>1
  <2>3. nav[1] \in Form
    BY <1>5, <1>6, <2>1
  <2>4. nav[1] = [kind |-> "form", form |-> nav[1].form]
    BY <2>3 DEF Form
  <2> QED
    BY <2>1, <2>2, <2>4 DEF FormIsOpen
<1>8. TopIs("chat") => Len(nav) # 1 /\ ChatIsOpen
  <2> SUFFICES ASSUME TopIs("chat")
               PROVE  Len(nav) # 1 /\ ChatIsOpen
    OBVIOUS
  <2>1. nav # <<>> /\ nav[Len(nav)].kind = "chat"
    BY DEF TopIs
  <2>2. Len(nav) \in 1..Len(nav)
    BY <1>6, <2>1
  <2> QED
    BY <1>1, <1>4, <2>1, <2>2 DEF ChatIsOpen
<1> QED
  BY <1>1, <1>2, <1>5, <1>6, <1>7, <1>8

\* What is known of the sessions stays true when there are more.
LEMMA TypesOfMore ==
    ASSUME TypeOK, requests' \in Seq(Request), Len(requests) <= Len(requests')
    PROVE  /\ Sessions \subseteq Sessions' /\ Notify \cup Answer \subseteq (Notify \cup Answer)'
           /\ Form \cup Chat \subseteq (Form \cup Chat)'
           /\ Form = Form'
           /\ mainQueue \in Seq((Notify \cup Answer)') /\ nav \in Seq((Form \cup Chat)')
           /\ 0 \in Sessions
PROOF
<1>1. Len(requests) \in Nat /\ Len(requests') \in Nat
  BY ElementFacts DEF TypeOK
<1>2. Sessions \subseteq Sessions' /\ 0 \in Sessions
  BY <1>1 DEF Sessions
<1>3. Notify \cup Answer \subseteq (Notify \cup Answer)'
  <2>1. Notify \subseteq Notify'
    BY <1>2 DEF Notify
  <2>2. Answer \subseteq Answer'
    BY <1>2 DEF Answer
  <2> QED
    BY <2>1, <2>2
<1>4. Form = Form' /\ Form \cup Chat \subseteq (Form \cup Chat)'
  <2>1. Form = Form'
    BY DEF Form
  <2>2. Chat \subseteq Chat'
    BY <1>2 DEF Chat
  <2> QED
    BY <2>1, <2>2
<1>5. mainQueue \in Seq(Notify \cup Answer) /\ nav \in Seq(Form \cup Chat)
  BY DEF TypeOK
<1>6. mainQueue \in Seq((Notify \cup Answer)') /\ nav \in Seq((Form \cup Chat)')
  BY <1>3, <1>4, <1>5, SeqOfMore
<1> QED
  BY <1>2, <1>3, <1>4, <1>6

\* The parts of TypeOK about the queue, the screens and the sessions.
QueueTyped == requests \in Seq(Request) /\ mainQueue \in Seq(Notify \cup Answer)
NavTyped   == /\ nav \in Seq(Form \cup Chat)
              /\ \A i \in 1..Len(nav) : nav[i].kind = "form" <=> i = 1
UsersTyped == /\ currentUser \in Sessions /\ savedUser \in Sessions /\ announced \in Sessions
              /\ sent \in [sender : Sessions, queue : Sessions] /\ hasty \subseteq Sessions
FlagsTyped == /\ forcedOut \in BOOLEAN /\ alert \in BOOLEAN /\ firestore \in BOOLEAN
CountsTyped == forms \in Nat /\ restarts \in Nat

LEMMA TypeSplits == TypeOK <=> QueueTyped /\ NavTyped /\ UsersTyped /\ FlagsTyped /\ CountsTyped
  BY DEF TypeOK, QueueTyped, NavTyped, UsersTyped, FlagsTyped, CountsTyped

LEMMA TypesJoin == QueueTyped' /\ NavTyped' /\ UsersTyped' /\ FlagsTyped' /\ CountsTyped' => TypeOK'
PROOF
<1>1. QueueTyped /\ NavTyped /\ UsersTyped /\ FlagsTyped /\ CountsTyped => TypeOK
  BY TypeSplits
<1> QED
  BY <1>1, PTL

\* The blocks that are posted.
LEMMA BlocksTyped ==
    ASSUME TypeOK, NEW r \in Sessions, NEW b \in BOOLEAN
    PROVE  /\ [kind |-> "notify", user |-> r] \in Notify \cup Answer
           /\ r # 0 => [kind |-> "answer", request |-> r, ok |-> b] \in Notify \cup Answer
PROOF
<1>1. [kind |-> "notify", user |-> r] \in Notify
  BY DEF Notify
<1>2. r # 0 => [kind |-> "answer", request |-> r, ok |-> b] \in Answer
  BY DEF Answer
<1> QED
  BY <1>1, <1>2

LEMMA TypesStart == Init => TypeOK
PROOF
<1> SUFFICES ASSUME Init
             PROVE  TypeOK
  OBVIOUS
<1> USE DEF Init
<1>1. \A S : <<>> \in Seq(S)
  OBVIOUS
<1>2. [form |-> 0, answered |-> TRUE] \in Request
  BY DEF Request
<1>3. requests \in Seq(Request) /\ Len(requests) \in Nat
  <2>1. <<[form |-> 0, answered |-> TRUE]>> \in Seq(Request)
    BY <1>2
  <2>2. requests = <<>> \/ requests = <<[form |-> 0, answered |-> TRUE]>>
    OBVIOUS
  <2>3. requests \in Seq(Request)
    BY <1>1, <2>1, <2>2, Zenon
  <2> QED
    BY <2>3, ElementFacts
<1>4. QueueTyped
  BY <1>1, <1>3 DEF QueueTyped
<1>5. NavTyped
  BY <1>1 DEF NavTyped
<1>6. Len(requests) \in Sessions /\ 0 \in Sessions
  BY <1>3 DEF Sessions
<1>7. UsersTyped
  BY <1>6 DEF UsersTyped
<1>8. FlagsTyped
  BY Zenon DEF FlagsTyped
<1>9. CountsTyped
  BY DEF CountsTyped
<1> QED
  BY <1>4, <1>5, <1>7, <1>8, <1>9, TypeSplits

\* The steps of the person, and what they leave alone.
LEMMA TypesOfScreens ==
    ASSUME TypeOK, OpenForm \/ Back \/ LoginPressed \/ DismissAlert \/ SendPressed
    PROVE  TypeOK'
PROOF
<1>0. /\ QueueTyped /\ NavTyped /\ UsersTyped /\ FlagsTyped /\ CountsTyped
      /\ Len(requests) \in Nat /\ 0 \in Sessions
  BY TypeSplits, BlockTypes DEF Sessions
<1>1. CASE OpenForm
  <2>1. /\ UNCHANGED requests /\ UNCHANGED currentUser /\ UNCHANGED savedUser /\ UNCHANGED forcedOut
        /\ UNCHANGED mainQueue /\ UNCHANGED alert /\ UNCHANGED firestore /\ UNCHANGED announced
        /\ UNCHANGED sent /\ UNCHANGED hasty /\ UNCHANGED restarts
        /\ forms' = forms + 1 /\ nav' = <<[kind |-> "form", form |-> forms']>>
    BY <1>1 DEF OpenForm, authVars, dbVars
  <2>2. forms' \in Nat
    BY <1>0, <2>1 DEF CountsTyped
  <2>3. UNCHANGED Sessions /\ UNCHANGED (Notify \cup Answer)
    BY <2>1 DEF Sessions, Notify, Answer
  <2>4. NavTyped'
    <3>1. [kind |-> "form", form |-> forms'] \in (Form \cup Chat)'
      BY <2>2 DEF Form
    <3>2. nav' \in Seq((Form \cup Chat)') /\ Len(nav') = 1
      BY <2>1, <3>1
    <3>3. nav'[1].kind = "form"
      BY <2>1
    <3> QED
      BY <3>2, <3>3 DEF NavTyped
  <2> QED
    BY <1>0, <2>1, <2>2, <2>3, <2>4, TypesJoin DEF QueueTyped, UsersTyped, FlagsTyped, CountsTyped
<1>2. CASE Back
  <2>1. /\ UNCHANGED requests /\ UNCHANGED currentUser /\ UNCHANGED savedUser /\ UNCHANGED forcedOut
        /\ UNCHANGED mainQueue /\ UNCHANGED alert /\ UNCHANGED firestore /\ UNCHANGED announced
        /\ UNCHANGED sent /\ UNCHANGED forms /\ UNCHANGED restarts
        /\ nav' = <<>> /\ hasty' = hasty \cup {r \in Pending : FormIsOpen(requests[r].form)}
    BY <1>2 DEF Back, authVars, dbVars
  <2>2. UNCHANGED Sessions /\ UNCHANGED (Notify \cup Answer)
    BY <2>1 DEF Sessions, Notify, Answer
  <2>3. NavTyped'
    <3>1. \A S : <<>> \in Seq(S)
      OBVIOUS
    <3>2. nav' \in Seq((Form \cup Chat)')
      BY <2>1, <3>1
    <3> QED
      BY <2>1, <3>2 DEF NavTyped
  <2>4. Pending \subseteq Sessions
    <3>1. Unanswered \subseteq Sessions
      BY <1>0 DEF Unanswered, Sessions
    <3>2. \A i \in Slots : IsAnswer(i) => mainQueue[i].request \in Sessions
      BY <1>0, BlockTypes DEF Sessions
    <3> QED
      BY <3>1, <3>2 DEF Pending, Slots, IsAnswer
  <2>5. UsersTyped'
    BY <1>0, <2>1, <2>2, <2>4 DEF UsersTyped
  <2> QED
    BY <1>0, <2>1, <2>2, <2>3, <2>5, TypesJoin DEF QueueTyped, FlagsTyped, CountsTyped
<1>3. CASE LoginPressed
  <2>1. /\ UNCHANGED currentUser /\ UNCHANGED savedUser /\ UNCHANGED forcedOut
        /\ UNCHANGED mainQueue /\ UNCHANGED alert /\ UNCHANGED firestore /\ UNCHANGED announced
        /\ UNCHANGED sent /\ UNCHANGED forms /\ UNCHANGED nav /\ UNCHANGED restarts
        /\ requests' = Append(requests, [form |-> nav[1].form, answered |-> FALSE])
        /\ hasty' = IF Pending = {} THEN hasty ELSE hasty \cup Pending \cup {Len(requests')}
        /\ TopIs("form")
    BY <1>3 DEF LoginPressed, uiVars, dbVars
  <2>2. [form |-> nav[1].form, answered |-> FALSE] \in Request
    <3>1. nav[1] \in Form
      <4>1. nav # <<>> /\ 1 \in 1..Len(nav)
        BY <2>1, NavFacts DEF TopIs
      <4> QED
        BY <4>1, NavFacts
    <3> QED
      BY <3>1 DEF Form, Request
  <2>3. requests' \in Seq(Request) /\ Len(requests') = Len(requests) + 1
    BY <1>0, <2>1, <2>2, AppendFacts DEF QueueTyped
  <2>4. Len(requests) <= Len(requests')
    BY <1>0, <2>3
  <2>5. /\ Sessions \subseteq Sessions' /\ mainQueue \in Seq((Notify \cup Answer)')
        /\ nav \in Seq((Form \cup Chat)')
    BY <2>3, <2>4, TypesOfMore
  <2>6. Pending \subseteq Sessions
    <3>1. Unanswered \subseteq Sessions
      BY <1>0 DEF Unanswered, Sessions
    <3>2. \A i \in Slots : IsAnswer(i) => mainQueue[i].request \in Sessions
      BY <1>0, BlockTypes DEF Sessions
    <3> QED
      BY <3>1, <3>2 DEF Pending, Slots, IsAnswer
  <2>7. Len(requests') \in Sessions'
    BY <1>0, <2>3 DEF Sessions
  <2>8. hasty' \subseteq Sessions'
    BY <1>0, <2>1, <2>5, <2>6, <2>7 DEF UsersTyped
  <2>9. UsersTyped'
    BY <1>0, <2>1, <2>5, <2>8 DEF UsersTyped
  <2>10. QueueTyped' /\ NavTyped'
    BY <1>0, <2>1, <2>3, <2>5 DEF QueueTyped, NavTyped
  <2> QED
    BY <1>0, <2>1, <2>9, <2>10, TypesJoin DEF FlagsTyped, CountsTyped
<1>4. CASE DismissAlert
  <2>1. /\ UNCHANGED requests /\ UNCHANGED currentUser /\ UNCHANGED savedUser /\ UNCHANGED forcedOut
        /\ UNCHANGED mainQueue /\ UNCHANGED firestore /\ UNCHANGED announced
        /\ UNCHANGED sent /\ UNCHANGED forms /\ UNCHANGED nav /\ UNCHANGED hasty /\ UNCHANGED restarts
        /\ alert' = FALSE
    BY <1>4 DEF DismissAlert, authVars, dbVars
  <2>2. UNCHANGED Sessions /\ UNCHANGED (Notify \cup Answer) /\ UNCHANGED (Form \cup Chat)
    BY <2>1 DEF Sessions, Notify, Answer, Form, Chat
  <2>3. alert' \in BOOLEAN
    BY <2>1, Zenon
  <2> QED
    BY <1>0, <2>1, <2>2, <2>3, TypesJoin DEF QueueTyped, NavTyped, UsersTyped, FlagsTyped, CountsTyped
<1>5. CASE SendPressed
  <2>1. /\ UNCHANGED requests /\ UNCHANGED currentUser /\ UNCHANGED savedUser /\ UNCHANGED forcedOut
        /\ UNCHANGED mainQueue /\ UNCHANGED firestore /\ UNCHANGED announced /\ UNCHANGED alert
        /\ UNCHANGED forms /\ UNCHANGED nav /\ UNCHANGED hasty /\ UNCHANGED restarts
        /\ sent' = [sender |-> currentUser, queue |-> announced]
    BY <1>5 DEF SendPressed, authVars, uiVars
  <2>2. UNCHANGED Sessions /\ UNCHANGED (Notify \cup Answer) /\ UNCHANGED (Form \cup Chat)
    BY <2>1 DEF Sessions, Notify, Answer, Form, Chat
  <2>3. UsersTyped'
    BY <1>0, <2>1, <2>2 DEF UsersTyped
  <2> QED
    BY <1>0, <2>1, <2>2, <2>3, TypesJoin DEF QueueTyped, NavTyped, FlagsTyped, CountsTyped
<1> QED
  BY <1>1, <1>2, <1>3, <1>4, <1>5

\* A step that changes no request, no session's name and neither the queue nor
\* the screens, except as told.
LEMMA SameSessions ==
    UNCHANGED requests => UNCHANGED Sessions /\ UNCHANGED (Notify \cup Answer) /\ UNCHANGED (Form \cup Chat)
  BY DEF Sessions, Notify, Answer, Form, Chat

LEMMA TypesOfSignOut ==
    ASSUME TypeOK, \/ \E saves \in BOOLEAN : LogOutPressed(saves)
                   \/ \E removed \in BOOLEAN : SignOutByForce(removed)
    PROVE  TypeOK'
PROOF
<1>0. /\ QueueTyped /\ NavTyped /\ UsersTyped /\ FlagsTyped /\ CountsTyped
      /\ Len(requests) \in Nat /\ 0 \in Sessions
  BY TypeSplits, BlockTypes DEF Sessions
<1>1. Append(mainQueue, [kind |-> "notify", user |-> 0]) \in Seq(Notify \cup Answer)
  <2>1. [kind |-> "notify", user |-> 0] \in Notify \cup Answer
    BY <1>0 DEF Notify
  <2>2. mainQueue \in Seq(Notify \cup Answer)
    BY <1>0 DEF QueueTyped
  <2> QED
    BY <2>1, <2>2, AppendFacts
<1>2. ASSUME NEW saves \in BOOLEAN, LogOutPressed(saves)
      PROVE  TypeOK'
  <2>1. /\ UNCHANGED requests /\ UNCHANGED forms /\ UNCHANGED firestore /\ UNCHANGED announced
        /\ UNCHANGED sent /\ UNCHANGED hasty /\ UNCHANGED restarts
        /\ \/ nav' = <<>> /\ UNCHANGED alert
           \/ UNCHANGED nav /\ alert' = TRUE
        /\ \/ /\ currentUser' = 0 /\ savedUser' = 0 /\ forcedOut' = FALSE
              /\ mainQueue' = Append(mainQueue, [kind |-> "notify", user |-> 0])
           \/ /\ UNCHANGED currentUser /\ UNCHANGED savedUser /\ UNCHANGED forcedOut
              /\ UNCHANGED mainQueue
    BY <1>2 DEF LogOutPressed, SignOut, UpdateCurrentUser, ScreensAfterLogOut, dbVars
  <2>2. UNCHANGED Sessions /\ UNCHANGED (Notify \cup Answer) /\ UNCHANGED (Form \cup Chat)
    BY <2>1, SameSessions
  <2>3. QueueTyped'
    BY <1>0, <1>1, <2>1, <2>2 DEF QueueTyped
  <2>4. NavTyped'
    <3>1. CASE nav' = <<>>
      <4>1. \A S : <<>> \in Seq(S)
        OBVIOUS
      <4>2. nav' \in Seq((Form \cup Chat)')
        BY <3>1, <4>1
      <4> QED
        BY <3>1, <4>2 DEF NavTyped
    <3>2. CASE UNCHANGED nav
      BY <1>0, <2>2, <3>2 DEF NavTyped
    <3> QED
      BY <2>1, <3>1, <3>2
  <2>5. UsersTyped'
    BY <1>0, <2>1, <2>2 DEF UsersTyped
  <2>6. FlagsTyped'
    BY <1>0, <2>1, Zenon DEF FlagsTyped
  <2> QED
    BY <1>0, <2>1, <2>3, <2>4, <2>5, <2>6, TypesJoin DEF CountsTyped
<1>3. ASSUME NEW removed \in BOOLEAN, SignOutByForce(removed)
      PROVE  TypeOK'
  <2>1. /\ UNCHANGED requests /\ UNCHANGED forms /\ UNCHANGED firestore /\ UNCHANGED announced
        /\ UNCHANGED sent /\ UNCHANGED hasty /\ UNCHANGED restarts /\ UNCHANGED nav /\ UNCHANGED alert
        /\ currentUser' = 0 /\ savedUser' = (IF removed THEN 0 ELSE savedUser) /\ forcedOut' = TRUE
        /\ mainQueue' = Append(mainQueue, [kind |-> "notify", user |-> 0])
    BY <1>3 DEF SignOutByForce, uiVars, dbVars
  <2>2. UNCHANGED Sessions /\ UNCHANGED (Notify \cup Answer) /\ UNCHANGED (Form \cup Chat)
    BY <2>1, SameSessions
  <2>3. QueueTyped' /\ NavTyped'
    BY <1>0, <1>1, <2>1, <2>2 DEF QueueTyped, NavTyped
  <2>4. UsersTyped'
    BY <1>0, <2>1, <2>2 DEF UsersTyped
  <2>5. FlagsTyped'
    BY <1>0, <2>1, Zenon DEF FlagsTyped
  <2> QED
    BY <1>0, <2>1, <2>3, <2>4, <2>5, TypesJoin DEF CountsTyped
<1> QED
  BY <1>2, <1>3

\* What becomes of a request, in the words of the lemmas about the queue.
LEMMA AnswerFacts ==
    ASSUME NEW r \in Unanswered, NEW outcome \in Outcomes, AnswerArrives(r, outcome)
    PROVE  /\ Answered(r)
           /\ UNCHANGED nav /\ UNCHANGED forms /\ UNCHANGED alert /\ UNCHANGED firestore
           /\ UNCHANGED announced /\ UNCHANGED sent /\ UNCHANGED hasty /\ UNCHANGED restarts
           /\ \/ /\ currentUser' = r /\ savedUser' = r /\ forcedOut' = FALSE
                 /\ mainQueue' = mainQueue \o <<[kind |-> "notify", user |-> r],
                                                [kind |-> "answer", request |-> r, ok |-> TRUE]>>
              \/ /\ UNCHANGED currentUser /\ UNCHANGED savedUser /\ UNCHANGED forcedOut
                 /\ mainQueue' = mainQueue \o <<[kind |-> "answer", request |-> r, ok |-> FALSE]>>
  BY DEF AnswerArrives, Answered, UpdateCurrentUser, Blocks, uiVars, dbVars

LEMMA OneMoreIsAppend == \A q \in Seq(Notify \cup Answer) : \A e : q \o <<e>> = Append(q, e)
PROOF
<1> SUFFICES ASSUME NEW q \in Seq(Notify \cup Answer), NEW e
             PROVE  q \o <<e>> = Append(q, e)
  OBVIOUS
<1> DEFINE S == (Notify \cup Answer) \cup {e}
<1>1. Notify \cup Answer \subseteq S /\ e \in S
  OBVIOUS
<1> HIDE DEF S
<1>2. q \in Seq(S)
  BY <1>1, SeqOfMore
<1> QED
  BY <1>1, <1>2, AppendIsConcat

LEMMA TypesOfAnswer ==
    ASSUME TypeOK, NEW r \in Unanswered, NEW outcome \in Outcomes, AnswerArrives(r, outcome)
    PROVE  TypeOK'
PROOF
<1>0. /\ QueueTyped /\ NavTyped /\ UsersTyped /\ FlagsTyped /\ CountsTyped
      /\ Len(requests) \in Nat
  BY TypeSplits, BlockTypes
<1>1. /\ Answered(r) /\ r \in 1..Len(requests)
      /\ requests' \in Seq(Request) /\ Len(requests') = Len(requests)
  BY AnswerFacts, AnsweredFacts
<1>2. r \in Sessions /\ r # 0
  BY <1>0, <1>1 DEF Sessions
<1>3. UNCHANGED Sessions
  BY <1>1 DEF Sessions
<1>4. UNCHANGED (Notify \cup Answer) /\ UNCHANGED (Form \cup Chat)
  BY <1>3 DEF Notify, Answer, Form, Chat
<1>5. /\ [kind |-> "notify", user |-> r] \in Notify \cup Answer
      /\ [kind |-> "answer", request |-> r, ok |-> TRUE] \in Notify \cup Answer
      /\ [kind |-> "answer", request |-> r, ok |-> FALSE] \in Notify \cup Answer
  BY <1>2, BlocksTyped
<1>6. mainQueue' \in Seq(Notify \cup Answer)
  <2>1. mainQueue \o <<[kind |-> "notify", user |-> r],
                       [kind |-> "answer", request |-> r, ok |-> TRUE]>> \in Seq(Notify \cup Answer)
    BY <1>0, <1>5, TwoMoreFacts DEF QueueTyped
  <2>2. Append(mainQueue, [kind |-> "answer", request |-> r, ok |-> FALSE]) \in Seq(Notify \cup Answer)
    BY <1>0, <1>5, AppendFacts DEF QueueTyped
  <2>3. mainQueue \o <<[kind |-> "answer", request |-> r, ok |-> FALSE]>>
           = Append(mainQueue, [kind |-> "answer", request |-> r, ok |-> FALSE])
    BY <1>0, OneMoreIsAppend DEF QueueTyped
  <2> QED
    BY <2>1, <2>2, <2>3, AnswerFacts
<1>7. QueueTyped' /\ NavTyped'
  BY <1>0, <1>1, <1>4, <1>6, AnswerFacts DEF QueueTyped, NavTyped
<1>8. UsersTyped'
  BY <1>0, <1>2, <1>3, AnswerFacts DEF UsersTyped
<1>9. FlagsTyped'
  BY <1>0, AnswerFacts, Zenon DEF FlagsTyped
<1> QED
  BY <1>0, <1>7, <1>8, <1>9, AnswerFacts, TypesJoin DEF CountsTyped

LEMMA TypesOfMainQueue ==
    ASSUME TypeOK, MainQueue
    PROVE  TypeOK'
PROOF
<1>0. /\ QueueTyped /\ NavTyped /\ UsersTyped /\ FlagsTyped /\ CountsTyped
  BY TypeSplits
<1>1. /\ mainQueue # <<>> /\ mainQueue' = Tail(mainQueue)
      /\ UNCHANGED requests /\ UNCHANGED currentUser /\ UNCHANGED savedUser /\ UNCHANGED forcedOut
      /\ UNCHANGED forms /\ UNCHANGED sent /\ UNCHANGED hasty /\ UNCHANGED restarts
  BY DEF MainQueue, RunNotification, RunCallback, authVars, uiVars
<1>2. UNCHANGED Sessions /\ UNCHANGED (Notify \cup Answer) /\ UNCHANGED (Form \cup Chat)
  BY <1>1, SameSessions
<1>3. QueueTyped'
  BY <1>0, <1>1, <1>2, TailFacts DEF QueueTyped
<1>4. 1 \in Slots /\ Head(mainQueue) = mainQueue[1]
  BY <1>1, Popped
<1>5. CASE RunNotification
  <2>1. /\ UNCHANGED nav /\ UNCHANGED alert /\ UNCHANGED firestore
        /\ announced' = IF firestore THEN Head(mainQueue).user ELSE announced
        /\ Head(mainQueue).kind = "notify"
    BY <1>5 DEF RunNotification, uiVars
  <2>2. Head(mainQueue).user \in Sessions
    <3>1. IsNotify(1)
      BY <1>4, <2>1 DEF IsNotify
    <3> QED
      BY <3>1, <1>4, BlockTypes
  <2>3. UsersTyped'
    BY <1>0, <1>1, <1>2, <2>1, <2>2 DEF UsersTyped
  <2> QED
    BY <1>0, <1>1, <1>2, <1>3, <2>1, <2>3, TypesJoin DEF NavTyped, FlagsTyped, CountsTyped
<1>6. CASE RunCallback
  <2> DEFINE a == Head(mainQueue)
  <2>1. /\ a.kind = "answer"
        /\ \/ UNCHANGED nav /\ UNCHANGED alert /\ UNCHANGED firestore /\ UNCHANGED announced
           \/ /\ alert' = (alert \/ TopIs("form"))
              /\ UNCHANGED nav /\ UNCHANGED firestore /\ UNCHANGED announced
           \/ /\ FormIsThere(a)
              /\ nav' = Append(nav, [kind |-> "chat", session |-> a.request])
              /\ firestore' = TRUE /\ announced' = (IF firestore THEN announced ELSE currentUser)
              /\ UNCHANGED alert
    BY <1>6 DEF RunCallback
  <2>2. a.request \in 1..Len(requests)
    <3>1. IsAnswer(1)
      BY <1>4, <2>1 DEF IsAnswer
    <3> QED
      BY <3>1, <1>4, BlockTypes
  <2> HIDE DEF a
  <2>3. NavTyped'
    <3>1. CASE UNCHANGED nav
      BY <1>0, <1>2, <3>1 DEF NavTyped
    <3>2. CASE FormIsThere(a) /\ nav' = Append(nav, [kind |-> "chat", session |-> a.request])
      <4>1. [kind |-> "chat", session |-> a.request] \in Form \cup Chat
        <5>1. a.request \in Sessions \ {0}
          BY <2>2, BlockTypes DEF Sessions
        <5> QED
          BY <5>1 DEF Chat
      <4>2. nav # <<>>
        BY <3>2 DEF FormIsThere, FormIsOpen
      <4>3. 1 \in 1..Len(nav) /\ Len(nav) \in Nat
        BY <4>2, NavFacts
      <4>4. PICK e : e = [kind |-> "chat", session |-> a.request]
        OBVIOUS
      <4>5. e \in Form \cup Chat /\ nav' = Append(nav, e)
        BY <3>2, <4>1, <4>4
      <4>6. /\ nav' \in Seq(Form \cup Chat) /\ Len(nav') = Len(nav) + 1 /\ nav'[Len(nav) + 1] = e
            /\ \A i \in 1..Len(nav) : nav'[i] = nav[i]
            /\ \A i \in 1..Len(nav') : i \in 1..Len(nav) \/ i = Len(nav) + 1
        BY <1>0, <4>5, AppendFacts DEF NavTyped
      <4>7. e.kind # "form"
        BY <4>4
      <4>8. Len(nav) + 1 # 1
        BY <4>3
      <4>9. \A i \in 1..Len(nav') : nav'[i].kind = "form" <=> i = 1
        <5>1. \A i \in 1..Len(nav) : nav[i].kind = "form" <=> i = 1
          BY <1>0 DEF NavTyped
        <5> QED
          BY <5>1, <4>6, <4>7, <4>8
      <4>10. nav' \in Seq((Form \cup Chat)')
        BY <4>6, <1>2
      <4> QED
        BY <4>9, <4>10 DEF NavTyped
    <3> QED
      BY <2>1, <3>1, <3>2
  <2>4. UsersTyped'
    BY <1>0, <1>1, <1>2, <2>1 DEF UsersTyped
  <2>5. FlagsTyped'
    <3>1. (alert \/ TopIs("form")) \in BOOLEAN
      OBVIOUS
    <3> QED
      BY <1>0, <1>1, <2>1, <3>1, Zenon DEF FlagsTyped
  <2> QED
    BY <1>0, <1>1, <1>3, <2>3, <2>4, <2>5, TypesJoin DEF CountsTyped
<1> QED
  BY <1>5, <1>6 DEF MainQueue

LEMMA TypesOfRestart ==
    ASSUME TypeOK, Restart
    PROVE  TypeOK'
PROOF
<1>0. /\ QueueTyped /\ NavTyped /\ UsersTyped /\ FlagsTyped /\ CountsTyped /\ Len(requests) \in Nat
  BY TypeSplits, BlockTypes
<1>1. /\ requests' = [r \in 1..Len(requests) |-> [requests[r] EXCEPT !.answered = TRUE]]
      /\ currentUser' = savedUser /\ forcedOut' = FALSE /\ mainQueue' = <<>> /\ nav' = <<>>
      /\ alert' = FALSE /\ firestore' = FALSE /\ announced' = 0 /\ restarts' = restarts + 1
      /\ UNCHANGED savedUser /\ UNCHANGED forms /\ UNCHANGED sent /\ UNCHANGED hasty
  BY DEF Restart
<1>2. \A r \in 1..Len(requests) : [requests[r] EXCEPT !.answered = TRUE] \in Request
  <2>1. \A r \in 1..Len(requests) : requests[r] \in Request
    BY <1>0, ElementFacts DEF QueueTyped
  <2> QED
    BY <2>1 DEF Request
<1>3. requests' \in Seq(Request) /\ Len(requests') = Len(requests)
  BY <1>0, <1>1, <1>2
<1>4. UNCHANGED Sessions /\ 0 \in Sessions
  BY <1>0, <1>3 DEF Sessions
<1>5. \A S : <<>> \in Seq(S)
  OBVIOUS
<1>6. QueueTyped'
  BY <1>1, <1>3, <1>5 DEF QueueTyped
<1>7. NavTyped'
  <2>1. nav' \in Seq((Form \cup Chat)')
    BY <1>1, <1>5
  <2> QED
    BY <1>1, <2>1 DEF NavTyped
<1>8. UsersTyped'
  BY <1>0, <1>1, <1>4 DEF UsersTyped
<1>9. FlagsTyped'
  BY <1>1, Zenon DEF FlagsTyped
<1>10. CountsTyped'
  BY <1>0, <1>1 DEF CountsTyped
<1> QED
  BY <1>6, <1>7, <1>8, <1>9, <1>10, TypesJoin

LEMMA TypesOfStutter ==
    ASSUME TypeOK, UNCHANGED vars
    PROVE  TypeOK'
PROOF
<1>1. /\ UNCHANGED requests /\ UNCHANGED currentUser /\ UNCHANGED savedUser /\ UNCHANGED forcedOut
      /\ UNCHANGED mainQueue /\ UNCHANGED nav /\ UNCHANGED forms /\ UNCHANGED alert
      /\ UNCHANGED firestore /\ UNCHANGED announced /\ UNCHANGED sent /\ UNCHANGED hasty
      /\ UNCHANGED restarts
  BY DEF vars, authVars, uiVars, dbVars
<1>2. UNCHANGED Sessions /\ UNCHANGED (Notify \cup Answer) /\ UNCHANGED (Form \cup Chat)
  BY <1>1, SameSessions
<1> QED
  BY <1>1, <1>2, TypeSplits, TypesJoin DEF QueueTyped, NavTyped, UsersTyped, FlagsTyped, CountsTyped

LEMMA TypesStay == TypeOK /\ [Next]_vars => TypeOK'
PROOF
<1> SUFFICES ASSUME TypeOK, [Next]_vars
             PROVE  TypeOK'
  OBVIOUS
<1>1. CASE OpenForm \/ Back \/ LoginPressed \/ DismissAlert \/ SendPressed
  BY <1>1, TypesOfScreens
<1>2. CASE (\E saves \in BOOLEAN : LogOutPressed(saves)) \/ (\E removed \in BOOLEAN : SignOutByForce(removed))
  BY <1>2, TypesOfSignOut
<1>3. CASE Answers
  BY <1>3, TypesOfAnswer DEF Answers
<1>4. CASE MainQueue
  BY <1>4, TypesOfMainQueue
<1>5. CASE Restart
  BY <1>5, TypesOfRestart
<1>6. CASE UNCHANGED vars
  BY <1>6, TypesOfStutter
<1> QED
  BY <1>1, <1>2, <1>3, <1>4, <1>5, <1>6 DEF Next

LEMMA QueueStaysInStep == TypeOK /\ QueueInv /\ [Next]_vars => QueueInv'
PROOF
<1> SUFFICES ASSUME TypeOK, QueueInv, [Next]_vars
             PROVE  QueueInv'
  OBVIOUS
<1>0. /\ Len(requests) \in Nat /\ requests \in Seq(Request)
      /\ UNCHANGED requests => Settled
  BY BlockTypes DEF TypeOK, Settled
<1>1. CASE OpenForm \/ Back \/ DismissAlert \/ SendPressed
  <2>1. UNCHANGED requests /\ UNCHANGED mainQueue /\ UNCHANGED currentUser
    BY <1>1 DEF OpenForm, Back, DismissAlert, SendPressed, authVars
  <2> QED
    BY <1>0, <2>1, QueueStays
<1>2. CASE LoginPressed
  <2>1. PICK e : requests' = Append(requests, e)
    BY <1>2 DEF LoginPressed
  <2>2. UNCHANGED mainQueue /\ UNCHANGED currentUser
    BY <1>2 DEF LoginPressed
  <2>3. Settled
    <3> DEFINE S == Request \cup {e}
    <3>1. Request \subseteq S /\ e \in S
      OBVIOUS
    <3> HIDE DEF S
    <3>2. requests \in Seq(S)
      BY <1>0, <3>1, SeqOfMore
    <3>3. Len(requests') = Len(requests) + 1 /\ \A r \in 1..Len(requests) : requests'[r] = requests[r]
      BY <2>1, <3>1, <3>2, AppendFacts
    <3>4. Len(requests') \in Nat /\ Len(requests) <= Len(requests')
      BY <1>0, <3>3
    <3> QED
      BY <1>0, <3>3, <3>4 DEF Settled
  <2> QED
    BY <2>2, <2>3, QueueStays
<1>3. ASSUME NEW saves \in BOOLEAN, LogOutPressed(saves)
      PROVE  QueueInv'
  <2>1. /\ UNCHANGED requests
        /\ \/ /\ currentUser' = 0
              /\ mainQueue' = Append(mainQueue, [kind |-> "notify", user |-> 0])
           \/ UNCHANGED currentUser /\ UNCHANGED mainQueue
    BY <1>3 DEF LogOutPressed, SignOut, UpdateCurrentUser
  <2> QED
    BY <1>0, <2>1, QueueOfSignOut, QueueStays
<1>4. ASSUME NEW removed \in BOOLEAN, SignOutByForce(removed)
      PROVE  QueueInv'
  BY <1>4, QueueOfSignOut DEF SignOutByForce
<1>5. ASSUME NEW r \in Unanswered, NEW outcome \in Outcomes, AnswerArrives(r, outcome)
      PROVE  QueueInv'
  <2>1. mainQueue \o <<[kind |-> "answer", request |-> r, ok |-> FALSE]>>
           = Append(mainQueue, [kind |-> "answer", request |-> r, ok |-> FALSE])
    BY OneMoreIsAppend DEF TypeOK
  <2> QED
    BY <1>5, <2>1, AnswerFacts, QueueOfRefusal, QueueOfSuccess
<1>6. CASE MainQueue
  <2>1. /\ mainQueue # <<>> /\ mainQueue' = Tail(mainQueue)
        /\ UNCHANGED requests /\ UNCHANGED currentUser
    BY <1>6 DEF MainQueue, RunNotification, RunCallback, authVars
  <2> QED
    BY <2>1, QueuePops
<1>7. CASE Restart
  BY <1>7, QueueOfRestart
<1>8. CASE UNCHANGED vars
  <2>1. UNCHANGED requests /\ UNCHANGED mainQueue /\ UNCHANGED currentUser
    BY <1>8 DEF vars, authVars
  <2> QED
    BY <1>0, <2>1, QueueStays
<1> QED
  BY <1>1, <1>2, <1>3, <1>4, <1>5, <1>6, <1>7, <1>8 DEF Next, Answers

-----------------------------------------------------------------------------
(* The screens                                                             *)

LEMMA PendingMeans ==
    \A r : r \in Pending <=> r \in Unanswered \/ \E i \in Slots : IsAnswer(i) /\ mainQueue[i].request = r
  BY DEF Pending, Slots, IsAnswer

\* The callback of a request that is on the queue is still awaited.
LEMMA QueuedIsPending == \A i \in Slots : IsAnswer(i) => mainQueue[i].request \in Pending
  BY PendingMeans

\* While a chat is visible, or no form is, all who wait are hasty.
LEMMA NobodyAlone ==
    ASSUME TypeOK, AloneUnlessHasty, TopIs("chat") \/ nav = <<>>
    PROVE  Pending \subseteq hasty
PROOF
<1>1. Len(nav) # 1
  <2>1. nav = <<>> => Len(nav) = 0
    OBVIOUS
  <2> QED
    BY <2>1, NavFacts
<1> QED
  BY <1>1 DEF AloneUnlessHasty

\* With no screen but the first nothing can go wrong on the screens.
LEMMA EmptyScreens ==
    ASSUME nav' = <<>>, Pending' \subseteq hasty',
           \A r \in 1..Len(requests') : requests'[r].form <= forms'
    PROVE  ScreensInv'
PROOF
<1>1. (\A f : ~FormIsOpen(f)') /\ ~ChatIsOpen'
  BY DEF FormIsOpen, ChatIsOpen
<1> QED
  BY <1>1
  DEF ScreensInv, FormsAreKnown, AloneUnlessHasty, CurrentIsShown, ChatsUseFirestore, SuccessHasAUser,
      ChatImpliesSignedIn

\* A step that leaves the screens, the queue and the users alone.
LEMMA ScreensStay ==
    ASSUME ScreensInv, UNCHANGED nav, UNCHANGED forms, UNCHANGED requests, UNCHANGED mainQueue,
           UNCHANGED hasty, UNCHANGED currentUser, UNCHANGED forcedOut, UNCHANGED firestore
    PROVE  ScreensInv'
  BY DEF ScreensInv, FormsAreKnown, AloneUnlessHasty, CurrentIsShown, ChatsUseFirestore,
         SuccessHasAUser, ChatImpliesSignedIn, FormIsOpen, ChatIsOpen, TopIsSession, TopIs, Pending,
         Unanswered, Slots, IsSuccess, IsAnswer

\* A new form is known to no request.
LEMMA ScreensOfOpenForm ==
    ASSUME TypeOK, ScreensInv, OpenForm
    PROVE  ScreensInv'
PROOF
<1>1. /\ nav = <<>> /\ nav' = <<[kind |-> "form", form |-> forms']>> /\ forms' = forms + 1
      /\ UNCHANGED requests /\ UNCHANGED mainQueue /\ UNCHANGED currentUser /\ UNCHANGED hasty
  BY DEF OpenForm, authVars
<1>2. forms \in Nat /\ Len(requests) \in Nat /\ \A r \in 1..Len(requests) : requests[r].form \in Nat
  <2>1. \A r \in 1..Len(requests) : requests[r] \in Request
    BY ElementFacts DEF TypeOK
  <2> QED
    BY <2>1, BlockTypes DEF TypeOK, Request
<1>3. nav' # <<>> /\ Len(nav') = 1 /\ nav'[1] = [kind |-> "form", form |-> forms'] /\ nav'[1].form = forms'
      /\ nav'[1].kind = "form"
  BY <1>1
<1>4. \A r \in 1..Len(requests) : requests[r].form <= forms /\ requests[r].form # forms'
  BY <1>1, <1>2 DEF ScreensInv, FormsAreKnown
<1>5. ASSUME NEW r \in 1..Len(requests)
      PROVE  ~FormIsOpen(requests[r].form)'
  <2>1. [kind |-> "form", form |-> forms'] # [kind |-> "form", form |-> requests[r].form]
    BY <1>4
  <2> QED
    BY <2>1, <1>1, <1>3 DEF FormIsOpen
<1>6. ~ChatIsOpen'
  <2>1. \A i \in 1..1 : i = 1
    OBVIOUS
  <2> QED
    BY <1>3, <2>1 DEF ChatIsOpen
<1>7. FormsAreKnown'
  <2>1. nav'[1].form <= forms'
    BY <1>1, <1>2, <1>3
  <2> QED
    BY <1>1, <1>2, <1>4, <2>1 DEF FormsAreKnown
<1>8. AloneUnlessHasty'
  <2>1. Pending' = Pending
    BY <1>1 DEF Pending, Unanswered
  <2>2. Pending \subseteq hasty
    BY <1>1, NobodyAlone DEF ScreensInv
  <2> QED
    BY <1>1, <2>1, <2>2 DEF AloneUnlessHasty
<1>9. CurrentIsShown'
  <2>1. currentUser # 0 => currentUser \in 1..Len(requests)
    BY <1>2 DEF TypeOK, Sessions
  <2> QED
    BY <1>1, <1>5, <1>6, <2>1 DEF CurrentIsShown
<1>10. SuccessHasAUser'
  <2>1. \A i \in Slots : IsSuccess(i) => mainQueue[i].request \in 1..Len(requests)
    BY BlockTypes DEF IsSuccess
  <2> QED
    BY <1>1, <1>5, <2>1 DEF SuccessHasAUser, Slots, IsSuccess, IsAnswer
<1> QED
  BY <1>6, <1>7, <1>8, <1>9, <1>10 DEF ScreensInv, ChatsUseFirestore, ChatImpliesSignedIn

\* Whoever leaves a form with a request under way is hasty.
LEMMA ScreensOfBack ==
    ASSUME TypeOK, ScreensInv, Back
    PROVE  ScreensInv'
PROOF
<1>1. /\ nav' = <<>> /\ hasty' = hasty \cup {r \in Pending : FormIsOpen(requests[r].form)}
      /\ UNCHANGED requests /\ UNCHANGED mainQueue /\ UNCHANGED forms
  BY DEF Back, authVars
<1>2. Pending' = Pending
  BY <1>1 DEF Pending, Unanswered
<1>3. Pending \subseteq hasty'
  BY <1>1 DEF ScreensInv, AloneUnlessHasty
<1>4. \A r \in 1..Len(requests) : requests[r].form <= forms
  BY DEF ScreensInv, FormsAreKnown
<1> QED
  BY <1>1, <1>2, <1>3, <1>4, EmptyScreens

\* A second request while one is under way is hasty, and so is the first.
LEMMA ScreensOfLogin ==
    ASSUME TypeOK, QueueInv, ScreensInv, LoginPressed
    PROVE  ScreensInv'
PROOF
<1>1. /\ TopIs("form")
      /\ requests' = Append(requests, [form |-> nav[1].form, answered |-> FALSE])
      /\ hasty' = IF Pending = {} THEN hasty ELSE hasty \cup Pending \cup {Len(requests')}
      /\ UNCHANGED nav /\ UNCHANGED forms /\ UNCHANGED mainQueue /\ UNCHANGED currentUser
      /\ UNCHANGED forcedOut /\ UNCHANGED firestore
  BY DEF LoginPressed, uiVars, dbVars
<1>2. Len(nav) = 1 /\ FormIsOpen(nav[1].form) /\ nav # <<>>
  BY <1>1, NavFacts DEF TopIs
<1>3. PICK n \in Nat : n = Len(requests) + 1
  BY BlockTypes
<1>4. /\ Len(requests) \in Nat /\ Len(requests') = n /\ requests'[n].form = nav[1].form
      /\ \A r \in 1..Len(requests) : requests'[r] = requests[r]
      /\ \A r \in 1..Len(requests') : r \in 1..Len(requests) \/ r = n
  <2>1. PICK e : e = [form |-> nav[1].form, answered |-> FALSE]
    OBVIOUS
  <2> DEFINE S == Request \cup {e}
  <2>2. requests \in Seq(Request) /\ Request \subseteq S /\ e \in S
    BY DEF TypeOK
  <2> HIDE DEF S
  <2>3. requests \in Seq(S) /\ requests' = Append(requests, e)
    BY <1>1, <2>1, <2>2, SeqOfMore
  <2>4. /\ Len(requests) \in Nat /\ Len(requests') = n /\ requests'[n] = e
        /\ \A r \in 1..Len(requests) : requests'[r] = requests[r]
        /\ \A r \in 1..Len(requests') : r \in 1..Len(requests) \/ r = n
    BY <1>3, <2>2, <2>3, AppendFacts
  <2>5. e.form = nav[1].form
    BY <2>1
  <2> QED
    BY <2>4, <2>5
<1>5. FormsAreKnown'
  BY <1>1, <1>2, <1>4 DEF ScreensInv, FormsAreKnown
<1>6. /\ \A f : FormIsOpen(f)' <=> FormIsOpen(f)
      /\ ChatIsOpen' <=> ChatIsOpen
      /\ \A u : TopIsSession(u)' <=> TopIsSession(u)
  BY <1>1 DEF FormIsOpen, ChatIsOpen, TopIsSession, TopIs
<1>7. \A i \in Slots : IsAnswer(i) => mainQueue[i].request \in 1..Len(requests)
  BY BlockTypes
<1>8. Pending' \subseteq Pending \cup {n}
  <2> SUFFICES ASSUME NEW r \in Pending', r # n
               PROVE  r \in Pending
    OBVIOUS
  <2>1. r \in Unanswered' \/ \E i \in Slots : IsAnswer(i) /\ mainQueue[i].request = r
    BY <1>1 DEF Pending, Slots, IsAnswer
  <2>2. r \in Unanswered' => r \in Unanswered
    BY <1>4 DEF Unanswered
  <2> QED
    BY <2>1, <2>2, PendingMeans
<1>9. AloneUnlessHasty'
  <2> SUFFICES ASSUME NEW r \in Pending', r \notin hasty'
               PROVE  /\ \A p \in Pending' : p = r
                      /\ Len(nav') = 1 /\ FormIsOpen(requests[r].form)'
    BY DEF AloneUnlessHasty
  <2>1. CASE Pending = {}
    <3>1. r = n /\ \A p \in Pending' : p = n
      BY <2>1, <1>8
    <3>2. FormIsOpen(requests'[n].form)
      BY <1>2, <1>4
    <3>3. FormIsOpen(requests[r].form)'
      BY <3>1, <3>2, <1>1 DEF FormIsOpen
    <3> QED
      BY <3>1, <3>3, <1>1, <1>2
  <2>2. CASE Pending # {}
    <3>1. hasty' = hasty \cup Pending \cup {n}
      BY <2>2, <1>1, <1>4
    <3> QED
      BY <3>1, <1>8
  <2> QED
    BY <2>1, <2>2
<1>10. CurrentIsShown'
  <2>1. currentUser # 0 => currentUser \in 1..Len(requests)
    BY <1>4 DEF TypeOK, Sessions
  <2>2. hasty \subseteq hasty'
    BY <1>1
  <2>3. currentUser # 0 => requests'[currentUser] = requests[currentUser]
    BY <2>1, <1>4
  <2> QED
    BY <1>1, <1>6, <2>2, <2>3 DEF ScreensInv, CurrentIsShown, Slots, IsSuccess, IsAnswer
<1>11. SuccessHasAUser'
  <2>1. \A i \in Slots : IsSuccess(i) => requests'[mainQueue[i].request] = requests[mainQueue[i].request]
    BY <1>4, <1>7 DEF IsSuccess
  <2> QED
    BY <1>1, <1>6, <2>1 DEF ScreensInv, SuccessHasAUser, Slots, IsSuccess, IsAnswer
<1>12. ChatsUseFirestore' /\ ChatImpliesSignedIn'
  BY <1>1, <1>6 DEF ScreensInv, ChatsUseFirestore, ChatImpliesSignedIn
<1> QED
  BY <1>5, <1>9, <1>10, <1>11, <1>12 DEF ScreensInv

\* A notification on the queue awaits nobody's callback.
LEMMA PendingOfSignOut ==
    ASSUME TypeOK, UNCHANGED requests, mainQueue' = Append(mainQueue, [kind |-> "notify", user |-> 0])
    PROVE  Pending' \subseteq Pending
PROOF
<1>1. PICK n \in Nat : Grown(n, [kind |-> "notify", user |-> 0])
  BY Appended
<1>2. ~IsAnswer(n)'
  <2>1. mainQueue'[n] = [kind |-> "notify", user |-> 0]
    BY <1>1 DEF Grown
  <2>2. mainQueue'[n].kind = "notify"
    BY <2>1, BlockFields, Zenon
  <2> QED
    BY <2>2 DEF IsAnswer
<1> SUFFICES ASSUME NEW r \in Pending'
             PROVE  r \in Pending
  OBVIOUS
<1>3. r \in Unanswered' \/ \E i \in Slots' : IsAnswer(i)' /\ mainQueue'[i].request = r
  BY DEF Pending, Slots, IsAnswer
<1>4. r \in Unanswered' => r \in Unanswered
  BY DEF Unanswered
<1>5. ASSUME NEW i \in Slots', IsAnswer(i)', mainQueue'[i].request = r
      PROVE  r \in Pending
  <2>1. i \in Slots /\ IsAnswer(i) /\ mainQueue'[i] = mainQueue[i]
    BY <1>1, <1>2, <1>5 DEF Grown
  <2> QED
    BY <1>5, <2>1, QueuedIsPending
<1> QED
  BY <1>3, <1>4, <1>5, PendingMeans

\* Log out takes every screen away, unless it fails and changes nothing.
LEMMA ScreensOfLogOut ==
    ASSUME TypeOK, ScreensInv, NEW saves \in BOOLEAN, LogOutPressed(saves)
    PROVE  ScreensInv'
PROOF
<1>1. /\ TopIs("chat")
      /\ UNCHANGED requests /\ UNCHANGED forms /\ UNCHANGED hasty /\ UNCHANGED firestore
      /\ \/ nav' = <<>>
         \/ UNCHANGED nav /\ UNCHANGED mainQueue /\ UNCHANGED currentUser /\ UNCHANGED forcedOut
      /\ \/ mainQueue' = Append(mainQueue, [kind |-> "notify", user |-> 0])
         \/ UNCHANGED mainQueue
  BY DEF LogOutPressed, SignOut, UpdateCurrentUser, ScreensAfterLogOut, dbVars
<1>2. Pending \subseteq hasty
  BY <1>1, NobodyAlone DEF ScreensInv
<1>3. Pending' \subseteq Pending
  <2>1. UNCHANGED mainQueue => Pending' = Pending
    BY <1>1 DEF Pending, Unanswered
  <2> QED
    BY <1>1, <2>1, PendingOfSignOut
<1>4. \A r \in 1..Len(requests') : requests'[r].form <= forms'
  BY <1>1 DEF ScreensInv, FormsAreKnown
<1>5. CASE nav' = <<>>
  BY <1>1, <1>2, <1>3, <1>4, <1>5, EmptyScreens
<1>6. CASE UNCHANGED nav /\ UNCHANGED mainQueue /\ UNCHANGED currentUser /\ UNCHANGED forcedOut
  BY <1>1, <1>6, ScreensStay
<1> QED
  BY <1>1, <1>5, <1>6

\* The person who is signed out by force goes on looking at the chat.
LEMMA ScreensOfForce ==
    ASSUME TypeOK, ScreensInv, NEW removed \in BOOLEAN, SignOutByForce(removed)
    PROVE  ScreensInv'
PROOF
<1>1. /\ currentUser' = 0 /\ forcedOut' = TRUE
      /\ mainQueue' = Append(mainQueue, [kind |-> "notify", user |-> 0])
      /\ UNCHANGED nav /\ UNCHANGED requests /\ UNCHANGED forms /\ UNCHANGED hasty /\ UNCHANGED firestore
  BY DEF SignOutByForce, uiVars, dbVars
<1>2. Pending' \subseteq Pending
  BY <1>1, PendingOfSignOut
<1>3. AloneUnlessHasty'
  BY <1>1, <1>2 DEF ScreensInv, AloneUnlessHasty, FormIsOpen
<1>4. FormsAreKnown' /\ ChatsUseFirestore'
  BY <1>1 DEF ScreensInv, FormsAreKnown, ChatsUseFirestore, ChatIsOpen
<1> QED
  BY <1>1, <1>3, <1>4 DEF ScreensInv, CurrentIsShown, SuccessHasAUser, ChatImpliesSignedIn

\* An answer moves its request from the backend to the queue.
LEMMA PendingOfAnswer ==
    ASSUME TypeOK, NEW r \in Unanswered, NEW outcome \in Outcomes, AnswerArrives(r, outcome)
    PROVE  Pending' \subseteq Pending
PROOF
<1>1. Answered(r) /\ r \in Pending
  BY AnswerFacts, PendingMeans
<1>2. \A q \in Unanswered' : q \in Pending
  <2>1. \A q \in 1..Len(requests) : ~requests'[q].answered => q = r \/ ~requests[q].answered
    BY <1>1, AnsweredFacts
  <2>2. Len(requests') = Len(requests)
    BY <1>1, AnsweredFacts
  <2> QED
    BY <1>1, <2>1, <2>2, PendingMeans DEF Unanswered
<1>3. ASSUME NEW i \in Slots', IsAnswer(i)'
      PROVE  mainQueue'[i].request \in Pending
  <2>1. CASE mainQueue' = mainQueue \o <<[kind |-> "notify", user |-> r],
                                         [kind |-> "answer", request |-> r, ok |-> TRUE]>>
    <3>1. PICK n \in Nat : GrownByTwo(n, [kind |-> "notify", user |-> r],
                                         [kind |-> "answer", request |-> r, ok |-> TRUE])
      BY <2>1, AppendedTwo
    <3>2. /\ mainQueue'[n] = [kind |-> "notify", user |-> r]
          /\ mainQueue'[n + 1] = [kind |-> "answer", request |-> r, ok |-> TRUE]
          /\ \A j \in Slots : mainQueue'[j] = mainQueue[j] /\ (IsAnswer(j)' <=> IsAnswer(j))
          /\ i \in Slots \/ i = n \/ i = n + 1
      BY <3>1 DEF GrownByTwo
    <3>3. CASE i \in Slots
      BY <3>2, <3>3, <1>3, QueuedIsPending
    <3>4. CASE i = n
      <4>1. mainQueue'[i].kind = "notify"
        BY <3>2, <3>4, BlockFields, Zenon
      <4> QED
        BY <4>1, <1>3 DEF IsAnswer
    <3>5. CASE i = n + 1
      <4>1. PICK e : e = mainQueue'[n + 1]
        OBVIOUS
      <4>2. e = [kind |-> "answer", request |-> r, ok |-> TRUE]
        BY <4>1, <3>2
      <4>3. e.request = r
        BY <4>2, BlockFields, Zenon
      <4> QED
        BY <4>1, <4>3, <3>5, <1>1
    <3> QED
      BY <3>2, <3>3, <3>4, <3>5
  <2>2. CASE mainQueue' = mainQueue \o <<[kind |-> "answer", request |-> r, ok |-> FALSE]>>
    <3>0. mainQueue' = Append(mainQueue, [kind |-> "answer", request |-> r, ok |-> FALSE])
      BY <2>2, OneMoreIsAppend DEF TypeOK
    <3>1. PICK n \in Nat : Grown(n, [kind |-> "answer", request |-> r, ok |-> FALSE])
      BY <3>0, Appended
    <3>2. /\ mainQueue'[n] = [kind |-> "answer", request |-> r, ok |-> FALSE]
          /\ \A j \in Slots : mainQueue'[j] = mainQueue[j] /\ (IsAnswer(j)' <=> IsAnswer(j))
          /\ i \in Slots \/ i = n
      BY <3>1 DEF Grown
    <3>3. CASE i \in Slots
      BY <3>2, <3>3, <1>3, QueuedIsPending
    <3>4. CASE i = n
      <4>1. mainQueue'[i].request = r
        BY <3>2, <3>4, BlockFields, Zenon
      <4> QED
        BY <4>1, <1>1
    <3> QED
      BY <3>2, <3>3, <3>4
  <2> QED
    BY <2>1, <2>2, AnswerFacts
<1>4. \A q \in Pending' : q \in Unanswered' \/ \E i \in Slots' : IsAnswer(i)' /\ mainQueue'[i].request = q
  BY DEF Pending, Slots, IsAnswer
<1> QED
  BY <1>2, <1>3, <1>4

\* The successes on the queue after an answer: those of before, and its own.
LEMMA SuccessesOfAnswer ==
    ASSUME TypeOK, NEW r \in Unanswered, NEW outcome \in Outcomes, AnswerArrives(r, outcome)
    PROVE  \/ /\ currentUser' = r
              /\ \E i \in Slots' : IsSuccess(i)' /\ mainQueue'[i].request = r
           \/ /\ UNCHANGED currentUser /\ UNCHANGED forcedOut
              /\ \A i \in Slots : i \in Slots' /\ mainQueue'[i] = mainQueue[i] /\ (IsSuccess(i)' <=> IsSuccess(i))
              /\ \A i \in Slots' : IsSuccess(i)' => i \in Slots
PROOF
<1>1. CASE /\ currentUser' = r
           /\ mainQueue' = mainQueue \o <<[kind |-> "notify", user |-> r],
                                          [kind |-> "answer", request |-> r, ok |-> TRUE]>>
  <2>1. PICK n \in Nat : GrownByTwo(n, [kind |-> "notify", user |-> r],
                                       [kind |-> "answer", request |-> r, ok |-> TRUE])
    BY <1>1, AppendedTwo
  <2>2. PICK e : e = mainQueue'[n + 1]
    OBVIOUS
  <2>3. e = [kind |-> "answer", request |-> r, ok |-> TRUE] /\ n + 1 \in Slots'
    BY <2>1, <2>2 DEF GrownByTwo
  <2>4. e.kind = "answer" /\ e.request = r /\ e.ok
    BY <2>3, BlockFields, Zenon
  <2>5. IsSuccess(n + 1)' /\ mainQueue'[n + 1].request = r
    BY <2>2, <2>4 DEF IsSuccess, IsAnswer
  <2> QED
    BY <1>1, <2>3, <2>5
<1>2. CASE /\ UNCHANGED currentUser /\ UNCHANGED forcedOut
           /\ mainQueue' = mainQueue \o <<[kind |-> "answer", request |-> r, ok |-> FALSE]>>
  <2>0. mainQueue' = Append(mainQueue, [kind |-> "answer", request |-> r, ok |-> FALSE])
    BY <1>2, OneMoreIsAppend DEF TypeOK
  <2>1. PICK n \in Nat : Grown(n, [kind |-> "answer", request |-> r, ok |-> FALSE])
    BY <2>0, Appended
  <2>2. mainQueue'[n] = [kind |-> "answer", request |-> r, ok |-> FALSE]
    BY <2>1 DEF Grown
  <2>3. ~mainQueue'[n].ok
    BY <2>2, BlockFields, Zenon
  <2>4. ~IsSuccess(n)'
    BY <2>3 DEF IsSuccess
  <2> QED
    BY <1>2, <2>1, <2>4 DEF Grown
<1> QED
  BY <1>1, <1>2, AnswerFacts

LEMMA ScreensOfAnswer ==
    ASSUME TypeOK, ScreensInv, NEW r \in Unanswered, NEW outcome \in Outcomes, AnswerArrives(r, outcome)
    PROVE  ScreensInv'
PROOF
<1>1. /\ UNCHANGED nav /\ UNCHANGED forms /\ UNCHANGED hasty /\ UNCHANGED firestore
      /\ r # 0 /\ Len(requests') = Len(requests)
      /\ \A q \in 1..Len(requests) : requests'[q].form = requests[q].form
  <2>1. Answered(r)
    BY AnswerFacts
  <2>2. r # 0
    BY <2>1, AnsweredFacts, BlockTypes
  <2> QED
    BY <2>1, <2>2, AnsweredFacts, AnswerFacts
<1>2. /\ \A f : FormIsOpen(f)' <=> FormIsOpen(f)
      /\ ChatIsOpen' <=> ChatIsOpen
      /\ \A u : TopIsSession(u)' <=> TopIsSession(u)
  BY <1>1 DEF FormIsOpen, ChatIsOpen, TopIsSession, TopIs
<1>3. FormsAreKnown' /\ ChatsUseFirestore'
  BY <1>1, <1>2 DEF ScreensInv, FormsAreKnown, ChatsUseFirestore
<1>4. \A q \in 1..Len(requests) : FormIsOpen(requests[q].form)' <=> FormIsOpen(requests[q].form)
  BY <1>1 DEF FormIsOpen
<1>5. AloneUnlessHasty'
  <2>1. Pending' \subseteq Pending
    BY PendingOfAnswer
  <2>2. \A q \in Pending : q \in 1..Len(requests)
    BY PendingMeans, BlockTypes DEF Unanswered
  <2> QED
    BY <1>1, <1>4, <2>1, <2>2 DEF ScreensInv, AloneUnlessHasty
<1>6. CASE /\ currentUser' = r
           /\ \E i \in Slots' : IsSuccess(i)' /\ mainQueue'[i].request = r
  <2>1. CurrentIsShown' /\ SuccessHasAUser' /\ ChatImpliesSignedIn'
    BY <1>1, <1>6 DEF CurrentIsShown, SuccessHasAUser, ChatImpliesSignedIn
  <2> QED
    BY <1>3, <1>5, <2>1 DEF ScreensInv
<1>7. CASE /\ UNCHANGED currentUser /\ UNCHANGED forcedOut
           /\ \A i \in Slots : i \in Slots' /\ mainQueue'[i] = mainQueue[i] /\ (IsSuccess(i)' <=> IsSuccess(i))
           /\ \A i \in Slots' : IsSuccess(i)' => i \in Slots
  <2>1. CurrentIsShown'
    <3>1. currentUser # 0 => currentUser \in 1..Len(requests)
      BY BlockTypes DEF TypeOK, Sessions
    <3> SUFFICES ASSUME currentUser # 0,
                        \A i \in Slots' : IsSuccess(i)' => mainQueue'[i].request # currentUser
                 PROVE  \/ TopIsSession(currentUser)'
                        \/ ~FormIsOpen(requests[currentUser].form)' /\ (ChatIsOpen' => currentUser' \in hasty')
      BY <1>7 DEF CurrentIsShown
    <3>2. \A i \in Slots : IsSuccess(i) => mainQueue[i].request # currentUser
      BY <1>7
    <3>3. \/ TopIsSession(currentUser)
          \/ ~FormIsOpen(requests[currentUser].form) /\ (ChatIsOpen => currentUser \in hasty)
      BY <3>2 DEF ScreensInv, CurrentIsShown
    <3>4. TopIsSession(currentUser)' <=> TopIsSession(currentUser)
      BY <1>1, <1>7 DEF TopIsSession, TopIs
    <3>5. FormIsOpen(requests[currentUser].form)' <=> FormIsOpen(requests[currentUser].form)
      <4>1. requests'[currentUser].form = requests[currentUser].form
        BY <3>1, <1>1
      <4> QED
        BY <4>1, <1>1, <1>7 DEF FormIsOpen
    <3> QED
      BY <3>3, <3>4, <3>5, <1>1, <1>2, <1>7
  <2>2. SuccessHasAUser'
    <3> SUFFICES ASSUME NEW i \in Slots', IsSuccess(i)', FormIsOpen(requests[mainQueue[i].request].form)'
                 PROVE  currentUser' # 0 \/ forcedOut'
      BY DEF SuccessHasAUser
    <3>1. i \in Slots /\ IsSuccess(i) /\ mainQueue'[i] = mainQueue[i]
      BY <1>7
    <3>2. mainQueue[i].request \in 1..Len(requests)
      BY <3>1, BlockTypes DEF IsSuccess
    <3>3. requests'[mainQueue'[i].request].form = requests[mainQueue[i].request].form
      BY <3>1, <3>2, <1>1
    <3>4. FormIsOpen(requests[mainQueue[i].request].form)
      BY <3>3, <1>1 DEF FormIsOpen
    <3> QED
      BY <3>1, <3>4, <1>7 DEF ScreensInv, SuccessHasAUser
  <2>3. ChatImpliesSignedIn'
    BY <1>2, <1>7 DEF ScreensInv, ChatImpliesSignedIn
  <2> QED
    BY <1>3, <1>5, <2>1, <2>2, <2>3 DEF ScreensInv
<1> QED
  BY <1>6, <1>7, SuccessesOfAnswer

\* What a pop of the queue leaves waiting: not the request whose callback ran.
LEMMA PendingOfPop ==
    ASSUME TypeOK, QueueInv, mainQueue # <<>>, mainQueue' = Tail(mainQueue), UNCHANGED requests
    PROVE  /\ Pending' \subseteq Pending
           /\ IsAnswer(1) => mainQueue[1].request \notin Pending' /\ mainQueue[1].request \in Pending
PROOF
<1>1. /\ 1 \in Slots
      /\ \A i \in Slots' : i \in Nat /\ i + 1 \in Slots /\ i + 1 # 1 /\ mainQueue'[i] = mainQueue[i + 1]
  BY Popped
<1>2. \A i \in Slots' : IsAnswer(i)' <=> IsAnswer(i + 1)
  BY <1>1 DEF IsAnswer
<1>3. \A q \in Pending' : q \in Unanswered \/ \E i \in Slots' : IsAnswer(i)' /\ mainQueue'[i].request = q
  BY DEF Pending, Unanswered, Slots, IsAnswer
<1>4. Pending' \subseteq Pending
  BY <1>1, <1>2, <1>3, PendingMeans
<1>5. ASSUME IsAnswer(1), mainQueue[1].request \in Pending'
      PROVE  FALSE
  <2>1. mainQueue[1].request \notin Unanswered
    BY <1>1, <1>5 DEF QueueInv, AnswersAreGiven, Unanswered
  <2>2. PICK i \in Slots' : IsAnswer(i)' /\ mainQueue'[i].request = mainQueue[1].request
    BY <1>3, <1>5, <2>1
  <2>3. i + 1 \in Slots /\ IsAnswer(i + 1) /\ mainQueue[i + 1].request = mainQueue[1].request /\ i + 1 # 1
    BY <1>1, <1>2, <2>2
  <2>4. \A k, l \in Slots : IsAnswer(k) /\ IsAnswer(l) /\ mainQueue[k].request = mainQueue[l].request => k = l
    BY DEF QueueInv, AnswersAreGiven
  <2> QED
    BY <1>1, <1>5, <2>3, <2>4
<1> QED
  BY <1>1, <1>4, <1>5, QueuedIsPending

\* The screens stay as they are while the first block runs.
LEMMA ScreensOfPop ==
    ASSUME TypeOK, QueueInv, ScreensInv, mainQueue # <<>>, mainQueue' = Tail(mainQueue),
           UNCHANGED requests, UNCHANGED currentUser, UNCHANGED forcedOut, UNCHANGED nav,
           UNCHANGED forms, UNCHANGED hasty, UNCHANGED firestore,
           IsSuccess(1) => ~FormIsOpen(requests[mainQueue[1].request].form)
    PROVE  ScreensInv'
PROOF
<1>1. /\ 1 \in Slots
      /\ \A i \in Slots' : i \in Nat /\ i + 1 \in Slots /\ i + 1 # 1 /\ mainQueue'[i] = mainQueue[i + 1]
      /\ \A i \in Slots : i # 1 => i - 1 \in Slots' /\ mainQueue'[i - 1] = mainQueue[i]
  BY Popped
<1>2. /\ \A i \in Slots' : IsSuccess(i)' <=> IsSuccess(i + 1)
      /\ \A i \in Slots : i # 1 => (IsSuccess(i - 1)' <=> IsSuccess(i))
  BY <1>1 DEF IsSuccess, IsAnswer
<1>3. /\ \A f : FormIsOpen(f)' <=> FormIsOpen(f)
      /\ ChatIsOpen' <=> ChatIsOpen
      /\ TopIsSession(currentUser)' <=> TopIsSession(currentUser)
      /\ \A q : FormIsOpen(requests[q].form)' <=> FormIsOpen(requests[q].form)
  BY DEF FormIsOpen, ChatIsOpen, TopIsSession, TopIs
<1>4. FormsAreKnown' /\ ChatsUseFirestore' /\ ChatImpliesSignedIn'
  BY <1>3 DEF ScreensInv, FormsAreKnown, ChatsUseFirestore, ChatImpliesSignedIn
<1>5. AloneUnlessHasty'
  <2>1. Pending' \subseteq Pending
    BY PendingOfPop
  <2> QED
    BY <1>3, <2>1 DEF ScreensInv, AloneUnlessHasty
<1>6. SuccessHasAUser'
  <2> SUFFICES ASSUME NEW i \in Slots', IsSuccess(i)', FormIsOpen(requests[mainQueue[i].request].form)'
               PROVE  currentUser' # 0 \/ forcedOut'
    BY DEF SuccessHasAUser
  <2>1. i + 1 \in Slots /\ IsSuccess(i + 1) /\ mainQueue'[i] = mainQueue[i + 1]
    BY <1>1, <1>2
  <2>2. FormIsOpen(requests[mainQueue[i + 1].request].form)
    BY <2>1 DEF FormIsOpen
  <2> QED
    BY <2>1, <2>2 DEF ScreensInv, SuccessHasAUser
<1>7. CurrentIsShown'
  <2> SUFFICES ASSUME currentUser # 0, \A i \in Slots' : IsSuccess(i)' => mainQueue'[i].request # currentUser
               PROVE  \/ TopIsSession(currentUser)
                      \/ ~FormIsOpen(requests[currentUser].form) /\ (ChatIsOpen => currentUser \in hasty)
    BY <1>3 DEF CurrentIsShown
  <2>1. \A i \in Slots : IsSuccess(i) /\ i # 1 => mainQueue[i].request # currentUser
    BY <1>1, <1>2
  <2>2. CASE IsSuccess(1) /\ mainQueue[1].request = currentUser
    <3>1. ~FormIsOpen(requests[currentUser].form)
      BY <2>2
    <3>2. currentUser \in Pending
      BY <1>1, <2>2, QueuedIsPending DEF IsSuccess
    <3> QED
      BY <3>1, <3>2 DEF ScreensInv, AloneUnlessHasty
  <2>3. CASE ~(IsSuccess(1) /\ mainQueue[1].request = currentUser)
    BY <2>1, <2>3 DEF ScreensInv, CurrentIsShown
  <2> QED
    BY <2>2, <2>3
<1> QED
  BY <1>4, <1>5, <1>6, <1>7 DEF ScreensInv

\* A callback that finds its form pushes the chat of the current session.
LEMMA ScreensOfNewChat ==
    ASSUME TypeOK, QueueInv, ScreensInv, mainQueue # <<>>, mainQueue' = Tail(mainQueue),
           IsSuccess(1), FormIsOpen(requests[mainQueue[1].request].form),
           nav' = Append(nav, [kind |-> "chat", session |-> mainQueue[1].request]), firestore',
           UNCHANGED requests, UNCHANGED currentUser, UNCHANGED forcedOut,
           UNCHANGED forms, UNCHANGED hasty
    PROVE  ScreensInv'
PROOF
<1>1. /\ 1 \in Slots
      /\ \A i \in Slots' : i \in Nat /\ i + 1 \in Slots /\ i + 1 # 1 /\ mainQueue'[i] = mainQueue[i + 1]
      /\ \A i \in Slots : i \in Nat /\ (i # 1 => i - 1 \in Slots' /\ mainQueue'[i - 1] = mainQueue[i])
  BY Popped
<1>2. /\ \A i \in Slots' : IsSuccess(i)' <=> IsSuccess(i + 1)
      /\ \A i \in Slots : i # 1 => (IsSuccess(i - 1)' <=> IsSuccess(i))
  BY <1>1 DEF IsSuccess, IsAnswer
<1>3. /\ nav' # <<>> /\ nav'[1] = nav[1] /\ nav # <<>>
      /\ nav'[Len(nav')].kind = "chat" /\ nav'[Len(nav')].session = mainQueue[1].request
  <2>1. nav # <<>>
    BY DEF FormIsOpen
  <2>2. PICK e : e = [kind |-> "chat", session |-> mainQueue[1].request]
    OBVIOUS
  <2> DEFINE S == (Form \cup Chat) \cup {e}
  <2>3. nav \in Seq(Form \cup Chat) /\ Form \cup Chat \subseteq S /\ e \in S
    BY NavFacts
  <2> HIDE DEF S
  <2>4. nav \in Seq(S) /\ nav' = Append(nav, e)
    BY <2>2, <2>3, SeqOfMore
  <2>5. /\ nav' \in Seq(S) /\ Len(nav) \in Nat /\ Len(nav') = Len(nav) + 1 /\ nav'[Len(nav) + 1] = e
        /\ \A i \in 1..Len(nav) : nav'[i] = nav[i]
    BY <2>3, <2>4, AppendFacts
  <2>6. 1 \in 1..Len(nav)
    BY <2>1, NavFacts
  <2>7. nav' # <<>>
    <3>1. Len(nav') # 0
      BY <2>5
    <3> QED
      BY <3>1, <2>5, EmptySeq
  <2>8. e.kind = "chat" /\ e.session = mainQueue[1].request
    BY <2>2
  <2> QED
    BY <2>1, <2>5, <2>6, <2>7, <2>8
<1>4. /\ \A f : FormIsOpen(f)' <=> FormIsOpen(f)
      /\ \A q : FormIsOpen(requests[q].form)' <=> FormIsOpen(requests[q].form)
  BY <1>3 DEF FormIsOpen
<1>5. FormsAreKnown'
  BY <1>3 DEF ScreensInv, FormsAreKnown
<1>6. AloneUnlessHasty'
  <2>1. /\ Pending' \subseteq Pending
        /\ mainQueue[1].request \in Pending /\ mainQueue[1].request \notin Pending'
    BY PendingOfPop DEF IsSuccess
  <2>2. \A r \in Pending' : r \in hasty
    BY <2>1 DEF ScreensInv, AloneUnlessHasty
  <2> QED
    BY <2>2 DEF AloneUnlessHasty
<1>7. CurrentIsShown'
  <2> SUFFICES ASSUME currentUser # 0, \A i \in Slots' : IsSuccess(i)' => mainQueue'[i].request # currentUser
               PROVE  TopIsSession(currentUser)'
    BY DEF CurrentIsShown
  <2>1. PICK j \in Slots : IsSuccess(j) /\ mainQueue[j].request = currentUser
    BY <1>1 DEF QueueInv, LatestIsCurrent
  <2>2. j = 1
    BY <2>1, <1>1, <1>2
  <2> QED
    BY <2>1, <2>2, <1>3 DEF TopIsSession, TopIs
<1>8. ChatsUseFirestore'
  BY DEF ChatsUseFirestore
<1>9. SuccessHasAUser' /\ ChatImpliesSignedIn'
  <2>1. currentUser # 0 \/ forcedOut
    BY <1>1 DEF ScreensInv, SuccessHasAUser
  <2> QED
    BY <2>1 DEF SuccessHasAUser, ChatImpliesSignedIn
<1> QED
  BY <1>5, <1>6, <1>7, <1>8, <1>9 DEF ScreensInv

LEMMA ScreensOfMainQueue ==
    ASSUME TypeOK, QueueInv, ScreensInv, MainQueue
    PROVE  ScreensInv'
PROOF
<1>1. /\ mainQueue # <<>> /\ mainQueue' = Tail(mainQueue)
      /\ UNCHANGED requests /\ UNCHANGED currentUser /\ UNCHANGED forcedOut
      /\ UNCHANGED forms /\ UNCHANGED hasty
      /\ Head(mainQueue) = mainQueue[1]
  BY Popped DEF MainQueue, RunNotification, RunCallback, authVars, uiVars
<1>2. CASE RunNotification
  <2>1. UNCHANGED nav /\ UNCHANGED firestore /\ ~IsSuccess(1)
    BY <1>1, <1>2 DEF RunNotification, uiVars, IsSuccess, IsAnswer
  <2> QED
    BY <1>1, <2>1, ScreensOfPop
<1>3. CASE RunCallback
  <2>1. /\ IsAnswer(1)
        /\ \/ /\ ~FormIsOpen(requests[mainQueue[1].request].form)
              /\ UNCHANGED nav /\ UNCHANGED firestore
           \/ ~mainQueue[1].ok /\ UNCHANGED nav /\ UNCHANGED firestore
           \/ /\ FormIsOpen(requests[mainQueue[1].request].form) /\ mainQueue[1].ok
              /\ nav' = Append(nav, [kind |-> "chat", session |-> mainQueue[1].request])
              /\ firestore' = TRUE
    BY <1>1, <1>3 DEF RunCallback, FormIsThere, Succeeded, IsAnswer
  <2>2. CASE UNCHANGED nav /\ UNCHANGED firestore
             /\ (~FormIsOpen(requests[mainQueue[1].request].form) \/ ~mainQueue[1].ok)
    BY <1>1, <2>2, ScreensOfPop DEF IsSuccess
  <2>3. CASE /\ FormIsOpen(requests[mainQueue[1].request].form) /\ mainQueue[1].ok
             /\ nav' = Append(nav, [kind |-> "chat", session |-> mainQueue[1].request])
             /\ firestore' = TRUE
    BY <1>1, <2>1, <2>3, ScreensOfNewChat DEF IsSuccess
  <2> QED
    BY <2>1, <2>2, <2>3
<1> QED
  BY <1>2, <1>3 DEF MainQueue

LEMMA ScreensOfRestart ==
    ASSUME TypeOK, ScreensInv, Restart
    PROVE  ScreensInv'
PROOF
<1>1. /\ requests' = [r \in 1..Len(requests) |-> [requests[r] EXCEPT !.answered = TRUE]]
      /\ mainQueue' = <<>> /\ nav' = <<>> /\ UNCHANGED forms /\ UNCHANGED hasty
  BY DEF Restart
<1>2. Len(requests) \in Nat /\ \A r \in 1..Len(requests) : requests[r] \in Request
  BY BlockTypes, ElementFacts DEF TypeOK
<1>3. /\ Len(requests') = Len(requests)
      /\ \A r \in 1..Len(requests) : requests'[r].answered /\ requests'[r].form = requests[r].form
  BY <1>1, <1>2 DEF Request
<1>4. Pending' = {}
  BY <1>1, <1>3 DEF Pending, Unanswered
<1>5. \A r \in 1..Len(requests') : requests'[r].form <= forms'
  BY <1>1, <1>3 DEF ScreensInv, FormsAreKnown
<1> QED
  BY <1>1, <1>4, <1>5, EmptyScreens

LEMMA ScreensStayInStep == TypeOK /\ QueueInv /\ ScreensInv /\ [Next]_vars => ScreensInv'
PROOF
<1> SUFFICES ASSUME TypeOK, QueueInv, ScreensInv, [Next]_vars
             PROVE  ScreensInv'
  OBVIOUS
<1>1. CASE DismissAlert \/ SendPressed \/ UNCHANGED vars
  <2>1. /\ UNCHANGED nav /\ UNCHANGED forms /\ UNCHANGED requests /\ UNCHANGED mainQueue
        /\ UNCHANGED hasty /\ UNCHANGED currentUser /\ UNCHANGED forcedOut /\ UNCHANGED firestore
    BY <1>1 DEF DismissAlert, SendPressed, vars, authVars, uiVars, dbVars
  <2> QED
    BY <2>1, ScreensStay
<1>2. CASE OpenForm \/ Back \/ LoginPressed
  BY <1>2, ScreensOfOpenForm, ScreensOfBack, ScreensOfLogin
<1>3. CASE (\E saves \in BOOLEAN : LogOutPressed(saves)) \/ (\E removed \in BOOLEAN : SignOutByForce(removed))
  BY <1>3, ScreensOfLogOut, ScreensOfForce
<1>4. CASE Answers
  BY <1>4, ScreensOfAnswer DEF Answers
<1>5. CASE MainQueue
  BY <1>5, ScreensOfMainQueue
<1>6. CASE Restart
  BY <1>6, ScreensOfRestart
<1> QED
  BY <1>1, <1>2, <1>3, <1>4, <1>5, <1>6 DEF Next

-----------------------------------------------------------------------------
(* Firestore and the keychain                                              *)

\* Firestore has heard of the current user when no notification is on its way:
\* it is told of each change, or asks when it is created.
LEMMA AnnouncedStaysInStep ==
    ASSUME TypeOK, QueueInv, AnnouncedInStep, [Next]_vars
    PROVE  AnnouncedInStep'
PROOF
<1>1. ASSUME UNCHANGED mainQueue, UNCHANGED currentUser, UNCHANGED announced, UNCHANGED firestore
      PROVE  AnnouncedInStep'
  BY <1>1 DEF AnnouncedInStep, Slots, IsNotify
<1>2. ASSUME mainQueue' = Append(mainQueue, [kind |-> "notify", user |-> 0])
      PROVE  AnnouncedInStep'
  <2>1. PICK n \in Nat : Grown(n, [kind |-> "notify", user |-> 0])
    BY <1>2, Appended
  <2>2. n \in Slots' /\ mainQueue'[n] = [kind |-> "notify", user |-> 0]
    BY <2>1 DEF Grown
  <2>3. mainQueue'[n].kind = "notify"
    BY <2>2, BlockFields, Zenon
  <2> QED
    BY <2>2, <2>3 DEF AnnouncedInStep, IsNotify
<1>3. CASE OpenForm \/ Back \/ LoginPressed \/ DismissAlert \/ SendPressed \/ UNCHANGED vars
  <2>1. UNCHANGED mainQueue /\ UNCHANGED currentUser /\ UNCHANGED announced /\ UNCHANGED firestore
    BY <1>3 DEF OpenForm, Back, LoginPressed, DismissAlert, SendPressed, vars, authVars, dbVars
  <2> QED
    BY <1>1, <2>1
<1>4. ASSUME NEW saves \in BOOLEAN, LogOutPressed(saves)
      PROVE  AnnouncedInStep'
  <2>1. \/ mainQueue' = Append(mainQueue, [kind |-> "notify", user |-> 0])
        \/ /\ UNCHANGED mainQueue /\ UNCHANGED currentUser /\ UNCHANGED announced
           /\ UNCHANGED firestore
    BY <1>4 DEF LogOutPressed, SignOut, UpdateCurrentUser, dbVars
  <2> QED
    BY <1>1, <1>2, <2>1
<1>5. ASSUME NEW removed \in BOOLEAN, SignOutByForce(removed)
      PROVE  AnnouncedInStep'
  BY <1>2, <1>5 DEF SignOutByForce
<1>6. ASSUME NEW r \in Unanswered, NEW outcome \in Outcomes, AnswerArrives(r, outcome)
      PROVE  AnnouncedInStep'
  <2>1. CASE mainQueue' = mainQueue \o <<[kind |-> "notify", user |-> r],
                                         [kind |-> "answer", request |-> r, ok |-> TRUE]>>
    <3>1. PICK n \in Nat : GrownByTwo(n, [kind |-> "notify", user |-> r],
                                         [kind |-> "answer", request |-> r, ok |-> TRUE])
      BY <2>1, AppendedTwo
    <3>2. n \in Slots' /\ mainQueue'[n] = [kind |-> "notify", user |-> r]
      BY <3>1 DEF GrownByTwo
    <3>3. mainQueue'[n].kind = "notify"
      BY <3>2, BlockFields, Zenon
    <3> QED
      BY <3>2, <3>3 DEF AnnouncedInStep, IsNotify
  <2>2. CASE /\ UNCHANGED currentUser
             /\ mainQueue' = mainQueue \o <<[kind |-> "answer", request |-> r, ok |-> FALSE]>>
    <3>0. mainQueue' = Append(mainQueue, [kind |-> "answer", request |-> r, ok |-> FALSE])
      BY <2>2, OneMoreIsAppend DEF TypeOK
    <3>1. PICK n \in Nat : Grown(n, [kind |-> "answer", request |-> r, ok |-> FALSE])
      BY <3>0, Appended
    <3>2. \A i \in Slots : i \in Slots' /\ (IsNotify(i)' <=> IsNotify(i))
      BY <3>1 DEF Grown
    <3>3. UNCHANGED announced /\ UNCHANGED firestore
      BY <1>6, AnswerFacts
    <3> QED
      BY <2>2, <3>2, <3>3 DEF AnnouncedInStep
  <2> QED
    BY <1>6, <2>1, <2>2, AnswerFacts
<1>7. CASE MainQueue
  <2>1. /\ mainQueue # <<>> /\ mainQueue' = Tail(mainQueue) /\ UNCHANGED currentUser
    BY <1>7 DEF MainQueue, RunNotification, RunCallback, authVars
  <2>2. /\ 1 \in Slots /\ Head(mainQueue) = mainQueue[1]
        /\ \A i \in Slots : i \in Nat /\ (i # 1 => i - 1 \in Slots' /\ mainQueue'[i - 1] = mainQueue[i])
    BY <2>1, Popped
  <2> SUFFICES ASSUME firestore', \A i \in Slots' : ~IsNotify(i)'
               PROVE  announced' = currentUser
    BY <2>1 DEF AnnouncedInStep
  <2>3. \A i \in Slots : IsNotify(i) => i = 1
    <3>1. \A i \in Slots : i # 1 => (IsNotify(i - 1)' <=> IsNotify(i))
      BY <2>2 DEF IsNotify
    <3> QED
      BY <2>2, <3>1
  <2>4. CASE RunNotification
    <3>1. IsNotify(1) /\ firestore /\ announced' = mainQueue[1].user
      BY <2>2, <2>4 DEF RunNotification, IsNotify
    <3>2. mainQueue[1].user = currentUser
      BY <2>2, <2>3, <3>1 DEF QueueInv, LastNotified
    <3> QED
      BY <3>1, <3>2
  <2>5. CASE RunCallback
    <3>1. /\ mainQueue[1].kind = "answer"
          /\ \/ UNCHANGED firestore /\ UNCHANGED announced
             \/ announced' = IF firestore THEN announced ELSE currentUser
      BY <2>2, <2>5 DEF RunCallback
    <3>2. ~IsNotify(1)
      BY <3>1 DEF IsNotify
    <3>3. firestore => announced = currentUser
      BY <2>3, <3>2 DEF AnnouncedInStep
    <3> QED
      BY <3>1, <3>3
  <2> QED
    BY <1>7, <2>4, <2>5 DEF MainQueue
<1>8. CASE Restart
  BY <1>8 DEF Restart, AnnouncedInStep
<1> QED
  BY <1>3, <1>4, <1>5, <1>6, <1>7, <1>8 DEF Next, Answers

\* The keychain and FirebaseAuth change together, but for a forced sign-out.
LEMMA SavedStaysCurrent ==
    ASSUME SavedIsCurrent, [Next]_vars
    PROVE  SavedIsCurrent'
PROOF
<1> USE DEF SavedIsCurrent
<1>1. CASE OpenForm \/ Back \/ LoginPressed \/ DismissAlert \/ SendPressed \/ MainQueue \/ UNCHANGED vars
  <2>1. UNCHANGED savedUser /\ UNCHANGED currentUser /\ UNCHANGED forcedOut
    BY <1>1 DEF OpenForm, Back, LoginPressed, DismissAlert, SendPressed, MainQueue, RunNotification,
                RunCallback, vars, authVars
  <2> QED
    BY <2>1
<1>2. ASSUME NEW saves \in BOOLEAN, LogOutPressed(saves)
      PROVE  SavedIsCurrent'
  BY <1>2 DEF LogOutPressed, SignOut, UpdateCurrentUser
<1>3. ASSUME NEW removed \in BOOLEAN, SignOutByForce(removed)
      PROVE  SavedIsCurrent'
  BY <1>3 DEF SignOutByForce
<1>4. ASSUME NEW r \in Unanswered, NEW outcome \in Outcomes, AnswerArrives(r, outcome)
      PROVE  SavedIsCurrent'
  <2>1. \/ currentUser' = r /\ savedUser' = r
        \/ UNCHANGED currentUser /\ UNCHANGED savedUser /\ UNCHANGED forcedOut
    BY <1>4, AnswerFacts
  <2> QED
    BY <2>1
<1>5. CASE Restart
  BY <1>5 DEF Restart
<1> QED
  BY <1>1, <1>2, <1>3, <1>4, <1>5 DEF Next, Answers

\* Whoever waits for the chat sends after the notification has run.
LEMMA SenderStaysOwner ==
    ASSUME TypeOK, QueueInv, ScreensInv, AnnouncedInStep, SenderOwnsMessage, [Next]_vars
    PROVE  SenderOwnsMessage'
PROOF
<1>1. ASSUME UNCHANGED sent, hasty \subseteq hasty'
      PROVE  SenderOwnsMessage'
  BY <1>1 DEF SenderOwnsMessage
<1>2. CASE SendPressed
  <2>1. /\ TopIs("chat") /\ currentUser # 0 /\ UNCHANGED hasty
        /\ sent' = [sender |-> currentUser, queue |-> announced]
    BY <1>2 DEF SendPressed
  <2>2. sent'.sender = currentUser /\ sent'.queue = announced
    BY <2>1
  <2>3. firestore /\ Pending \subseteq hasty
    BY <2>1, NavFacts, NobodyAlone DEF ScreensInv, ChatsUseFirestore
  <2>4. ASSUME announced # currentUser
        PROVE  currentUser \in hasty
    <3>1. PICK i \in Slots : IsNotify(i) /\ mainQueue[i].user = currentUser
      BY <2>3, <2>4 DEF AnnouncedInStep, QueueInv, LastNotified
    <3>2. i + 1 \in Slots /\ IsAnswer(i + 1) /\ mainQueue[i + 1].request = currentUser
      BY <2>1, <3>1 DEF QueueInv, NotifiedFirst, IsSuccess
    <3> QED
      BY <2>3, <3>2, QueuedIsPending
  <2> QED
    BY <2>1, <2>2, <2>4 DEF SenderOwnsMessage
<1>3. CASE \/ OpenForm \/ Back \/ LoginPressed \/ DismissAlert \/ MainQueue \/ Restart \/ UNCHANGED vars
           \/ \E saves \in BOOLEAN : LogOutPressed(saves)
           \/ \E removed \in BOOLEAN : SignOutByForce(removed)
  <2>1. UNCHANGED sent /\ hasty \subseteq hasty'
    BY <1>3 DEF OpenForm, Back, LoginPressed, DismissAlert, MainQueue, RunNotification, RunCallback,
                Restart, LogOutPressed, SignOutByForce, vars, dbVars
  <2> QED
    BY <1>1, <2>1
<1>4. CASE Answers
  <2>1. UNCHANGED sent /\ hasty \subseteq hasty'
    BY <1>4, AnswerFacts DEF Answers
  <2> QED
    BY <1>1, <2>1
<1> QED
  BY <1>2, <1>3, <1>4 DEF Next

-----------------------------------------------------------------------------
(* The invariant                                                           *)

LEMMA SessionStarts == Init => SessionInv
PROOF
<1> SUFFICES ASSUME Init
             PROVE  SessionInv
  OBVIOUS
<1>1. TypeOK
  BY TypesStart
<1>2. /\ nav = <<>> /\ mainQueue = <<>> /\ firestore = FALSE /\ savedUser = currentUser
      /\ sent = [sender |-> 0, queue |-> 0] /\ currentUser = Len(requests) /\ forms = 0
      /\ requests = <<>> \/ requests = <<[form |-> 0, answered |-> TRUE]>>
  BY DEF Init
<1>3. Slots = {}
  BY <1>2 DEF Slots
<1>4. \A r \in 1..Len(requests) : requests[r].answered /\ requests[r].form = 0
  <2>1. CASE requests = <<>>
    BY <2>1
  <2>2. CASE requests = <<[form |-> 0, answered |-> TRUE]>>
    <3>1. /\ Len(requests) = 1 /\ requests[1] = [form |-> 0, answered |-> TRUE]
      BY <2>2
    <3>2. requests[1].answered /\ requests[1].form = 0
      BY <3>1
    <3>3. \A r \in 1..1 : r = 1
      OBVIOUS
    <3> QED
      BY <3>1, <3>2, <3>3
  <2> QED
    BY <1>2, <2>1, <2>2
<1>5. QueueInv
  <2>1. currentUser # 0 => currentUser \in 1..Len(requests)
    BY <1>2, <1>1, BlockTypes
  <2> QED
    BY <1>3, <1>4, <2>1
    DEF QueueInv, AnswersAreGiven, NotifiedFirst, LastNotified, LatestIsCurrent
<1>6. ScreensInv
  <2>1. (\A f : ~FormIsOpen(f)) /\ ~ChatIsOpen
    BY <1>2 DEF FormIsOpen, ChatIsOpen
  <2>2. Pending = {}
    BY <1>2, <1>4 DEF Pending, Unanswered
  <2>3. FormsAreKnown
    BY <1>2, <1>4 DEF FormsAreKnown
  <2> QED
    BY <2>1, <2>2, <2>3
    DEF ScreensInv, AloneUnlessHasty, CurrentIsShown, ChatsUseFirestore, SuccessHasAUser,
        ChatImpliesSignedIn
<1> QED
  BY <1>1, <1>2, <1>5, <1>6 DEF SessionInv, AnnouncedInStep, SavedIsCurrent, SenderOwnsMessage

LEMMA SessionStaysInStep == SessionInv /\ [Next]_vars => SessionInv'
PROOF
<1> SUFFICES ASSUME SessionInv, [Next]_vars
             PROVE  SessionInv'
  OBVIOUS
<1>1. TypeOK /\ QueueInv /\ ScreensInv /\ AnnouncedInStep /\ SavedIsCurrent /\ SenderOwnsMessage
  BY DEF SessionInv
<1>2. TypeOK' /\ QueueInv' /\ ScreensInv'
  BY <1>1, TypesStay, QueueStaysInStep, ScreensStayInStep
<1>3. AnnouncedInStep' /\ SavedIsCurrent' /\ SenderOwnsMessage'
  BY <1>1, AnnouncedStaysInStep, SavedStaysCurrent, SenderStaysOwner
<1> QED
  BY <1>2, <1>3 DEF SessionInv

\* In every reachable state, for every bound, the invariant above holds: the
\* queue, the screens, the keychain and Firestore's user are in step.
THEOREM SessionInvariance == Spec => []SessionInv
PROOF
<1> QED
  BY SessionStarts, SessionStaysInStep, PTL DEF Spec

\* No chat is shown that the current session would not show, however late the
\* answers come and whatever forms were left or opened again (loginPressed,
\* logOutButtonPressed, FIRAuth updateCurrentUser).
THEOREM NoForeignChat == FairSpec => []ChatsAreCurrent
PROOF
<1>1. SessionInv => ChatsAreCurrent
  <2> SUFFICES ASSUME SessionInv
               PROVE  ChatsAreCurrent
    OBVIOUS
  <2>1. TypeOK /\ ChatImpliesSignedIn
    BY DEF SessionInv, ScreensInv
  <2>2. TopChatIsCurrent
    <3> SUFFICES ASSUME mainQueue = <<>>, TopIs("chat"),
                        currentUser \notin {0, nav[Len(nav)].session}
                 PROVE  currentUser \in hasty /\ ~FormIsOpen(requests[currentUser].form)
      BY DEF TopChatIsCurrent
    <3>1. Slots = {}
      BY DEF Slots
    <3>2. ~TopIsSession(currentUser) /\ currentUser # 0
      BY DEF TopIsSession
    <3>3. ChatIsOpen
      BY <2>1, NavFacts
    <3> QED
      BY <3>1, <3>2, <3>3 DEF SessionInv, ScreensInv, CurrentIsShown
  <2> QED
    BY <2>1, <2>2 DEF ChatsAreCurrent
<1> QED
  BY <1>1, SessionInvariance, PTL DEF FairSpec

\* A restart neither loses nor revives a session, unless it was ended by force
\* (FIRAuth saveUser, signOutByForceWithUserID).
THEOREM KeychainAgrees == FairSpec => []SavedIsCurrent
PROOF
<1>1. SessionInv => SavedIsCurrent
  BY DEF SessionInv
<1> QED
  BY <1>1, SessionInvariance, PTL DEF FairSpec

\* Whoever waits for one answer at a time sends under the session that its
\* message names, although the two are read from different places.
THEOREM MessagesAreTheSenders == FairSpec => []SenderOwnsMessage
PROOF
<1>1. SessionInv => SenderOwnsMessage
  BY DEF SessionInv
<1> QED
  BY <1>1, SessionInvariance, PTL DEF FairSpec
=============================================================================
