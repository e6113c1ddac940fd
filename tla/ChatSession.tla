----------------------------- MODULE ChatSession -----------------------------
(***************************************************************************)
(* Who is signed in, and what FlashChat shows meanwhile.                   *)
(*                                                                         *)
(* A Login or Register form sends a request and waits without blocking:    *)
(* the person may press again, go back, or open another form.  The answer  *)
(* changes the current user on the auth work queue, and then posts, to the *)
(* main queue, first the notification of the change and then the form's    *)
(* callback.  A chat reads the sender of a message from FirebaseAuth, but  *)
(* Firestore puts it in the queue of the user it was last notified of.     *)
(*                                                                         *)
(* A session is named by the request that opened it; 0 is nobody.  Two     *)
(* sessions are told apart even when their accounts are the same.          *)
(***************************************************************************)
EXTENDS Naturals, Sequences

CONSTANTS
    MaxRequests,   \* bound: sign-ins and registrations
    MaxForms,      \* bound: forms opened
    MaxRestarts    \* bound: the app is killed and started again

VARIABLES
    requests,      \* sign-ins: form, and whether an answer came
    currentUser,   \* FIRAuth._currentUser
    savedUser,     \* the user in the keychain (persisted)
    forcedOut,     \* the session was ended by an invalid token
    mainQueue,     \* blocks dispatched to the main queue
    nav,           \* the navigation stack above the Welcome screen
    forms,         \* forms opened so far
    alert,         \* an error alert is presented
    firestore,     \* the first chat has created the Firestore client
    announced,     \* the user Firestore was last notified of
    sent,          \* last message: sessions of its sender field and of its queue
    hasty,         \* requests that were not alone, or whose form was left
    restarts       \* bounded by MaxRestarts

authVars == <<requests, currentUser, savedUser, forcedOut>>
uiVars   == <<nav, forms, alert>>
dbVars   == <<firestore, announced, sent>>
vars == <<authVars, mainQueue, uiVars, dbVars, hasty, restarts>>

-----------------------------------------------------------------------------
Sessions == 0..Len(requests)

Request == [form : Nat, answered : BOOLEAN]
Form    == [kind : {"form"}, form : Nat]
Chat    == [kind : {"chat"}, session : Sessions \ {0}]
Notify  == [kind : {"notify"}, user : Sessions]
Answer  == [kind : {"answer"}, request : Sessions \ {0}, ok : BOOLEAN]

TypeOK ==
    /\ requests \in Seq(Request)
    /\ currentUser \in Sessions
    /\ savedUser \in Sessions
    /\ forcedOut \in BOOLEAN
    /\ mainQueue \in Seq(Notify \cup Answer)
    /\ nav \in Seq(Form \cup Chat)
    /\ \A i \in 1..Len(nav) : nav[i].kind = "form" <=> i = 1
    /\ forms \in Nat
    /\ alert \in BOOLEAN
    /\ firestore \in BOOLEAN
    /\ announced \in Sessions
    /\ sent \in [sender : Sessions, queue : Sessions]
    /\ hasty \subseteq Sessions
    /\ restarts \in Nat

TopIs(kind)  == nav # <<>> /\ nav[Len(nav)].kind = kind
FormIsOpen(f) == nav # <<>> /\ nav[1] = [kind |-> "form", form |-> f]
ChatIsOpen   == \E i \in 1..Len(nav) : nav[i].kind = "chat"

Unanswered == {r \in 1..Len(requests) : ~requests[r].answered}
Pending    == Unanswered \cup {mainQueue[i].request :
                 i \in {j \in 1..Len(mainQueue) : mainQueue[j].kind = "answer"}}

-----------------------------------------------------------------------------
(* The screens, on the main thread                                         *)

\* Init: the keychain may hold the user of an earlier run of the app.
Init ==
    /\ requests \in {<<>>, <<[form |-> 0, answered |-> TRUE]>>}
    /\ currentUser = Len(requests)
    /\ savedUser = currentUser
    /\ forcedOut = FALSE
    /\ mainQueue = <<>>
    /\ nav = <<>>
    /\ forms = 0
    /\ alert = FALSE
    /\ firestore = FALSE
    /\ announced = 0
    /\ sent = [sender |-> 0, queue |-> 0]
    /\ hasty = {}
    /\ restarts = 0

\* Welcome: a new Login or Register form is pushed.
OpenForm ==
    /\ nav = <<>> /\ ~alert
    /\ forms < MaxForms
    /\ forms' = forms + 1
    /\ nav' = <<[kind |-> "form", form |-> forms']>>
    /\ UNCHANGED <<authVars, mainQueue, alert, dbVars, hasty, restarts>>

\* The back button of a form; a chat hides it.
Back ==
    /\ TopIs("form") /\ ~alert
    /\ nav' = <<>>
    /\ hasty' = hasty \cup {r \in Pending : FormIsOpen(requests[r].form)}
    /\ UNCHANGED <<authVars, mainQueue, forms, alert, dbVars, restarts>>

\* loginPressed and registerPressed: the request is sent, the form stays.
LoginPressed ==
    /\ TopIs("form") /\ ~alert
    /\ Len(requests) < MaxRequests
    /\ requests' = Append(requests, [form |-> nav[1].form, answered |-> FALSE])
    /\ hasty' = IF Pending = {} THEN hasty
                                ELSE hasty \cup Pending \cup {Len(requests')}
    /\ UNCHANGED <<currentUser, savedUser, forcedOut, mainQueue, uiVars, dbVars, restarts>>

DismissAlert ==
    /\ alert
    /\ alert' = FALSE
    /\ UNCHANGED <<authVars, mainQueue, nav, forms, dbVars, hasty, restarts>>

\* sendPressed: without a current user nothing happens.
SendPressed ==
    /\ TopIs("chat") /\ ~alert
    /\ currentUser # 0
    /\ sent' = [sender |-> currentUser, queue |-> announced]
    /\ UNCHANGED <<authVars, mainQueue, uiVars, firestore, announced, hasty, restarts>>

\* What becomes of a request: the keychain may refuse the user as well.
Outcomes == {"accepted", "refused", "unsaved"}

\* Mutant of UpdateCurrentUser: the keychain is left alone.
UpdateInMemory(session) ==
    /\ currentUser' = session
    /\ forcedOut' = FALSE
    /\ UNCHANGED savedUser

\* updateCurrentUser, when the user could be saved.
UpdateCurrentUser(session) ==
    /\ currentUser' = session
    /\ savedUser' = session
    /\ forcedOut' = FALSE

\* FIRAuth.signOut: nothing to do without a user; the keychain item must go.
SignOut(saves) ==
    IF currentUser # 0 /\ saves
      THEN /\ UpdateCurrentUser(0)
           /\ mainQueue' = Append(mainQueue, [kind |-> "notify", user |-> 0])
      ELSE UNCHANGED <<currentUser, savedUser, forcedOut, mainQueue>>

\* popToRootViewController: only the Welcome screen stays.
ScreensAfterLogOut == <<>>

\* logOutButtonPressed waits for FIRAuth.signOut.  When it succeeds all screens
\* are popped, otherwise an alert is shown.
LogOutPressed(saves) ==
    /\ TopIs("chat") /\ ~alert
    /\ IF currentUser = 0 \/ saves
         THEN nav' = ScreensAfterLogOut /\ UNCHANGED alert
         ELSE alert' = TRUE /\ UNCHANGED nav
    /\ SignOut(saves)
    /\ UNCHANGED <<requests, forms, dbVars, hasty, restarts>>

-----------------------------------------------------------------------------
(* FirebaseAuth, on its work queue                                         *)

\* Mutants of Blocks: the callback comes first; an unsaved user is not reported.
CallbackFirst(r, outcome) ==
    IF outcome = "accepted"
      THEN <<[kind |-> "answer", request |-> r, ok |-> TRUE], [kind |-> "notify", user |-> r]>>
      ELSE <<[kind |-> "answer", request |-> r, ok |-> FALSE]>>

BlocksIfSaved(r, outcome) ==
    IF outcome = "accepted"
      THEN <<[kind |-> "notify", user |-> r], [kind |-> "answer", request |-> r, ok |-> TRUE]>>
      ELSE IF outcome = "unsaved" THEN <<>>
      ELSE <<[kind |-> "answer", request |-> r, ok |-> FALSE]>>

\* What is posted to the main queue: the notification, then the form's callback.
Blocks(r, outcome) ==
    IF outcome = "accepted"
      THEN <<[kind |-> "notify", user |-> r], [kind |-> "answer", request |-> r, ok |-> TRUE]>>
      ELSE <<[kind |-> "answer", request |-> r, ok |-> FALSE]>>

\* The backend answers, in any order: the decorated callback saves the user,
\* makes it current and posts the blocks.
AnswerArrives(r, outcome) ==
    /\ requests' = [requests EXCEPT ![r].answered = TRUE]
    /\ IF outcome = "accepted" THEN UpdateCurrentUser(r)
                               ELSE UNCHANGED <<currentUser, savedUser, forcedOut>>
    /\ mainQueue' = mainQueue \o Blocks(r, outcome)
    /\ UNCHANGED <<uiVars, dbVars, hasty, restarts>>

\* A token request of the current session learns that the token is invalid.
\* The user is signed out, even if the keychain item stays.
SignOutByForce(removed) ==
    /\ firestore
    /\ currentUser # 0
    /\ currentUser' = 0
    /\ savedUser' = IF removed THEN 0 ELSE savedUser
    /\ forcedOut' = TRUE
    /\ mainQueue' = Append(mainQueue, [kind |-> "notify", user |-> 0])
    /\ UNCHANGED <<requests, uiVars, dbVars, hasty, restarts>>

-----------------------------------------------------------------------------
(* The main queue                                                          *)

\* Firestore's credentials provider learns of the change, if it exists.
RunNotification ==
    /\ mainQueue # <<>>
    /\ Head(mainQueue).kind = "notify"
    /\ announced' = IF firestore THEN Head(mainQueue).user ELSE announced
    /\ mainQueue' = Tail(mainQueue)
    /\ UNCHANGED <<authVars, uiVars, firestore, sent, hasty, restarts>>

\* Mutant of Succeeded: the service goes on after an error.
SucceededAnyway(a) == a.request > 0

\* loginUser and createUser report an error and return, or report success.
Succeeded(a) == a.ok

\* The form's callback holds the form weakly.
FormIsThere(a) == FormIsOpen(requests[a.request].form)

\* The form's callback.  If the form is still on the stack, a chat is pushed,
\* also over another chat; or the error is shown, when the form is visible.
\* The first chat creates the Firestore client.
RunCallback ==
    /\ mainQueue # <<>>
    /\ Head(mainQueue).kind = "answer"
    /\ LET a == Head(mainQueue)
       IN  \/ /\ ~FormIsThere(a)
              /\ UNCHANGED <<nav, alert, firestore, announced>>
           \/ /\ FormIsThere(a) /\ ~Succeeded(a)
              /\ alert' = (alert \/ TopIs("form"))
              /\ UNCHANGED <<nav, firestore, announced>>
           \/ /\ FormIsThere(a) /\ Succeeded(a)
              /\ nav' = Append(nav, [kind |-> "chat", session |-> a.request])
              /\ firestore' = TRUE
              /\ announced' = IF firestore THEN announced ELSE currentUser
              /\ UNCHANGED alert
    /\ mainQueue' = Tail(mainQueue)
    /\ UNCHANGED <<authVars, forms, sent, hasty, restarts>>

\* The app is killed and started: it opens at the Welcome screen, with the
\* saved user; requests and callbacks are lost.
Restart ==
    /\ restarts < MaxRestarts
    /\ restarts' = restarts + 1
    /\ requests' = [r \in 1..Len(requests) |-> [requests[r] EXCEPT !.answered = TRUE]]
    /\ currentUser' = savedUser
    /\ forcedOut' = FALSE
    /\ mainQueue' = <<>>
    /\ nav' = <<>>
    /\ alert' = FALSE
    /\ firestore' = FALSE
    /\ announced' = 0
    /\ UNCHANGED <<savedUser, forms, sent, hasty>>

-----------------------------------------------------------------------------
Answers   == \E r \in Unanswered, outcome \in Outcomes : AnswerArrives(r, outcome)
MainQueue == RunNotification \/ RunCallback

Next ==
    \/ OpenForm
    \/ Back
    \/ LoginPressed
    \/ DismissAlert
    \/ SendPressed
    \/ \E saves \in BOOLEAN : LogOutPressed(saves)
    \/ Answers
    \/ \E removed \in BOOLEAN : SignOutByForce(removed)
    \/ MainQueue
    \/ Restart

\* A request is answered, at the latest by its timeout, and the main queue
\* runs its blocks.  The person need not do anything.
Fairness == WF_vars(Answers) /\ WF_vars(MainQueue)

Spec == Init /\ [][Next]_vars
FairSpec == Spec /\ Fairness

-----------------------------------------------------------------------------
(* Properties                                                              *)

\* Nobody looks at a chat without being signed in, unless the session was ended
\* by force: answers that arrive late, or twice, never show a chat after the
\* log out that took away their form.
ChatImpliesSignedIn == ChatIsOpen /\ currentUser = 0 => forcedOut

\* The keychain and FirebaseAuth agree on the user, so a restart neither loses
\* nor revives a session; only a forced sign-out may leave the item behind.
SavedIsCurrent == savedUser # currentUser => forcedOut /\ currentUser = 0

\* When the callbacks have run, the visible chat belongs to the current session.
\* The exception is a session nobody waits for: its form was left before the
\* answer came, and it takes over under an open chat.
TopChatIsCurrent ==
    (mainQueue = <<>> /\ TopIs("chat") /\ currentUser \notin {0, nav[Len(nav)].session})
        => currentUser \in hasty /\ ~FormIsOpen(requests[currentUser].form)

\* No chat is shown that the current session would not show.
ChatsAreCurrent == TypeOK /\ ChatImpliesSignedIn /\ TopChatIsCurrent

\* A message is put in the mutation queue of the session that its sender field
\* names, as the security rules of a chat would require, although the two are
\* read from different places: whoever waits for one answer at a time never
\* sends before Firestore was notified.
SenderOwnsMessage == sent.sender # sent.queue => sent.sender \in hasty

\* Whoever presses Log In and waits is told: by a chat or an alert.
FormIsAnswered ==
    \A r \in 1..MaxRequests, f \in 1..MaxForms :
        (/\ r \in Unanswered
         /\ requests[r].form = f
         /\ FormIsOpen(f))
            ~> (~FormIsOpen(f) \/ ChatIsOpen \/ alert)
=============================================================================
