------------------------------ MODULE AppsProofs ------------------------------
(***************************************************************************)
(* Proofs about the small apps, for any documents, eggs, quizzes and       *)
(* bounds.  They share no variable, so a step of one app preserves what is *)
(* known of the others because it changes nothing of theirs.               *)
(***************************************************************************)
EXTENDS MCApps, FiniteSetTheorems, TLAPS

\* A step belongs to one app, and leaves the variables of the others alone.
LEMMA OneAppMoves ==
  ASSUME [Next]_vars
  PROVE  /\ Quotes!Next \/ UNCHANGED quotesVars
         /\ Keypad!Next \/ UNCHANGED keypadVars
         /\ Lookup!Next \/ UNCHANGED lookupVars
         /\ Egg!Next \/ UNCHANGED eggVars
         /\ Quiz!Next \/ UNCHANGED quizVars
         /\ Todo!Next \/ UNCHANGED todoVars
         /\ Screen!Next \/ UNCHANGED chatVars
<1>1. CASE Screen!Next /\ Only("chat")
  BY <1>1 DEF Only
<1>2. CASE Quotes!Next /\ Only("quotes")
  BY <1>2 DEF Only
<1>3. CASE Keypad!Next /\ Only("keypad")
  BY <1>3 DEF Only
<1>4. CASE Lookup!Next /\ Only("lookup")
  BY <1>4 DEF Only
<1>5. CASE Egg!Next /\ Only("egg")
  BY <1>5 DEF Only
<1>6. CASE Quiz!Next /\ Only("quiz")
  BY <1>6 DEF Only
<1>7. CASE Todo!Next /\ Only("todo")
  BY <1>7 DEF Only
<1>8. CASE UNCHANGED vars
  BY <1>8 DEF vars
<1>. QED
  BY <1>1, <1>2, <1>3, <1>4, <1>5, <1>6, <1>7, <1>8 DEF Next

\* The modules count with the same operator.
LEMMA SameCardinality ==
  ASSUME NEW S
  PROVE  /\ Quiz!Cardinality(S) = Cardinality(S)
         /\ Todo!Cardinality(S) = Cardinality(S)
         /\ Screen!Cardinality(S) = Cardinality(S)
BY DEF Quiz!Cardinality, Todo!Cardinality, Screen!Cardinality, Cardinality

-----------------------------------------------------------------------------
(* InspoQuotes                                                             *)

\* Transactions have the numbers that were given out, and a store that asks the
\* app to unlock the quotes has been paid.
TransactionsAreReal ==
    \A t \in queue : t.id <= made /\ (t.state \in Quotes!Unlocking => paid)

\* Where a transaction is handled, the flag is already stored.
HandledIsStored == handling # 0 => isPurchased

QuotesInv == QuotesFollowPayments /\ TransactionsAreReal /\ HandledIsStored

LEMMA QuotesInit ==
  ASSUME Quotes!Init
  PROVE  QuotesInv
<1>1. MaxPayments \in Nat
  BY AppsAssumption
<1>2. running \in BOOLEAN /\ isPurchased \in BOOLEAN /\ restoreButton \in BOOLEAN
      /\ paid \in BOOLEAN /\ charged \in BOOLEAN
  BY Zenon DEF Quotes!Init
<1>3. made \in 0..MaxPayments /\ handling \in 0..made
  BY <1>1 DEF Quotes!Init
<1>. QED
  BY <1>2, <1>3 DEF Quotes!Init, QuotesInv, QuotesFollowPayments, TransactionsAreReal,
    HandledIsStored, Quotes!TypeOK, Quotes!ChargedIsRemembered, Quotes!FlagIsPaid,
    Quotes!FlagIsShown

\* What is known of a transaction in the queue.
LEMMA QueueFacts ==
  ASSUME QuotesInv, NEW t \in queue
  PROVE  /\ t.id \in 1..made /\ t.state \in Quotes!States
         /\ t = [id |-> t.id, state |-> t.state]
         /\ \A u \in queue : u.id = t.id => u = t
         /\ t.state \in Quotes!Unlocking => paid
<1>1. t \in [id : 1..MaxPayments, state : Quotes!States]
  BY DEF QuotesInv, QuotesFollowPayments, Quotes!TypeOK, Quotes!Transaction
<1>2. t.id \in 1..MaxPayments /\ t.state \in Quotes!States
      /\ t = [id |-> t.id, state |-> t.state]
  BY <1>1
<1>3. made \in Nat /\ MaxPayments \in Nat
  BY AppsAssumption DEF QuotesInv, QuotesFollowPayments, Quotes!TypeOK
<1>4. t.id <= made
  BY DEF QuotesInv, TransactionsAreReal
<1>5. t.id \in 1..made
  BY <1>2, <1>3, <1>4
<1>. QED
  BY <1>2, <1>5 DEF QuotesInv, QuotesFollowPayments, Quotes!TypeOK, TransactionsAreReal

\* A transaction is made, with a number of its own.
LEMMA QuotesMade ==
  ASSUME QuotesInv, NEW s \in Quotes!States, s \in Quotes!Unlocking => paid,
         s # "purchased",
         made < MaxPayments, made' = made + 1,
         queue' = queue \cup {[id |-> made', state |-> s]},
         UNCHANGED <<running, isPurchased, batches, restoreButton, delivered, handling,
                     paid, charged, launches>>
  PROVE  QuotesInv'
<1>1. MaxPayments \in Nat /\ made \in Nat /\ made' \in 1..MaxPayments /\ made' # 0
      /\ made' \in 0..MaxPayments
  BY AppsAssumption DEF QuotesInv, QuotesFollowPayments, Quotes!TypeOK
<1>2. PICK n : n = [id |-> made', state |-> s]
  OBVIOUS
<1>3. n.id = made' /\ n.state = s /\ n \in Quotes!Transaction
  BY <1>1, <1>2, Zenon DEF Quotes!Transaction
<1>4. queue' = queue \cup {n}
  BY <1>2
<1>5. \A t \in queue : t.id \in Nat /\ t.id <= made /\ t.id # made' /\ t.id <= made'
  BY <1>1, QueueFacts
<1>6. queue' \subseteq Quotes!Transaction
  BY <1>3, <1>4 DEF QuotesInv, QuotesFollowPayments, Quotes!TypeOK
<1>7. \A t, u \in queue' : t.id = u.id => t = u
  BY <1>3, <1>4, <1>5 DEF QuotesInv, QuotesFollowPayments, Quotes!TypeOK
<1>8. handling' \in 0..made'
  BY <1>1 DEF QuotesInv, QuotesFollowPayments, Quotes!TypeOK
<1>9. Quotes!TypeOK'
  BY <1>1, <1>4, <1>6, <1>7, <1>8
     DEF QuotesInv, QuotesFollowPayments, Quotes!TypeOK, Quotes!Transaction
<1>10. TransactionsAreReal'
  BY <1>1, <1>3, <1>4, <1>5 DEF QuotesInv, TransactionsAreReal, Quotes!Unlocking
<1>. QED
  BY <1>4, <1>9, <1>10 DEF QuotesInv, QuotesFollowPayments, HandledIsStored,
    Quotes!ChargedIsRemembered, Quotes!FlagIsPaid, Quotes!FlagIsShown

\* The store moves a payment on under its number.
LEMMA QuotesAnswered ==
  ASSUME QuotesInv, NEW t \in queue, NEW s \in Quotes!States, Quotes!StoreAnswers(t, s)
  PROVE  QuotesInv'
<1>1. PICK n : n = [t EXCEPT !.state = s]
  OBVIOUS
<1>2. t.id \in 1..made /\ t.state \in Quotes!States /\ t = [id |-> t.id, state |-> t.state]
      /\ \A u \in queue : u.id = t.id => u = t
  BY QueueFacts
<1>3. n.id = t.id /\ n.state = s /\ n = [id |-> t.id, state |-> s]
  BY <1>1, <1>2
<1>4. made \in Nat /\ MaxPayments \in Nat /\ made <= MaxPayments
  BY AppsAssumption DEF QuotesInv, QuotesFollowPayments, Quotes!TypeOK
<1>5. n \in Quotes!Transaction
  BY <1>2, <1>3, <1>4 DEF Quotes!Transaction
<1>6. /\ queue' = (queue \ {t}) \cup {n} /\ delivered' = delivered \ {t}
      /\ UNCHANGED <<running, isPurchased, batches, restoreButton, handling, made, launches>>
      /\ s \in {"deferred", "purchased", "failed"}
      /\ t.state \in {"purchasing", "deferred"}
      /\ paid' = (paid \/ s = "purchased") /\ charged' = (charged \/ s = "purchased")
  BY <1>1 DEF Quotes!StoreAnswers
<1>7. queue' \subseteq Quotes!Transaction
  BY <1>5, <1>6 DEF QuotesInv, QuotesFollowPayments, Quotes!TypeOK
<1>8. \A u, v \in queue' : u.id = v.id => u = v
  BY <1>2, <1>3, <1>6 DEF QuotesInv, QuotesFollowPayments, Quotes!TypeOK
<1>9. delivered' \subseteq queue'
  BY <1>6 DEF QuotesInv, QuotesFollowPayments, Quotes!TypeOK
<1>10. handling' # 0 => running' /\ \E u \in queue' : u.id = handling'
  BY <1>3, <1>6 DEF QuotesInv, QuotesFollowPayments, Quotes!TypeOK
<1>11. paid' \in BOOLEAN /\ charged' \in BOOLEAN
  BY <1>6, Zenon DEF QuotesInv, QuotesFollowPayments, Quotes!TypeOK
<1>12. Quotes!TypeOK'
  BY <1>6, <1>7, <1>8, <1>9, <1>10, <1>11
     DEF QuotesInv, QuotesFollowPayments, Quotes!TypeOK, Quotes!Transaction
<1>13. TransactionsAreReal'
  <2>1. SUFFICES ASSUME NEW u \in queue'
                 PROVE  u.id <= made' /\ (u.state \in Quotes!Unlocking => paid')
    BY DEF TransactionsAreReal
  <2>2. CASE u = n
    <3>1. u.id <= made' /\ u.state = s
      BY <1>2, <1>3, <1>4, <1>6, <2>2
    <3>2. s \in Quotes!Unlocking => s = "purchased"
      BY <1>6 DEF Quotes!Unlocking
    <3>3. s = "purchased" => paid'
      BY <1>6
    <3>. QED
      BY <3>1, <3>2, <3>3
  <2>3. CASE u \in queue
    BY <1>6, <2>3 DEF QuotesInv, TransactionsAreReal
  <2>. QED
    BY <1>6, <2>2, <2>3
<1>14. Quotes!ChargedIsRemembered'
  <2>1. CASE s = "purchased"
    BY <1>3, <1>6, <2>1 DEF Quotes!ChargedIsRemembered
  <2>2. CASE s # "purchased"
    BY <1>6, <2>2 DEF Quotes!ChargedIsRemembered, QuotesInv, QuotesFollowPayments
  <2>. QED
    BY <2>1, <2>2
<1>15. Quotes!FlagIsPaid' /\ Quotes!FlagIsShown' /\ HandledIsStored'
  BY <1>6 DEF QuotesInv, QuotesFollowPayments, HandledIsStored, Quotes!FlagIsPaid,
    Quotes!FlagIsShown
<1>. QED
  BY <1>12, <1>13, <1>14, <1>15 DEF QuotesInv, QuotesFollowPayments

\* A transaction leaves the queue when nothing is lost with it.
LEMMA QuotesFinished ==
  ASSUME QuotesInv, NEW t \in queue, t.state = "purchased" => isPurchased,
         handling' = 0, queue' = queue \ {t}, delivered' \in {delivered, delivered \ {t}},
         delivered' \subseteq queue', restoreButton' \in BOOLEAN,
         UNCHANGED <<running, isPurchased, batches, paid, charged, made, launches>>
  PROVE  QuotesInv'
<1>1. made' \in Nat /\ handling' \in 0..made'
  BY DEF QuotesInv, QuotesFollowPayments, Quotes!TypeOK
<1>2. Quotes!TypeOK'
  BY <1>1 DEF QuotesInv, QuotesFollowPayments, Quotes!TypeOK, Quotes!Transaction
<1>3. Quotes!ChargedIsRemembered'
  BY DEF QuotesInv, QuotesFollowPayments, Quotes!ChargedIsRemembered
<1>4. TransactionsAreReal'
  BY DEF QuotesInv, TransactionsAreReal
<1>. QED
  BY <1>2, <1>3, <1>4 DEF QuotesInv, QuotesFollowPayments, HandledIsStored,
    Quotes!FlagIsPaid, Quotes!FlagIsShown

\* Steps that leave the transactions alone.
LEMMA QuotesKept ==
  ASSUME QuotesInv, UNCHANGED <<queue, paid, charged, made>>,
         isPurchased' \in BOOLEAN, isPurchased => isPurchased', isPurchased' => paid,
         handling' # 0 => /\ isPurchased' /\ running'
                          /\ \E t \in queue : t.id = handling',
         running' \in BOOLEAN, batches' \in Nat, launches' \in Nat,
         restoreButton' \in BOOLEAN, delivered' \subseteq queue,
         running' => (isPurchased' <=> batches' > 0)
  PROVE  QuotesInv'
<1>1. handling' \in 0..made'
  <2>1. made \in Nat
    BY AppsAssumption DEF QuotesInv, QuotesFollowPayments, Quotes!TypeOK
  <2>2. CASE handling' = 0
    BY <2>1, <2>2
  <2>3. CASE handling' # 0
    BY <2>1, <2>3, QueueFacts
  <2>. QED
    BY <2>2, <2>3
<1>2. Quotes!TypeOK'
  BY <1>1 DEF QuotesInv, QuotesFollowPayments, Quotes!TypeOK, Quotes!Transaction
<1>3. Quotes!ChargedIsRemembered'
  BY DEF QuotesInv, QuotesFollowPayments, Quotes!ChargedIsRemembered
<1>4. TransactionsAreReal'
  BY DEF QuotesInv, TransactionsAreReal
<1>. QED
  BY <1>2, <1>3, <1>4 DEF QuotesInv, QuotesFollowPayments, HandledIsStored,
    Quotes!FlagIsPaid, Quotes!FlagIsShown

LEMMA QuotesStep ==
  ASSUME QuotesInv, Quotes!Next \/ UNCHANGED quotesVars
  PROVE  QuotesInv'
<1>. Quotes!TypeOK /\ Quotes!FlagIsPaid /\ Quotes!FlagIsShown
  BY DEF QuotesInv, QuotesFollowPayments
<1>. USE DEF Quotes!appVars
<1>1. CASE Quotes!ViewDidLoad
  <2>1. /\ batches' = IF isPurchased THEN 1 ELSE 0
        /\ running' = TRUE /\ restoreButton' = TRUE /\ launches' = launches + 1
        /\ UNCHANGED <<isPurchased, queue, delivered, handling, paid, charged, made>>
    BY <1>1 DEF Quotes!ViewDidLoad, Quotes!QuotesAtLaunch
  <2>2. batches' \in Nat /\ launches' \in Nat /\ (isPurchased <=> batches' > 0)
    BY <2>1 DEF Quotes!TypeOK
  <2>3. running' \in BOOLEAN /\ restoreButton' \in BOOLEAN
    BY <2>1, Zenon
  <2>4. handling' = 0
    BY <1>1 DEF Quotes!ViewDidLoad, Quotes!TypeOK
  <2>. QED
    BY <2>1, <2>2, <2>3, <2>4, QuotesKept DEF Quotes!TypeOK, Quotes!FlagIsPaid
<1>2. CASE Quotes!Killed
  <2>1. /\ running' = FALSE /\ restoreButton' = FALSE /\ delivered' = {} /\ handling' = 0
        /\ batches' = 0
        /\ UNCHANGED <<isPurchased, queue, paid, charged, made, launches>>
    BY <1>2 DEF Quotes!Killed
  <2>2. running' \in BOOLEAN /\ restoreButton' \in BOOLEAN
    BY <2>1, Zenon
  <2>. QED
    BY <2>1, <2>2, QuotesKept DEF Quotes!TypeOK, Quotes!FlagIsPaid
<1>3. CASE Quotes!BuyPremiumQuotes
  <2>1. "purchasing" \in Quotes!States /\ "purchasing" \notin Quotes!Unlocking
    BY DEF Quotes!States, Quotes!Unlocking
  <2>. QED
    BY <1>3, <2>1, QuotesMade DEF Quotes!BuyPremiumQuotes
<1>4. CASE Quotes!RestorePurchases
  <2>1. "restored" \in Quotes!States
    BY DEF Quotes!States
  <2>. QED
    BY <1>4, <2>1, QuotesMade DEF Quotes!RestorePurchases
<1>5. ASSUME NEW t \in queue, NEW s \in Quotes!States, Quotes!StoreAnswers(t, s)
      PROVE  QuotesInv'
  BY <1>5, QuotesAnswered
<1>6. ASSUME NEW t \in queue, Quotes!ObserveWaiting(t)
      PROVE  QuotesInv'
  BY <1>6, QuotesKept DEF Quotes!ObserveWaiting, Quotes!TypeOK, Quotes!FlagIsPaid,
    Quotes!FlagIsShown
<1>7. ASSUME NEW t \in queue, Quotes!Show(t)
      PROVE  QuotesInv'
  <2>1. /\ t.state \in Quotes!Unlocking
        /\ isPurchased' = TRUE /\ batches' = batches + 1
        /\ delivered' = delivered \cup {t} /\ handling' = t.id /\ running
        /\ UNCHANGED <<running, restoreButton, queue, paid, charged, made, launches>>
    BY <1>7 DEF Quotes!Show, Quotes!ShowPremiumQuotes, Quotes!ShowsQuotes
  <2>2. paid
    BY <2>1, QueueFacts
  <2>3. batches' \in Nat /\ batches' > 0
    BY <2>1 DEF Quotes!TypeOK
  <2>4. isPurchased' \in BOOLEAN
    BY <2>1, Zenon
  <2>. QED
    BY <2>1, <2>2, <2>3, <2>4, QuotesKept DEF Quotes!TypeOK
<1>8. ASSUME NEW t \in queue, Quotes!FinishFailed(t)
      PROVE  QuotesInv'
  BY <1>8, QuotesFinished DEF Quotes!FinishFailed, Quotes!TypeOK
<1>9. CASE Quotes!FinishShown
  <2>1. PICK t \in queue :
          /\ t.id = handling /\ queue' = queue \ {t} /\ delivered' = delivered \ {t}
          /\ restoreButton' = (restoreButton /\ t.state # "restored")
    BY <1>9 DEF Quotes!FinishShown
  <2>2. isPurchased
    BY <2>1, QueueFacts DEF QuotesInv, HandledIsStored
  <2>3. restoreButton' \in BOOLEAN
    BY <2>1, Zenon DEF Quotes!TypeOK
  <2>4. delivered' \subseteq queue'
    BY <2>1 DEF Quotes!TypeOK
  <2>5. handling' = 0 /\ UNCHANGED <<running, isPurchased, batches, paid, charged, made, launches>>
    BY <1>9 DEF Quotes!FinishShown
  <2>. QED
    BY <2>1, <2>2, <2>3, <2>4, <2>5, QuotesFinished
<1>10. CASE UNCHANGED quotesVars
  BY <1>10 DEF quotesVars, QuotesInv, QuotesFollowPayments, TransactionsAreReal, HandledIsStored,
    Quotes!TypeOK, Quotes!ChargedIsRemembered, Quotes!FlagIsPaid, Quotes!FlagIsShown
<1>. QED
  BY <1>1, <1>2, <1>3, <1>4, <1>5, <1>6, <1>7, <1>8, <1>9, <1>10
     DEF Quotes!Next, Quotes!Observe

\* Whatever fails, waits for approval or is delivered again, and wherever the app
\* is killed between storing the flag and finishing the transaction: a charge is
\* remembered by the flag or by the payment queue, the flag is only set for what
\* was paid for, and a running app shows the premium quotes under it.
THEOREM ChargesAreRemembered == FairSpec => []QuotesFollowPayments
<1>1. Init => QuotesInv
  BY QuotesInit DEF Init
<1>2. QuotesInv /\ [Next]_vars => QuotesInv'
  BY QuotesStep, OneAppMoves
<1>3. QuotesInv => QuotesFollowPayments
  BY DEF QuotesInv
<1>. QED
  BY <1>1, <1>2, <1>3, PTL DEF FairSpec

-----------------------------------------------------------------------------
(* Quizzler                                                                *)

\* Fingers and feedbacks are bounded together.
QuizBounds ==
    /\ IsFiniteSet(held) /\ Cardinality(held) + feedbacks <= MaxTouches

\* With one finger at a time, a held button is enabled and alone; while the
\* buttons are enabled no feedback is shown, and a question is left.
OneFinger ==
    ~twoFingers =>
        /\ held # {} => isUserInteractionEnabled
        /\ \A a, b \in held : a = b
        /\ isUserInteractionEnabled =>
              feedbacks = 0 /\ ~score /\ currentQuizNumber < NumberOfQuestions
        /\ feedbacks = 1 => ~score /\ currentQuizNumber < NumberOfQuestions
        /\ currentQuizNumber <= NumberOfQuestions
        /\ score => currentQuizNumber = NumberOfQuestions

QuizInv == QuizInStep /\ QuizBounds /\ OneFinger

LEMMA QuizInit ==
  ASSUME Quiz!Init
  PROVE  QuizInv
<1>1. MaxTouches \in Nat /\ NumberOfQuestions \in Nat \ {0}
  BY AppsAssumption
<1>2. isUserInteractionEnabled \in BOOLEAN /\ score \in BOOLEAN /\ outOfRange \in BOOLEAN
      /\ twoFingers \in BOOLEAN
  BY Zenon DEF Quiz!Init
<1>3. IsFiniteSet(held) /\ Cardinality(held) = 0
  BY FS_EmptySet DEF Quiz!Init
<1>4. correctAnswers \in 0..answers /\ feedbacks \in 0..MaxTouches
      /\ question \in 0..(NumberOfQuestions - 1) /\ answers \in Nat
      /\ currentQuizNumber \in Nat
  BY <1>1 DEF Quiz!Init
<1>. QED
  BY <1>1, <1>2, <1>3, <1>4 DEF Quiz!Init, QuizInv, QuizInStep, QuizBounds, OneFinger,
    Quiz!TypeOK, Quiz!OneAnswerEach, Quiz!QuestionIsCurrent

LEMMA QuizTouchDown ==
  ASSUME QuizInv, NEW button \in Buttons, Quiz!TouchDown(button)
  PROVE  QuizInv'
<1>1. /\ ~outOfRange /\ ~score /\ isUserInteractionEnabled /\ button \notin held
      /\ Cardinality(held) + feedbacks < MaxTouches
      /\ held' = held \cup {button} /\ twoFingers' = (twoFingers \/ held # {})
      /\ UNCHANGED <<currentQuizNumber, correctAnswers, isUserInteractionEnabled,
                     feedbacks, question, score, outOfRange, answers>>
  <2>1. ~outOfRange /\ ~score /\ isUserInteractionEnabled /\ button \notin held
    BY Zenon DEF Quiz!TouchDown
  <2>2. twoFingers' = (twoFingers \/ held # {})
    BY Zenon DEF Quiz!TouchDown
  <2>3. /\ Cardinality(held) + feedbacks < MaxTouches
        /\ held' = held \cup {button}
    BY SameCardinality DEF Quiz!TouchDown
  <2>4. UNCHANGED <<currentQuizNumber, correctAnswers, isUserInteractionEnabled,
                    feedbacks, question, score, outOfRange, answers>>
    BY DEF Quiz!TouchDown
  <2>. QED
    BY <2>1, <2>2, <2>3, <2>4, Zenon
<1>2. Quiz!TypeOK /\ MaxTouches \in Nat
  BY AppsAssumption DEF QuizInv, QuizInStep
<1>3. QuizBounds'
  <2>1. IsFiniteSet(held)
    BY DEF QuizInv, QuizBounds
  <2>2. IsFiniteSet(held') /\ Cardinality(held') = Cardinality(held) + 1
    BY <1>1, <2>1, FS_AddElement
  <2>3. Cardinality(held) \in Nat /\ feedbacks \in Nat
    BY <1>2, <2>1, FS_CardinalityType DEF Quiz!TypeOK
  <2>4. Cardinality(held') + feedbacks <= MaxTouches
    BY <1>1, <1>2, <2>2, <2>3
  <2>. QED
    BY <1>1, <2>2, <2>4 DEF QuizBounds
<1>4. twoFingers' \in BOOLEAN
  BY <1>1, <1>2, Zenon DEF Quiz!TypeOK
<1>5. Quiz!TypeOK'
  BY <1>1, <1>2, <1>4 DEF Quiz!TypeOK
<1>6. Quiz!OneAnswerEach' /\ Quiz!QuestionIsCurrent'
  BY <1>1 DEF QuizInv, QuizInStep, Quiz!OneAnswerEach, Quiz!QuestionIsCurrent
<1>7. OneFinger'
  BY <1>1 DEF QuizInv, OneFinger
<1>. QED
  BY <1>3, <1>5, <1>6, <1>7 DEF QuizInv, QuizInStep

\* A finger less leaves room for a feedback more.
LEMMA QuizLifted ==
  ASSUME QuizInv, NEW button \in held, held' = held \ {button}
  PROVE  /\ IsFiniteSet(held') /\ Cardinality(held') \in Nat
         /\ Cardinality(held') + feedbacks + 1 <= MaxTouches
<1>1. IsFiniteSet(held) /\ Cardinality(held) + feedbacks <= MaxTouches
  BY DEF QuizInv, QuizBounds
<1>2. IsFiniteSet(held') /\ Cardinality(held') = Cardinality(held) - 1
  BY <1>1, FS_RemoveElement
<1>3. Cardinality(held) \in Nat /\ Cardinality(held') \in Nat
  BY <1>1, <1>2, FS_CardinalityType
<1>4. feedbacks \in Nat /\ MaxTouches \in Nat
  BY AppsAssumption DEF QuizInv, QuizInStep, Quiz!TypeOK
<1>. QED
  BY <1>1, <1>2, <1>3, <1>4

LEMMA QuizTouchCancel ==
  ASSUME QuizInv, NEW button \in Buttons, Quiz!TouchCancel(button)
  PROVE  QuizInv'
<1>1. /\ button \in held /\ held' = held \ {button}
      /\ UNCHANGED <<currentQuizNumber, correctAnswers, isUserInteractionEnabled,
                     feedbacks, question, score, outOfRange, answers, twoFingers>>
  BY DEF Quiz!TouchCancel
<1>2. QuizBounds'
  <2>1. feedbacks \in Nat /\ MaxTouches \in Nat
    BY AppsAssumption DEF QuizInv, QuizInStep, Quiz!TypeOK
  <2>2. IsFiniteSet(held') /\ Cardinality(held') \in Nat
        /\ Cardinality(held') + feedbacks + 1 <= MaxTouches
    BY <1>1, QuizLifted
  <2>3. Cardinality(held') + feedbacks <= MaxTouches
    BY <2>1, <2>2
  <2>. QED
    BY <1>1, <2>2, <2>3 DEF QuizBounds
<1>3. QuizInStep'
  BY <1>1 DEF QuizInv, QuizInStep, Quiz!TypeOK, Quiz!OneAnswerEach, Quiz!QuestionIsCurrent
<1>4. OneFinger'
  BY <1>1 DEF QuizInv, OneFinger
<1>. QED
  BY <1>2, <1>3, <1>4 DEF QuizInv

LEMMA QuizAnswer ==
  ASSUME QuizInv, NEW button \in Buttons, Quiz!AnswerButtonPressed(button)
  PROVE  QuizInv'
<1>1. /\ ~outOfRange /\ button \in held /\ held' = held \ {button}
      /\ isUserInteractionEnabled' = FALSE
      /\ UNCHANGED <<currentQuizNumber, question, score, twoFingers>>
  BY DEF Quiz!AnswerButtonPressed, Quiz!Disabled
<1>. Quiz!TypeOK /\ MaxTouches \in Nat /\ NumberOfQuestions \in Nat \ {0}
  BY AppsAssumption DEF QuizInv, QuizInStep
<1>2. IsFiniteSet(held') /\ Cardinality(held') \in Nat
      /\ Cardinality(held') + feedbacks + 1 <= MaxTouches
  BY <1>1, QuizLifted
<1>3. isUserInteractionEnabled' \in BOOLEAN
  BY <1>1, Zenon
<1>4. held' \subseteq Buttons
  BY <1>1 DEF Quiz!TypeOK
<1>5. Quiz!QuestionIsCurrent'
  BY <1>1 DEF QuizInv, QuizInStep, Quiz!QuestionIsCurrent
<1>6. CASE currentQuizNumber < NumberOfQuestions
  <2>1. PICK right \in {0, 1} : correctAnswers' = correctAnswers + right
    BY <1>6 DEF Quiz!AnswerButtonPressed
  <2>2. answers' = answers + 1 /\ feedbacks' = feedbacks + 1 /\ UNCHANGED outOfRange
    BY <1>6 DEF Quiz!AnswerButtonPressed
  <2>3. answers' \in Nat /\ correctAnswers' \in 0..answers' /\ feedbacks' \in 0..MaxTouches
    BY <1>2, <2>1, <2>2 DEF Quiz!TypeOK
  <2>4. Quiz!TypeOK'
    BY <1>1, <1>3, <1>4, <2>2, <2>3 DEF Quiz!TypeOK
  <2>5. QuizBounds'
    BY <1>2, <2>2 DEF QuizBounds, Quiz!TypeOK
  <2>6. ~twoFingers => feedbacks = 0 /\ ~score /\ held' = {}
                       /\ answers = currentQuizNumber
    BY <1>1 DEF QuizInv, QuizInStep, OneFinger, Quiz!OneAnswerEach, Quiz!TypeOK
  <2>7. OneFinger'
    BY <1>1, <1>6, <2>2, <2>6 DEF QuizInv, OneFinger
  <2>8. Quiz!OneAnswerEach'
    BY <1>1, <1>6, <2>2, <2>6 DEF QuizInv, QuizInStep, Quiz!OneAnswerEach, Quiz!TypeOK
  <2>. QED
    BY <1>5, <2>4, <2>5, <2>7, <2>8 DEF QuizInv, QuizInStep
<1>7. CASE ~(currentQuizNumber < NumberOfQuestions)
  <2>1. outOfRange' = TRUE /\ UNCHANGED <<correctAnswers, answers, feedbacks>>
    BY <1>7 DEF Quiz!AnswerButtonPressed
  <2>2. outOfRange' \in BOOLEAN
    BY <2>1, Zenon
  <2>3. twoFingers
    BY <1>1, <1>7 DEF QuizInv, OneFinger
  <2>4. Quiz!TypeOK'
    BY <1>1, <1>3, <1>4, <2>1, <2>2 DEF Quiz!TypeOK
  <2>5. QuizBounds'
    BY <1>2, <2>1 DEF QuizBounds, Quiz!TypeOK
  <2>6. OneFinger' /\ Quiz!OneAnswerEach'
    BY <1>1, <2>3 DEF OneFinger, Quiz!OneAnswerEach
  <2>. QED
    BY <1>5, <2>4, <2>5, <2>6 DEF QuizInv, QuizInStep
<1>. QED
  BY <1>6, <1>7

LEMMA QuizFeedback ==
  ASSUME QuizInv, Quiz!DidFinishFeedback
  PROVE  QuizInv'
<1>1. /\ ~outOfRange /\ feedbacks > 0 /\ feedbacks' = feedbacks - 1
      /\ currentQuizNumber' = currentQuizNumber + 1
      /\ UNCHANGED <<correctAnswers, held, outOfRange, answers, twoFingers>>
  BY DEF Quiz!DidFinishFeedback
<1>. Quiz!TypeOK /\ MaxTouches \in Nat /\ NumberOfQuestions \in Nat \ {0}
  BY AppsAssumption DEF QuizInv, QuizInStep
<1>2. feedbacks' \in 0..MaxTouches /\ currentQuizNumber' \in Nat
  BY <1>1 DEF Quiz!TypeOK
<1>3. QuizBounds'
  <2>1. Cardinality(held) \in Nat /\ Cardinality(held) + feedbacks <= MaxTouches
    BY FS_CardinalityType DEF QuizInv, QuizBounds
  <2>2. Cardinality(held) + feedbacks' <= MaxTouches
    BY <1>1, <2>1 DEF Quiz!TypeOK
  <2>. QED
    BY <1>1, <2>2 DEF QuizInv, QuizBounds
<1>4. ~twoFingers => /\ feedbacks = 1 /\ feedbacks' = 0 /\ ~score
                     /\ currentQuizNumber < NumberOfQuestions
                     /\ answers = currentQuizNumber' + feedbacks'
                     /\ held = {} /\ ~isUserInteractionEnabled
                     /\ \A a, b \in held : a = b
  BY <1>1 DEF QuizInv, QuizInStep, Quiz!OneAnswerEach, OneFinger, Quiz!TypeOK
<1>5. CASE currentQuizNumber' < NumberOfQuestions
  <2>1. isUserInteractionEnabled' = TRUE /\ question' = currentQuizNumber' /\ UNCHANGED score
    BY <1>5 DEF Quiz!DidFinishFeedback
  <2>2. isUserInteractionEnabled' \in BOOLEAN
    BY <2>1, Zenon
  <2>3. question' \in 0..(NumberOfQuestions - 1)
    BY <1>2, <1>5, <2>1
  <2>4. Quiz!TypeOK'
    BY <1>1, <1>2, <2>1, <2>2, <2>3 DEF Quiz!TypeOK
  <2>5. OneFinger'
    BY <1>1, <1>4, <1>5, <2>1 DEF OneFinger, Quiz!TypeOK
  <2>6. Quiz!OneAnswerEach' /\ Quiz!QuestionIsCurrent'
    BY <1>1, <1>4, <2>1 DEF Quiz!OneAnswerEach, Quiz!QuestionIsCurrent
  <2>. QED
    BY <1>3, <2>4, <2>5, <2>6 DEF QuizInv, QuizInStep
<1>6. CASE ~(currentQuizNumber' < NumberOfQuestions)
  <2>1. score' = TRUE /\ UNCHANGED <<isUserInteractionEnabled, question>>
    BY <1>6 DEF Quiz!DidFinishFeedback
  <2>2. score' \in BOOLEAN
    BY <2>1, Zenon
  <2>3. Quiz!TypeOK'
    BY <1>1, <1>2, <2>1, <2>2 DEF Quiz!TypeOK
  <2>4. ~twoFingers => currentQuizNumber' = NumberOfQuestions
    BY <1>1, <1>4, <1>6 DEF Quiz!TypeOK
  <2>5. OneFinger'
    BY <1>1, <1>4, <2>1, <2>4 DEF OneFinger
  <2>6. Quiz!OneAnswerEach' /\ Quiz!QuestionIsCurrent'
    BY <1>1, <1>4, <1>6, <2>1, <2>4 DEF Quiz!OneAnswerEach, Quiz!QuestionIsCurrent, Quiz!TypeOK
  <2>. QED
    BY <1>3, <2>3, <2>5, <2>6 DEF QuizInv, QuizInStep
<1>. QED
  BY <1>5, <1>6

LEMMA QuizRestart ==
  ASSUME QuizInv, Quiz!RestartQuiz
  PROVE  QuizInv'
<1>1. /\ score /\ score' = FALSE /\ isUserInteractionEnabled' = TRUE
      /\ currentQuizNumber' = 0 /\ correctAnswers' = 0 /\ answers' = 0 /\ question' = 0
      /\ UNCHANGED <<held, feedbacks, outOfRange, twoFingers>>
  BY DEF Quiz!RestartQuiz
<1>2. NumberOfQuestions \in Nat \ {0}
  BY AppsAssumption
<1>3. score' \in BOOLEAN /\ isUserInteractionEnabled' \in BOOLEAN
  BY <1>1, Zenon
<1>4. correctAnswers' \in 0..answers' /\ answers' \in Nat /\ currentQuizNumber' \in Nat
      /\ question' \in 0..(NumberOfQuestions - 1)
  BY <1>1, <1>2
<1>5. Quiz!TypeOK'
  BY <1>1, <1>3, <1>4 DEF QuizInv, QuizInStep, Quiz!TypeOK
<1>6. ~twoFingers => feedbacks = 0 /\ held = {} /\ ~outOfRange
  BY <1>1 DEF QuizInv, QuizInStep, OneFinger, Quiz!OneAnswerEach
<1>7. OneFinger'
  BY <1>1, <1>2, <1>6 DEF OneFinger
<1>8. Quiz!OneAnswerEach' /\ Quiz!QuestionIsCurrent'
  BY <1>1, <1>6 DEF Quiz!OneAnswerEach, Quiz!QuestionIsCurrent
<1>9. QuizBounds'
  BY <1>1 DEF QuizInv, QuizBounds
<1>. QED
  BY <1>5, <1>7, <1>8, <1>9 DEF QuizInv, QuizInStep

LEMMA QuizStep ==
  ASSUME QuizInv, Quiz!Next \/ UNCHANGED quizVars
  PROVE  QuizInv'
<1>1. CASE Quiz!Next
  BY <1>1, QuizTouchDown, QuizTouchCancel, QuizAnswer, QuizFeedback, QuizRestart DEF Quiz!Next
<1>2. CASE UNCHANGED quizVars
  BY <1>2 DEF quizVars, QuizInv, QuizInStep, QuizBounds, OneFinger, Quiz!TypeOK,
    Quiz!OneAnswerEach, Quiz!QuestionIsCurrent
<1>. QED
  BY <1>1, <1>2

\* With one finger at a time every question is answered exactly once, and the
\* score comes after the last answer and no question out of range; with any
\* fingers the answer that would be checked is for the question on the label.
THEOREM OneAnswerForEach == FairSpec => []QuizInStep
<1>1. Init => QuizInv
  BY QuizInit DEF Init
<1>2. QuizInv /\ [Next]_vars => QuizInv'
  BY QuizStep, OneAppMoves
<1>3. QuizInv => QuizInStep
  BY DEF QuizInv
<1>. QED
  BY <1>1, <1>2, <1>3, PTL DEF FairSpec

-----------------------------------------------------------------------------
(* Egg Timer                                                               *)

Fractions == {f \in [done : Nat, of : Nat] : f.done <= f.of}

\* Once an egg was started: its timer is the only one that can be scheduled, it is
\* while ticks are left, and the time that remains is what was not ticked yet.
TicksAddUp ==
    timer # 0 =>
        /\ secondsToBoilEgg \in CookingTimes
        /\ scheduled = IF fired = secondsToBoilEgg THEN {} ELSE {timer}
        /\ remainingSeconds =
             IF fired = secondsToBoilEgg THEN 0 ELSE secondsToBoilEgg - 1 - fired

\* The last update that waits, or the bar, shows the ticks so far.
LastUpdateIsTime ==
    /\ updates \in Seq(Fractions) /\ progress \in Fractions
    /\ (timer # 0 /\ updates # <<>>) =>
           updates[Len(updates)] = Egg!Fraction(fired, secondsToBoilEgg)

\* Before the first press nothing is scheduled.
NothingBefore == timer = 0 => scheduled = {} /\ updates = <<>>

EggInv == EggOnTime /\ TicksAddUp /\ LastUpdateIsTime /\ NothingBefore

LEMMA FractionFacts ==
  ASSUME NEW done \in Nat, NEW of \in Nat, done <= of
  PROVE  Egg!Fraction(done, of) \in Fractions
<1>1. PICK f : f = [done |-> done, of |-> of]
  OBVIOUS
<1>2. f \in [done : Nat, of : Nat] /\ f.done = done /\ f.of = of
  BY <1>1, Zenon
<1>. QED
  BY <1>1, <1>2 DEF Egg!Fraction, Fractions

\* The fractions a sequence of fractions and the bar hold.
LEMMA FractionsAreSound ==
  ASSUME NEW p \in Fractions, NEW s \in Seq(Fractions)
  PROVE  \A f \in {p} \cup {s[i] : i \in DOMAIN s} : f.done <= f.of
<1>1. ASSUME NEW i \in DOMAIN s
      PROVE  s[i] \in Fractions
  BY <1>1
<1>. QED
  BY <1>1 DEF Fractions

LEMMA EggInit ==
  ASSUME Egg!Init
  PROVE  EggInv
<1>1. progress \in Fractions
  BY FractionFacts DEF Egg!Init
<1>2. updates \in Seq(Fractions)
  BY DEF Egg!Init
<1>3. \A f \in {progress} \cup {updates[i] : i \in DOMAIN updates} : f.done <= f.of
  BY <1>1, <1>2, FractionsAreSound
<1>4. textLabel \in BOOLEAN
  BY Zenon DEF Egg!Init
<1>5. MaxPresses \in Nat
  BY AppsAssumption
<1>6. timer \in 0..MaxPresses /\ scheduled \subseteq 1..timer /\ remainingSeconds \in Int
      /\ fired \in Nat /\ alarms \in Nat /\ secondsToBoilEgg \in CookingTimes \cup {0}
  BY <1>5 DEF Egg!Init
<1>. QED
  BY <1>1, <1>2, <1>3, <1>4, <1>6 DEF Egg!Init, EggInv, EggOnTime, Egg!TypeOK, Egg!AlarmOnTime,
    Egg!BarIsTime, TicksAddUp, LastUpdateIsTime, NothingBefore

LEMMA AppendFractions ==
  ASSUME NEW s \in Seq(Fractions), NEW f \in Fractions
  PROVE  /\ Append(s, f) \in Seq(Fractions) /\ Append(s, f) # <<>>
         /\ Append(s, f)[Len(Append(s, f))] = f
OBVIOUS

\* hardnessButtonPressed: the old timer is stopped, whatever it had left.
LEMMA EggPressed ==
  ASSUME EggInv, NEW time \in CookingTimes, Egg!HardnessButtonPressed(time)
  PROVE  EggInv'
<1>1. time \in Nat \ {0} /\ MaxPresses \in Nat
  BY AppsAssumption
<1>2. /\ timer < MaxPresses /\ secondsToBoilEgg' = time
      /\ updates' = Append(updates, Egg!Fraction(time - time, time))
      /\ remainingSeconds' = time - 1 /\ timer' = timer + 1
      /\ scheduled' = (scheduled \ {timer}) \cup {timer'}
      /\ fired' = 0 /\ alarms' = 0 /\ UNCHANGED <<textLabel, progress>>
  BY DEF Egg!HardnessButtonPressed, Egg!UpdateProgressBar, Egg!Invalidated
<1>3. Egg!TypeOK /\ TicksAddUp /\ LastUpdateIsTime /\ NothingBefore
  BY DEF EggInv, EggOnTime
<1>4. scheduled' = {timer'}
  BY <1>2, <1>3 DEF TicksAddUp, NothingBefore
<1>5. Egg!Fraction(time - time, time) = Egg!Fraction(fired', secondsToBoilEgg')
      /\ Egg!Fraction(fired', secondsToBoilEgg') \in Fractions
  BY <1>1, <1>2, FractionFacts
<1>6. /\ updates' \in Seq(Fractions) /\ updates' # <<>>
      /\ updates'[Len(updates')] = Egg!Fraction(fired', secondsToBoilEgg')
  BY <1>2, <1>3, <1>5, AppendFractions DEF LastUpdateIsTime
<1>7. \A f \in {progress} \cup {updates'[i] : i \in DOMAIN updates'} : f.done <= f.of
  BY <1>3, <1>6, FractionsAreSound DEF LastUpdateIsTime
<1>8. timer' \in 0..MaxPresses /\ timer' \in 1..timer' /\ remainingSeconds' \in Int
      /\ fired' \in Nat /\ alarms' \in Nat /\ timer' # 0
  BY <1>1, <1>2, <1>3 DEF Egg!TypeOK
<1>9. Egg!TypeOK'
  BY <1>2, <1>3, <1>4, <1>7, <1>8 DEF Egg!TypeOK
<1>10. TicksAddUp' /\ Egg!AlarmOnTime'
  BY <1>1, <1>2, <1>4 DEF TicksAddUp, Egg!AlarmOnTime
<1>11. LastUpdateIsTime' /\ Egg!BarIsTime' /\ NothingBefore'
  BY <1>2, <1>3, <1>6, <1>8 DEF LastUpdateIsTime, Egg!BarIsTime, NothingBefore
<1>. QED
  BY <1>9, <1>10, <1>11 DEF EggInv, EggOnTime

LEMMA EggTicks ==
  ASSUME EggInv, Egg!CountDown
  PROVE  EggInv'
<1>1. /\ scheduled # {} /\ fired' = fired + 1
      /\ updates' = Append(updates, Egg!Fraction(secondsToBoilEgg - remainingSeconds,
                                                 secondsToBoilEgg))
      /\ UNCHANGED <<secondsToBoilEgg, timer, progress>>
  BY DEF Egg!CountDown, Egg!UpdateProgressBar
<1>2. Egg!TypeOK /\ Egg!AlarmOnTime /\ TicksAddUp /\ LastUpdateIsTime /\ NothingBefore
  BY DEF EggInv, EggOnTime
<1>3. timer # 0 /\ scheduled = {timer} /\ fired # secondsToBoilEgg /\ alarms = 0
      /\ fired <= secondsToBoilEgg
      /\ remainingSeconds = secondsToBoilEgg - 1 - fired
      /\ secondsToBoilEgg \in CookingTimes
  BY <1>1, <1>2 DEF TicksAddUp, NothingBefore, Egg!AlarmOnTime
<1>4. secondsToBoilEgg \in Nat \ {0} /\ fired \in Nat
  BY <1>2, <1>3, AppsAssumption DEF Egg!TypeOK
<1>5. fired' \in Nat /\ fired' <= secondsToBoilEgg
      /\ secondsToBoilEgg - remainingSeconds = fired'
  BY <1>1, <1>3, <1>4
<1>6. Egg!Fraction(fired', secondsToBoilEgg') \in Fractions
  BY <1>1, <1>4, <1>5, FractionFacts
<1>7. /\ updates' \in Seq(Fractions) /\ updates' # <<>>
      /\ updates'[Len(updates')] = Egg!Fraction(fired', secondsToBoilEgg')
  BY <1>1, <1>2, <1>5, <1>6, AppendFractions DEF LastUpdateIsTime
<1>8. \A f \in {progress} \cup {updates'[i] : i \in DOMAIN updates'} : f.done <= f.of
  BY <1>2, <1>7, FractionsAreSound DEF LastUpdateIsTime
<1>9. LastUpdateIsTime' /\ Egg!BarIsTime' /\ NothingBefore'
  BY <1>1, <1>2, <1>3, <1>7 DEF LastUpdateIsTime, Egg!BarIsTime, NothingBefore
<1>10. CASE remainingSeconds = 0
  <2>1. textLabel' = TRUE /\ alarms' = alarms + 1 /\ scheduled' = scheduled \ {timer}
        /\ UNCHANGED remainingSeconds
    BY <1>10 DEF Egg!CountDown
  <2>2. textLabel' \in BOOLEAN
    BY <2>1, Zenon
  <2>3. scheduled' = {} /\ alarms' = 1 /\ fired' = secondsToBoilEgg
    BY <1>1, <1>3, <1>4, <1>10, <2>1
  <2>4. TicksAddUp' /\ Egg!AlarmOnTime'
    BY <1>1, <1>3, <1>4, <1>10, <2>1, <2>3 DEF TicksAddUp, Egg!AlarmOnTime
  <2>5. Egg!TypeOK'
    BY <1>1, <1>2, <1>5, <1>8, <2>1, <2>2, <2>3 DEF Egg!TypeOK
  <2>. QED
    BY <1>9, <2>4, <2>5 DEF EggInv, EggOnTime
<1>11. CASE remainingSeconds # 0
  <2>1. remainingSeconds' = remainingSeconds - 1 /\ UNCHANGED <<textLabel, alarms, scheduled>>
    BY <1>11 DEF Egg!CountDown
  <2>2. fired' # secondsToBoilEgg
    BY <1>1, <1>3, <1>4, <1>11
  <2>3. TicksAddUp' /\ Egg!AlarmOnTime'
    BY <1>1, <1>3, <1>4, <1>5, <2>1, <2>2 DEF TicksAddUp, Egg!AlarmOnTime
  <2>4. Egg!TypeOK'
    BY <1>1, <1>2, <1>5, <1>8, <2>1 DEF Egg!TypeOK
  <2>. QED
    BY <1>9, <2>3, <2>4 DEF EggInv, EggOnTime
<1>. QED
  BY <1>10, <1>11

LEMMA TakeFraction ==
  ASSUME NEW s \in Seq(Fractions), s # <<>>
  PROVE  /\ Head(s) \in Fractions /\ Tail(s) \in Seq(Fractions)
         /\ Tail(s) # <<>> => Tail(s)[Len(Tail(s))] = s[Len(s)]
         /\ Tail(s) = <<>> => Head(s) = s[Len(s)]
<1>1. Len(s) \in Nat /\ Len(s) >= 1 /\ Head(s) = s[1] /\ s[1] \in Fractions
  OBVIOUS
<1>2. Tail(s) \in Seq(Fractions) /\ Len(Tail(s)) = Len(s) - 1
      /\ \A i \in 1..Len(Tail(s)) : Tail(s)[i] = s[i + 1]
  OBVIOUS
<1>3. ASSUME Tail(s) # <<>>
      PROVE  Tail(s)[Len(Tail(s))] = s[Len(s)]
  <2>1. Len(Tail(s)) \in 1..Len(Tail(s))
    BY <1>2, <1>3
  <2>2. Tail(s)[Len(Tail(s))] = s[Len(Tail(s)) + 1]
    BY <1>2, <2>1
  <2>3. Len(Tail(s)) + 1 = Len(s)
    BY <1>1, <1>2
  <2>. QED
    BY <2>2, <2>3
<1>4. ASSUME Tail(s) = <<>>
      PROVE  Head(s) = s[Len(s)]
  <2>1. Len(Tail(s)) = 0
    <3>1. Len(<<>>) = 0
      OBVIOUS
    <3>. QED
      BY <1>4, <3>1, Zenon
  <2>2. Len(s) = 1
    <3>1. \A m, n \in Nat : n = m - 1 /\ n = 0 => m = 1
      OBVIOUS
    <3>2. Len(Tail(s)) \in Nat
      BY <1>2
    <3>. QED
      BY <1>1, <1>2, <2>1, <3>1, <3>2, Zenon
  <2>. QED
    BY <1>1, <2>2
<1>. QED
  BY <1>1, <1>2, <1>3, <1>4

LEMMA EggShows ==
  ASSUME EggInv, Egg!ShowProgress
  PROVE  EggInv'
<1>1. /\ updates # <<>> /\ progress' = Head(updates) /\ updates' = Tail(updates)
      /\ UNCHANGED <<secondsToBoilEgg, remainingSeconds, timer, scheduled, textLabel,
                     fired, alarms>>
  BY DEF Egg!ShowProgress
<1>2. Egg!TypeOK /\ Egg!AlarmOnTime /\ TicksAddUp /\ LastUpdateIsTime /\ NothingBefore
  BY DEF EggInv, EggOnTime
<1>3. /\ progress' \in Fractions /\ updates' \in Seq(Fractions)
      /\ updates' # <<>> => updates'[Len(updates')] = updates[Len(updates)]
      /\ updates' = <<>> => progress' = updates[Len(updates)]
  BY <1>1, <1>2, TakeFraction DEF LastUpdateIsTime
<1>4. \A f \in {progress'} \cup {updates'[i] : i \in DOMAIN updates'} : f.done <= f.of
  BY <1>3, FractionsAreSound
<1>5. Egg!TypeOK'
  BY <1>1, <1>2, <1>4 DEF Egg!TypeOK
<1>6. LastUpdateIsTime' /\ Egg!BarIsTime' /\ NothingBefore'
  BY <1>1, <1>2, <1>3 DEF LastUpdateIsTime, Egg!BarIsTime, NothingBefore
<1>7. TicksAddUp' /\ Egg!AlarmOnTime'
  BY <1>1, <1>2 DEF TicksAddUp, Egg!AlarmOnTime
<1>. QED
  BY <1>5, <1>6, <1>7 DEF EggInv, EggOnTime

LEMMA EggStep ==
  ASSUME EggInv, Egg!Next \/ UNCHANGED eggVars
  PROVE  EggInv'
<1>1. CASE Egg!Next
  BY <1>1, EggPressed, EggTicks, EggShows DEF Egg!Next
<1>2. CASE UNCHANGED eggVars
  BY <1>2 DEF eggVars, EggInv, EggOnTime, Egg!TypeOK, Egg!AlarmOnTime, Egg!BarIsTime,
    TicksAddUp, LastUpdateIsTime, NothingBefore
<1>. QED
  BY <1>1, <1>2

\* However many eggs were started and given up: the alarm sounds once, with the
\* last tick of the last egg, and the bar shows its ticks when no update waits.
THEOREM EggsAreOnTime == FairSpec => []EggOnTime
<1>1. Init => EggInv
  BY EggInit DEF Init
<1>2. EggInv /\ [Next]_vars => EggInv'
  BY EggStep, OneAppMoves
<1>3. EggInv => EggOnTime
  BY DEF EggInv
<1>. QED
  BY <1>1, <1>2, <1>3, PTL DEF FairSpec

-----------------------------------------------------------------------------
(* Calculator                                                              *)

\* A text without a digit has a dot; more than one dot, and a dot alone that was
\* read, are remembered; and = finds no operation only where none was pressed.
KeypadInv ==
    /\ CarefulKeysAreSafe
    /\ ~text.digits => text.dots > 0
    /\ text.dots > 1 => double
    /\ (keypadCrash = "none" /\ pending = "none") => ~operated

LEMMA TextFacts ==
  ASSUME NEW digits \in BOOLEAN, NEW dots \in 0..Keypad!MaxDots, NEW fraction \in BOOLEAN,
         NEW t, t = [digits |-> digits, dots |-> dots, fraction |-> fraction]
  PROVE  t \in Keypad!Texts /\ t.digits = digits /\ t.dots = dots /\ t.fraction = fraction
BY Zenon DEF Keypad!Texts

\* A whole number or another, as it is printed.
LEMMA CleanFacts ==
  ASSUME NEW whole \in BOOLEAN
  PROVE  /\ Keypad!Clean(whole) \in Keypad!Texts /\ Keypad!Clean(whole).digits
         /\ Keypad!Clean(whole).dots \in 0..1
<1>1. PICK dots : dots = IF whole THEN 0 ELSE 1
  OBVIOUS
<1>2. dots \in 0..1 /\ dots \in 0..Keypad!MaxDots
  BY <1>1 DEF Keypad!MaxDots
<1>3. TRUE \in BOOLEAN /\ (~whole) \in BOOLEAN
  BY Zenon
<1>4. PICK t : t = [digits |-> TRUE, dots |-> dots, fraction |-> ~whole]
  OBVIOUS
<1>5. t \in Keypad!Texts /\ t.digits = TRUE /\ t.dots = dots
  BY <1>2, <1>3, <1>4, TextFacts
<1>6. t = Keypad!Clean(whole)
  BY <1>1, <1>4, Zenon DEF Keypad!Clean
<1>. QED
  BY <1>2, <1>5, <1>6, Zenon

LEMMA KeypadInit ==
  ASSUME Keypad!Init
  PROVE  KeypadInv
<1>1. text \in Keypad!Texts /\ text.digits /\ text.dots \in 0..1
  BY CleanFacts DEF Keypad!Init
<1>2. finished \in BOOLEAN /\ double \in BOOLEAN /\ operated \in BOOLEAN /\ early \in BOOLEAN
  BY Zenon DEF Keypad!Init
<1>3. ~operated /\ pending = "none" /\ keypadCrash = "none"
  BY DEF Keypad!Init
<1>4. Keypad!TypeOK
  BY <1>1, <1>2, <1>3, Zenon DEF Keypad!TypeOK
<1>5. text.dots > 1 => double
  BY <1>1
<1>. QED
  BY <1>1, <1>3, <1>4, <1>5, Zenon DEF KeypadInv, CarefulKeysAreSafe, Keypad!CarefulKeysAreSafe

LEMMA KeypadTypes ==
  ASSUME KeypadInv
  PROVE  /\ text \in Keypad!Texts
         /\ text.digits \in BOOLEAN /\ text.dots \in 0..2 /\ text.fraction \in BOOLEAN
         /\ text.fraction => text.digits
         /\ finished \in BOOLEAN /\ double \in BOOLEAN /\ operated \in BOOLEAN
         /\ early \in BOOLEAN
         /\ pending \in Keypad!Binary \cup {"none"}
         /\ keypadCrash \in {"none", "text", "result"}
         /\ (~double /\ ~early) => keypadCrash = "none"
BY DEF KeypadInv, CarefulKeysAreSafe, Keypad!TypeOK, Keypad!CarefulKeysAreSafe,
   Keypad!Texts, Keypad!MaxDots

\* The text after a step is typed again.
LEMMA KeypadTyped ==
  ASSUME KeypadInv, NEW digits \in BOOLEAN, NEW dots \in 0..2, NEW fraction \in BOOLEAN,
         text' = [digits |-> digits, dots |-> dots, fraction |-> fraction],
         fraction => digits, ~digits => dots > 0, dots > 1 => double',
         finished' \in BOOLEAN, double' \in BOOLEAN, double => double',
         UNCHANGED <<pending, keypadCrash, operated, early>>
  PROVE  KeypadInv'
<1>1. text' \in Keypad!Texts /\ text'.digits = digits /\ text'.dots = dots
      /\ text'.fraction = fraction
  BY TextFacts DEF Keypad!MaxDots
<1>. QED
  BY <1>1 DEF KeypadInv, CarefulKeysAreSafe, Keypad!TypeOK, Keypad!CarefulKeysAreSafe

LEMMA KeypadKey ==
  ASSUME KeypadInv, NEW key \in Keypad!Keys, Keypad!FirstKey(key) \/ Keypad!NextDigit(key)
  PROVE  KeypadInv'
<1>1. CASE Keypad!FirstKey(key)
  <2>1. PICK dots : dots = IF key = "." THEN 1 ELSE 0
    OBVIOUS
  <2>2. PICK digits : digits = (key # ".")
    OBVIOUS
  <2>3. digits \in BOOLEAN /\ FALSE \in BOOLEAN
    BY <2>2, Zenon
  <2>4. dots \in 0..2 /\ ~(dots > 1) /\ (key = "." => dots > 0)
    BY <2>1
  <2>5. ~digits => dots > 0
    BY <2>2, <2>4, Zenon
  <2>6. text' = [digits |-> digits, dots |-> dots, fraction |-> FALSE]
    BY <1>1, <2>1, <2>2, Zenon DEF Keypad!FirstKey, Keypad!Typed
  <2>7. finished' = FALSE /\ UNCHANGED <<pending, keypadCrash, double, operated, early>>
    BY <1>1 DEF Keypad!FirstKey
  <2>8. finished' \in BOOLEAN
    BY <2>7, Zenon
  <2>. QED
    BY <2>3, <2>4, <2>5, <2>6, <2>7, <2>8, KeypadTypes, KeypadTyped
<1>2. CASE Keypad!NextDigit(key)
  <2>1. key # "." /\ text' = Keypad!Extended(key)
        /\ UNCHANGED <<finished, pending, keypadCrash, double, operated, early>>
    BY <1>2 DEF Keypad!NextDigit
  <2>2. PICK fraction : fraction = (text.fraction \/ (key = "nonzero" /\ text.dots > 0))
    OBVIOUS
  <2>3. fraction \in BOOLEAN /\ TRUE \in BOOLEAN
    BY <2>2, KeypadTypes, Zenon
  <2>4. text' = [digits |-> TRUE, dots |-> text.dots, fraction |-> fraction]
    <3>1. (text.digits \/ key # ".") = TRUE
      BY <2>1, KeypadTypes, Zenon
    <3>. QED
      BY <2>1, <2>2, <3>1, Zenon DEF Keypad!Extended
  <2>. QED
    BY <2>1, <2>3, <2>4, KeypadTypes, KeypadTyped DEF KeypadInv
<1>. QED
  BY <1>1, <1>2

LEMMA KeypadDot ==
  ASSUME KeypadInv, Keypad!NextDot
  PROVE  KeypadInv'
<1>1. double' \in BOOLEAN
  BY Zenon, KeypadTypes DEF Keypad!NextDot
<1>2. (double => double') /\ (text.dots > 0 => double') /\ (~double' => ~double)
  BY DEF Keypad!NextDot
<1>3. UNCHANGED <<finished, pending, operated, early>>
  BY DEF Keypad!NextDot
<1>4. CASE ~Keypad!IsNumber(text)
  <2>1. keypadCrash' = "text" /\ UNCHANGED text
    BY <1>4 DEF Keypad!NextDot
  <2>2. text.dots > 0
    BY <1>4, KeypadTypes DEF KeypadInv, Keypad!IsNumber
  <2>. QED
    BY <1>1, <1>2, <1>3, <2>1, <2>2 DEF KeypadInv, CarefulKeysAreSafe, Keypad!TypeOK,
      Keypad!CarefulKeysAreSafe
<1>5. CASE Keypad!IsNumber(text) /\ ~Keypad!AcceptsDot
  <2>1. UNCHANGED <<text, keypadCrash>>
    BY <1>5 DEF Keypad!NextDot
  <2>. QED
    BY <1>1, <1>2, <1>3, <2>1 DEF KeypadInv, CarefulKeysAreSafe, Keypad!TypeOK,
      Keypad!CarefulKeysAreSafe
<1>6. CASE Keypad!IsNumber(text) /\ Keypad!AcceptsDot
  <2>1. text' = Keypad!Extended(".") /\ UNCHANGED keypadCrash
    BY <1>6 DEF Keypad!NextDot
  <2>2. text.digits /\ text.dots \in 0..1
    BY <1>6, KeypadTypes DEF Keypad!IsNumber
  <2>3. text' = [digits |-> text.digits, dots |-> text.dots + 1, fraction |-> text.fraction]
    <3>1. (text.digits \/ "." # ".") = text.digits
      BY KeypadTypes, Zenon
    <3>2. (text.fraction \/ ("." = "nonzero" /\ text.dots > 0)) = text.fraction
      <4>1. "." # "nonzero"
        OBVIOUS
      <4>. QED
        BY <4>1, KeypadTypes, Zenon
    <3>3. (IF "." = "." /\ text.dots < Keypad!MaxDots THEN text.dots + 1 ELSE text.dots)
            = text.dots + 1
      BY <2>2 DEF Keypad!MaxDots
    <3>. QED
      BY <2>1, <3>1, <3>2, <3>3, Zenon DEF Keypad!Extended
  <2>4. text.dots + 1 \in 0..2 /\ (text.dots + 1 > 1 => double')
    BY <1>2, <2>2
  <2>. QED
    BY <1>1, <1>2, <1>3, <2>1, <2>2, <2>3, <2>4, KeypadTypes, KeypadTyped
<1>. QED
  BY <1>4, <1>5, <1>6

LEMMA KeypadCalc ==
  ASSUME KeypadInv, NEW op \in Keypad!Operations, Keypad!CalcButtonPressed(op)
  PROVE  KeypadInv'
<1>1. finished' \in BOOLEAN /\ early' \in BOOLEAN /\ operated' \in BOOLEAN /\ double' \in BOOLEAN
  BY KeypadTypes, Zenon DEF Keypad!CalcButtonPressed
<1>2. /\ double => double'
      /\ ~text.digits => double'
      /\ early => early'
      /\ (op = "compute" /\ ~operated) => early'
      /\ operated' => operated \/ op \in Keypad!Binary
      /\ keypadCrash = "none"
  BY KeypadTypes DEF Keypad!CalcButtonPressed
<1>3. CASE ~Keypad!IsNumber(text)
  <2>1. keypadCrash' = "text" /\ UNCHANGED <<text, pending>>
    BY <1>3 DEF Keypad!CalcButtonPressed
  <2>2. double'
    BY <1>2, <1>3, KeypadTypes DEF Keypad!IsNumber, KeypadInv
  <2>. QED
    BY <1>1, <1>2, <2>1, <2>2 DEF KeypadInv, CarefulKeysAreSafe, Keypad!TypeOK,
      Keypad!CarefulKeysAreSafe
<1>4. CASE Keypad!IsNumber(text) /\ op = "compute" /\ pending = "none"
  <2>1. keypadCrash' = "result" /\ UNCHANGED <<text, pending>>
    BY <1>4 DEF Keypad!CalcButtonPressed
  <2>2. early'
    BY <1>2, <1>4 DEF KeypadInv
  <2>. QED
    BY <1>1, <1>2, <2>1, <2>2 DEF KeypadInv, CarefulKeysAreSafe, Keypad!TypeOK,
      Keypad!CarefulKeysAreSafe
<1>5. CASE Keypad!IsNumber(text) /\ ~(op = "compute" /\ pending = "none")
  <2>1. PICK whole \in Keypad!Whole(op) : text' = Keypad!Clean(whole)
    BY <1>5 DEF Keypad!CalcButtonPressed
  <2>2. whole \in BOOLEAN
    BY <2>1, Zenon DEF Keypad!Whole, Keypad!IsInt
  <2>3. text' \in Keypad!Texts /\ text'.digits /\ text'.dots \in 0..1
    BY <2>1, <2>2, CleanFacts
  <2>4. pending' = IF op \in Keypad!Binary THEN op ELSE pending
    BY <1>5 DEF Keypad!CalcButtonPressed, Keypad!Remember
  <2>5. keypadCrash' = keypadCrash
    BY <1>5 DEF Keypad!CalcButtonPressed
  <2>6. pending' \in Keypad!Binary \cup {"none"} /\ (pending' = "none" => ~operated')
    <3>1. "none" \notin Keypad!Binary
      BY DEF Keypad!Binary
    <3>. QED
      BY <1>2, <2>4, <3>1, KeypadTypes DEF KeypadInv
  <2>. QED
    BY <1>1, <1>2, <2>3, <2>5, <2>6 DEF KeypadInv, CarefulKeysAreSafe, Keypad!TypeOK,
      Keypad!CarefulKeysAreSafe
<1>. QED
  BY <1>3, <1>4, <1>5

LEMMA KeypadStep ==
  ASSUME KeypadInv, Keypad!Next \/ UNCHANGED keypadVars
  PROVE  KeypadInv'
<1>1. CASE Keypad!Next
  BY <1>1, KeypadKey, KeypadDot, KeypadCalc DEF Keypad!Next
<1>2. CASE UNCHANGED keypadVars
  BY <1>2 DEF keypadVars, KeypadInv, CarefulKeysAreSafe, Keypad!TypeOK,
    Keypad!CarefulKeysAreSafe
<1>. QED
  BY <1>1, <1>2

\* Whoever types one dot in a number at most, with digits, and never starts with
\* =, meets neither of the two fatalErrors of the calculator, in any order of keys.
THEOREM CarefulKeysMeetNoError == FairSpec => []CarefulKeysAreSafe
<1>1. Init => KeypadInv
  BY KeypadInit DEF Init
<1>2. KeypadInv /\ [Next]_vars => KeypadInv'
  BY KeypadStep, OneAppMoves
<1>3. KeypadInv => CarefulKeysAreSafe
  BY DEF KeypadInv
<1>. QED
  BY <1>1, <1>2, <1>3, PTL DEF FairSpec

-----------------------------------------------------------------------------
(* Todoey                                                                  *)

\* Realm holds finitely many objects.
RealmIsFinite == IsFiniteSet(categories) /\ IsFiniteSet(itemList)

TodoInv == TodoInStep /\ RealmIsFinite

\* Rows and results of a table when f writes have failed.
Near(rows, n, f) == IF f = 0 THEN rows = n ELSE rows <= n + 1 /\ n <= rows + 1

\* A table that was counted or checked has every row; one write that failed
\* puts it a row off, and further ones do not forgive less.
LEMMA NearFacts ==
  ASSUME NEW rows \in Nat, NEW n \in Nat, NEW f \in Nat, NEW g \in Nat
  PROVE  /\ rows = n => Near(rows, n, f)
         /\ f # 0 /\ (rows = n + 1 \/ rows + 1 = n) => Near(rows, n, f)
         /\ Near(rows, n, f) /\ (g = 0 => f = 0) => Near(rows, n, g)
         /\ Near(rows, n, f) /\ f = 0 => rows = n
BY DEF Near

\* A table of a finite list has a number of rows.
LEMMA CountFacts ==
  ASSUME NEW list, IsFiniteSet(list), NEW category, NEW matching
  PROVE  /\ Todo!CountItems(list, category, matching) \in Nat
         /\ IsFiniteSet(Todo!TodoItems(list, category, matching))
<1>1. Todo!TodoItems(list, category, matching) \subseteq list
  BY DEF Todo!TodoItems
<1>2. IsFiniteSet(Todo!TodoItems(list, category, matching))
  BY <1>1, FS_Subset
<1>. QED
  BY <1>2, FS_CardinalityType, SameCardinality DEF Todo!CountItems

\* What the tables are before a step, in numbers.
LEMMA TablesNow ==
  ASSUME TodoInv
  PROVE  /\ categoryRows \in Nat /\ itemRows \in Nat /\ failures \in Nat
         /\ Cardinality(categories) \in Nat
         /\ Todo!CountItems(itemList, selected, filtered) \in Nat
         /\ failures = 0 => ~badUpdate
         /\ ~badUpdate => Near(categoryRows, Cardinality(categories), failures)
         /\ ~badUpdate /\ selected # Todo!NoCategory =>
              Near(itemRows, Todo!CountItems(itemList, selected, filtered), failures)
<1>1. /\ categoryRows \in Nat /\ itemRows \in Nat /\ failures \in Nat
      /\ Cardinality(categories) \in Nat
      /\ Todo!CountItems(itemList, selected, filtered) \in Nat
  BY AppsAssumption, FS_CardinalityType, CountFacts
  DEF TodoInv, TodoInStep, RealmIsFinite, Todo!TypeOK
<1>2. /\ failures = 0 => ~badUpdate
      /\ ~badUpdate => Todo!InStep(categoryRows, Cardinality(categories))
      /\ ~badUpdate /\ selected # Todo!NoCategory =>
              Todo!InStep(itemRows, Todo!CountItems(itemList, selected, filtered))
  BY SameCardinality DEF TodoInv, TodoInStep, Todo!TablesFollowRealm
<1>3. \A r \in Nat, n \in Nat : Todo!InStep(r, n) => Near(r, n, failures)
  BY <1>1 DEF Todo!InStep, Todo!Slack, Near
<1>. QED
  BY <1>1, <1>2, <1>3

\* And after it.
LEMMA TablesNext ==
  ASSUME categoryRows' \in Nat, itemRows' \in Nat, failures' \in Nat,
         IsFiniteSet(categories'), IsFiniteSet(itemList'),
         failures' = 0 => ~badUpdate',
         ~badUpdate' => Near(categoryRows', Cardinality(categories'), failures'),
         ~badUpdate' /\ selected' # Todo!NoCategory =>
           Near(itemRows', Todo!CountItems(itemList', selected', filtered'), failures')
  PROVE  Todo!TablesFollowRealm'
<1>1. /\ Cardinality(categories') \in Nat
      /\ Todo!CountItems(itemList', selected', filtered') \in Nat
  BY FS_CardinalityType, CountFacts
<1>2. \A r \in Nat, n \in Nat : Near(r, n, failures') => r <= n + Todo!Slack' /\ n <= r + Todo!Slack'
  BY DEF Todo!Slack, Near
<1>3. /\ ~badUpdate' => Todo!InStep(categoryRows, Cardinality(categories))'
      /\ ~badUpdate' /\ selected' # Todo!NoCategory =>
              Todo!InStep(itemRows, Todo!CountItems(itemList, selected, filtered))'
  BY <1>1, <1>2 DEF Todo!InStep
<1>. QED
  BY <1>3, SameCardinality DEF Todo!TablesFollowRealm

LEMMA TodoInit ==
  ASSUME Todo!Init
  PROVE  TodoInv
<1>1. filtered \in BOOLEAN /\ badUpdate \in BOOLEAN
  BY Zenon DEF Todo!Init
<1>2. failures \in 0..MaxFailures /\ categoryRows \in Nat /\ itemRows \in Nat
  BY AppsAssumption DEF Todo!Init
<1>3. Todo!TypeOK
  BY <1>1, <1>2 DEF Todo!Init, Todo!TypeOK
<1>4. IsFiniteSet(categories) /\ Cardinality(categories) = 0 /\ IsFiniteSet(itemList)
  BY FS_EmptySet DEF Todo!Init
<1>5. Todo!TablesFollowRealm
  BY <1>4, SameCardinality DEF Todo!Init, Todo!TablesFollowRealm, Todo!InStep, Todo!Slack
<1>6. Todo!NoOrphans
  BY DEF Todo!Init, Todo!NoOrphans
<1>. QED
  BY <1>3, <1>4, <1>5, <1>6 DEF TodoInv, TodoInStep, RealmIsFinite

\* A committed write leaves the failures as they were, another one counts.
LEMMA WriteFacts ==
  ASSUME NEW committed \in BOOLEAN, Todo!Write(committed), failures \in 0..MaxFailures
  PROVE  /\ failures' \in 0..MaxFailures /\ failures' \in Nat /\ failures \in Nat
         /\ failures' = 0 => committed /\ failures = 0
<1>. MaxFailures \in Nat
  BY AppsAssumption
<1>. QED
  BY DEF Todo!Write

\* The number of rows a table gains or loses with an element.
LEMMA OneMore ==
  ASSUME NEW S, IsFiniteSet(S), NEW x, x \notin S
  PROVE  IsFiniteSet(S \cup {x}) /\ Cardinality(S \cup {x}) = Cardinality(S) + 1
BY FS_AddElement

LEMMA OneLess ==
  ASSUME NEW S, IsFiniteSet(S), NEW x \in S
  PROVE  /\ IsFiniteSet(S \ {x}) /\ Cardinality(S \ {x}) = Cardinality(S) - 1
         /\ Cardinality(S) \in Nat
BY FS_RemoveElement, FS_CardinalityType

LEMMA TodoAdds ==
  ASSUME TodoInv, NEW category \in Categories, NEW committed \in BOOLEAN,
         Todo!AddNewCategory(category, committed)
  PROVE  TodoInv'
<1>. Todo!TypeOK /\ RealmIsFinite
  BY DEF TodoInv, TodoInStep
<1>1. /\ selected = Todo!NoCategory /\ category \notin categories /\ Todo!Write(committed)
      /\ categories' = IF committed THEN categories \cup {category} ELSE categories
      /\ categoryRows' = categoryRows + 1
      /\ UNCHANGED <<itemList, selected, filtered, itemRows>>
  BY DEF Todo!AddNewCategory
<1>2. badUpdate' = (categoryRows' # Cardinality(categories'))
  BY Zenon, SameCardinality DEF Todo!AddNewCategory, Todo!UpdateRows
<1>3. /\ failures' \in 0..MaxFailures /\ failures' \in Nat /\ failures \in Nat
      /\ failures' = 0 => committed /\ failures = 0
  BY <1>1, WriteFacts DEF Todo!TypeOK
<1>4. categories \subseteq categories' /\ categories' \subseteq categories \cup {category}
  BY <1>1
<1>5. IsFiniteSet(categories') /\ IsFiniteSet(itemList')
  BY <1>1, OneMore DEF RealmIsFinite
<1>6. badUpdate' \in BOOLEAN
  BY <1>2, Zenon
<1>7. Todo!TypeOK'
  <2>1. categories' \subseteq Categories /\ selected' \in categories' \cup {Todo!NoCategory}
    BY <1>1, <1>4 DEF Todo!TypeOK
  <2>2. categoryRows' \in Nat
    BY <1>1 DEF Todo!TypeOK
  <2>. QED
    BY <1>1, <1>3, <1>6, <2>1, <2>2 DEF Todo!TypeOK
<1>8. Todo!TablesFollowRealm'
  <2>0. selected' = Todo!NoCategory /\ itemRows' \in Nat /\ categoryRows' \in Nat
        /\ Cardinality(categories') \in Nat
    BY <1>1, <1>5, <1>7, FS_CardinalityType DEF Todo!TypeOK
  <2>1. ASSUME failures' = 0
        PROVE  ~badUpdate'
    <3>1. categories' = categories \cup {category}
      BY <1>1, <1>3, <2>1
    <3>2. categoryRows = Cardinality(categories)
      BY <1>3, <2>1, TablesNow, NearFacts
    <3>3. Cardinality(categories') = Cardinality(categories) + 1
      BY <1>1, <3>1, OneMore DEF RealmIsFinite
    <3>4. categoryRows' = Cardinality(categories')
      BY <1>1, <3>2, <3>3
    <3>. QED
      BY <1>2, <3>4, Zenon
  <2>2. ASSUME ~badUpdate'
        PROVE  Near(categoryRows', Cardinality(categories'), failures')
    <3>1. categoryRows' = Cardinality(categories')
      BY <1>2, <2>2, Zenon
    <3>. QED
      BY <2>0, <3>1, <1>3, NearFacts
  <2>. QED
    BY <2>0, <2>1, <2>2, <1>3, <1>5, TablesNext
<1>9. Todo!NoOrphans'
  BY <1>1, <1>4 DEF TodoInv, TodoInStep, Todo!NoOrphans
<1>. QED
  BY <1>5, <1>7, <1>8, <1>9 DEF TodoInv, TodoInStep, RealmIsFinite

LEMMA TodoDeletes ==
  ASSUME TodoInv, NEW category \in Categories, NEW committed \in BOOLEAN,
         Todo!DeleteCategory(category, committed)
  PROVE  TodoInv'
<1>. Todo!TypeOK /\ RealmIsFinite
  BY DEF TodoInv, TodoInStep
<1>1. /\ selected = Todo!NoCategory /\ category \in categories /\ Todo!Write(committed)
      /\ categoryRows > 0 /\ categoryRows' = categoryRows - 1
      /\ UNCHANGED <<selected, filtered, itemRows>>
  BY DEF Todo!DeleteCategory
<1>2. badUpdate' = (categoryRows' # Cardinality(categories \ {category}))
  BY Zenon, SameCardinality DEF Todo!DeleteCategory, Todo!UpdateRows
<1>3. /\ failures' \in 0..MaxFailures /\ failures' \in Nat /\ failures \in Nat
      /\ failures' = 0 => committed /\ failures = 0
  BY <1>1, WriteFacts DEF Todo!TypeOK
<1>4. \/ /\ committed /\ ~badUpdate'
         /\ itemList' = {i \in itemList : i.category # category}
         /\ categories' = categories \ {category}
      \/ ~(committed /\ ~badUpdate') /\ UNCHANGED <<itemList, categories>>
  <2>1. CASE committed /\ ~badUpdate'
    <3>1. itemList' = itemList \ Todo!ItemsDeletedWith(category)
          /\ categories' = categories \ {category}
      BY <2>1, Zenon DEF Todo!DeleteCategory
    <3>. QED
      BY <2>1, <3>1 DEF Todo!ItemsDeletedWith
  <2>2. CASE ~(committed /\ ~badUpdate')
    <3>1. UNCHANGED <<itemList, categories>>
      BY <2>2, Zenon DEF Todo!DeleteCategory
    <3>. QED
      BY <2>2, <3>1
  <2>. QED
    BY <2>1, <2>2
<1>5. IsFiniteSet(categories') /\ IsFiniteSet(itemList')
  <2>1. categories' \subseteq categories /\ itemList' \subseteq itemList
    BY <1>4
  <2>. QED
    BY <2>1, FS_Subset DEF RealmIsFinite
<1>6. badUpdate' \in BOOLEAN
  BY <1>2, Zenon
<1>7. Todo!TypeOK'
  <2>1. categories' \subseteq Categories /\ selected' \in categories' \cup {Todo!NoCategory}
        /\ itemList' \subseteq [item : Items, category : Categories]
    BY <1>1, <1>4 DEF Todo!TypeOK
  <2>2. categoryRows' \in Nat
    BY <1>1 DEF Todo!TypeOK
  <2>. QED
    BY <1>1, <1>3, <1>6, <2>1, <2>2 DEF Todo!TypeOK
<1>8. Todo!TablesFollowRealm'
  <2>0. selected' = Todo!NoCategory /\ itemRows' \in Nat /\ categoryRows' \in Nat
        /\ Cardinality(categories') \in Nat /\ Cardinality(categories) \in Nat
    BY <1>1, <1>5, <1>7, FS_CardinalityType DEF Todo!TypeOK, RealmIsFinite
  <2>1. Cardinality(categories \ {category}) = Cardinality(categories) - 1
    BY <1>1, OneLess DEF RealmIsFinite
  <2>2. ASSUME failures' = 0
        PROVE  ~badUpdate'
    <3>1. categoryRows = Cardinality(categories)
      BY <1>3, <2>2, TablesNow, NearFacts
    <3>2. categoryRows' = Cardinality(categories \ {category})
      BY <1>1, <3>1, <2>1
    <3>. QED
      BY <1>2, <3>2, Zenon
  <2>3. ASSUME ~badUpdate'
        PROVE  Near(categoryRows', Cardinality(categories'), failures')
    <3>1. categoryRows' = Cardinality(categories \ {category})
      BY <1>2, <2>3, Zenon
    <3>2. CASE committed
      <4>1. categories' = categories \ {category}
        BY <1>4, <2>3, <3>2
      <4>. QED
        BY <2>0, <3>1, <4>1, <1>3, NearFacts
    <3>3. CASE ~committed
      <4>1. categories' = categories
        BY <1>4, <3>3
      <4>2. categoryRows' + 1 = Cardinality(categories')
        BY <2>0, <2>1, <3>1, <4>1
      <4>. QED
        BY <2>0, <4>2, <1>3, <3>3, NearFacts
    <3>. QED
      BY <3>2, <3>3
  <2>. QED
    BY <2>0, <2>2, <2>3, <1>3, <1>5, TablesNext
<1>9. Todo!NoOrphans'
  BY <1>4 DEF TodoInv, TodoInStep, Todo!NoOrphans
<1>. QED
  BY <1>5, <1>7, <1>8, <1>9 DEF TodoInv, TodoInStep, RealmIsFinite

\* The list is opened, searched, left or reloaded: its rows are counted again.
LEMMA TodoShows ==
  ASSUME TodoInv, UNCHANGED <<categories, itemList, categoryRows, badUpdate, failures>>,
         selected' \in categories \cup {Todo!NoCategory}, filtered' \in BOOLEAN,
         itemRows' \in Nat,
         selected' # Todo!NoCategory =>
             itemRows' = Todo!CountItems(itemList, selected', filtered')
  PROVE  TodoInv'
<1>1. Todo!TypeOK'
  BY DEF TodoInv, TodoInStep, Todo!TypeOK
<1>2. Todo!TablesFollowRealm'
  <2>1. selected' # Todo!NoCategory =>
          Near(itemRows', Todo!CountItems(itemList', selected', filtered'), failures')
    BY TablesNow, NearFacts
  <2>. QED
    BY <2>1, TablesNow, TablesNext DEF TodoInv, RealmIsFinite
<1>. QED
  BY <1>1, <1>2 DEF TodoInv, TodoInStep, Todo!NoOrphans, RealmIsFinite

LEMMA TodoSaves ==
  ASSUME TodoInv, NEW item \in Items, NEW committed \in BOOLEAN, Todo!SaveItem(item, committed)
  PROVE  TodoInv'
<1>. Todo!TypeOK /\ RealmIsFinite
  BY DEF TodoInv, TodoInStep
<1>1. PICK n : n = [item |-> item, category |-> selected]
  OBVIOUS
<1>2. /\ selected # Todo!NoCategory /\ Todo!Write(committed) /\ ~badUpdate
      /\ \A i \in itemList : i.item # item
      /\ itemList' = IF committed THEN itemList \cup {n} ELSE itemList
      /\ \E counted \in {itemList \cup {n}, itemList'} :
           itemRows' = Todo!CountItems(counted, selected, filtered)
      /\ UNCHANGED <<categories, selected, filtered, categoryRows, badUpdate>>
  BY <1>1 DEF Todo!SaveItem
<1>3. selected \in categories /\ selected \in Categories
  BY <1>2 DEF Todo!TypeOK
<1>4. n \in [item : Items, category : Categories] /\ n.category = selected /\ n.item = item
  BY <1>1, <1>3, Zenon
<1>5. /\ failures' \in 0..MaxFailures /\ failures' \in Nat /\ failures \in Nat
      /\ failures' = 0 => committed /\ failures = 0
  BY <1>2, WriteFacts DEF Todo!TypeOK
<1>6. IsFiniteSet(itemList \cup {n}) /\ IsFiniteSet(itemList') /\ IsFiniteSet(categories')
  <2>1. IsFiniteSet(itemList \cup {n})
    BY FS_AddElement DEF RealmIsFinite
  <2>. QED
    BY <1>2, <2>1 DEF RealmIsFinite
<1>7. /\ itemRows' \in Nat
      /\ Todo!CountItems(itemList', selected, filtered) \in Nat
      /\ Todo!CountItems(itemList, selected, filtered) \in Nat
      /\ Todo!CountItems(itemList \cup {n}, selected, filtered) \in Nat
  BY <1>2, <1>6, CountFacts DEF RealmIsFinite
<1>8. Todo!TypeOK'
  <2>1. itemList' \subseteq [item : Items, category : Categories]
    BY <1>2, <1>4 DEF Todo!TypeOK
  <2>. QED
    BY <1>2, <1>5, <1>7, <2>1 DEF Todo!TypeOK
<1>9. \/ Todo!CountItems(itemList \cup {n}, selected, filtered)
           = Todo!CountItems(itemList, selected, filtered)
      \/ Todo!CountItems(itemList \cup {n}, selected, filtered)
           = Todo!CountItems(itemList, selected, filtered) + 1
  <2>1. n \notin Todo!TodoItems(itemList, selected, filtered)
    BY <1>2, <1>4 DEF Todo!TodoItems
  <2>2. \/ Todo!TodoItems(itemList \cup {n}, selected, filtered)
             = Todo!TodoItems(itemList, selected, filtered)
        \/ Todo!TodoItems(itemList \cup {n}, selected, filtered)
             = Todo!TodoItems(itemList, selected, filtered) \cup {n}
    BY DEF Todo!TodoItems
  <2>3. Cardinality(Todo!TodoItems(itemList, selected, filtered) \cup {n})
          = Cardinality(Todo!TodoItems(itemList, selected, filtered)) + 1
    BY <2>1, OneMore, CountFacts DEF RealmIsFinite
  <2>. QED
    BY <2>2, <2>3, SameCardinality DEF Todo!CountItems
<1>10. Todo!TablesFollowRealm'
  <2>1. Near(itemRows', Todo!CountItems(itemList', selected', filtered'), failures')
    <3>1. CASE itemRows' = Todo!CountItems(itemList', selected, filtered)
      BY <1>2, <1>5, <1>7, <3>1, NearFacts
    <3>2. CASE itemRows' # Todo!CountItems(itemList', selected, filtered)
      <4>1. itemRows' = Todo!CountItems(itemList \cup {n}, selected, filtered) /\ itemList' = itemList
            /\ ~committed
        BY <1>2, <3>2
      <4>2. itemRows' = Todo!CountItems(itemList', selected, filtered) + 1
        BY <4>1, <1>9, <3>2
      <4>3. failures' # 0
        BY <1>5, <4>1
      <4>. QED
        BY <1>2, <1>5, <1>7, <4>2, <4>3, NearFacts
    <3>. QED
      BY <3>1, <3>2
  <2>2. Near(categoryRows', Cardinality(categories'), failures')
    BY <1>2, <1>5, TablesNow, NearFacts
  <2>3. categoryRows' \in Nat /\ ~badUpdate'
    BY <1>2 DEF Todo!TypeOK
  <2>. QED
    BY <1>5, <1>6, <1>7, <2>1, <2>2, <2>3, TablesNext
<1>11. Todo!NoOrphans'
  BY <1>2, <1>3, <1>4 DEF TodoInv, TodoInStep, Todo!NoOrphans
<1>. QED
  BY <1>2, <1>6, <1>8, <1>10, <1>11 DEF TodoInv, TodoInStep, RealmIsFinite

LEMMA TodoTicks ==
  ASSUME TodoInv, NEW committed \in BOOLEAN, Todo!ToggleItem(committed)
  PROVE  TodoInv'
<1>. Todo!TypeOK /\ RealmIsFinite
  BY DEF TodoInv, TodoInStep
<1>1. /\ selected # Todo!NoCategory /\ Todo!Write(committed) /\ ~badUpdate
      /\ UNCHANGED <<categories, itemList, selected, filtered, categoryRows, itemRows>>
  BY DEF Todo!ToggleItem
<1>2. \/ committed /\ badUpdate' = (itemRows # Todo!CountItems(itemList, selected, filtered))
      \/ ~committed /\ badUpdate' = badUpdate
  BY Zenon DEF Todo!ToggleItem, Todo!UpdateRows
<1>3. /\ failures' \in 0..MaxFailures /\ failures' \in Nat /\ failures \in Nat
      /\ failures' = 0 => committed /\ failures = 0
  BY <1>1, WriteFacts DEF Todo!TypeOK
<1>4. badUpdate' \in BOOLEAN
  BY <1>2, Zenon DEF Todo!TypeOK
<1>5. Todo!TypeOK'
  BY <1>1, <1>3, <1>4 DEF Todo!TypeOK
<1>6. ASSUME failures' = 0
      PROVE  ~badUpdate'
  <2>1. itemRows = Todo!CountItems(itemList, selected, filtered)
    BY <1>1, <1>3, <1>6, TablesNow, NearFacts
  <2>. QED
    BY <1>2, <1>3, <1>6, <2>1, Zenon
<1>7. Todo!TablesFollowRealm'
  <2>1. /\ Near(categoryRows', Cardinality(categories'), failures')
        /\ Near(itemRows', Todo!CountItems(itemList', selected', filtered'), failures')
    BY <1>1, <1>3, TablesNow, NearFacts
  <2>2. categoryRows' \in Nat /\ itemRows' \in Nat
    BY <1>5 DEF Todo!TypeOK
  <2>3. IsFiniteSet(categories') /\ IsFiniteSet(itemList')
    BY <1>1 DEF RealmIsFinite
  <2>. QED
    BY <1>3, <1>6, <2>1, <2>2, <2>3, TablesNext
<1>. QED
  BY <1>1, <1>5, <1>7 DEF TodoInv, TodoInStep, Todo!NoOrphans, RealmIsFinite

LEMMA TodoDeletesItem ==
  ASSUME TodoInv, NEW i \in itemList, NEW committed \in BOOLEAN, Todo!DeleteItem(i, committed)
  PROVE  TodoInv'
<1>. Todo!TypeOK /\ RealmIsFinite
  BY DEF TodoInv, TodoInStep
<1>1. /\ selected # Todo!NoCategory /\ Todo!Write(committed) /\ ~badUpdate
      /\ i \in Todo!TodoItems(itemList, selected, filtered)
      /\ itemRows > 0 /\ itemRows' = itemRows - 1
      /\ UNCHANGED <<categories, selected, filtered, categoryRows>>
  BY DEF Todo!DeleteItem
<1>2. badUpdate' = (itemRows' # Todo!CountItems(itemList \ {i}, selected, filtered))
  BY Zenon DEF Todo!DeleteItem, Todo!UpdateRows
<1>3. itemList' = IF committed /\ ~badUpdate' THEN itemList \ {i} ELSE itemList
  BY DEF Todo!DeleteItem
<1>4. /\ failures' \in 0..MaxFailures /\ failures' \in Nat /\ failures \in Nat
      /\ failures' = 0 => committed /\ failures = 0
  BY <1>1, WriteFacts DEF Todo!TypeOK
<1>5. itemList' \subseteq itemList
  BY <1>3
<1>6. IsFiniteSet(itemList')
  BY <1>5, FS_Subset DEF RealmIsFinite
<1>7. badUpdate' \in BOOLEAN
  BY <1>2, Zenon
<1>8. itemRows' \in Nat
  BY <1>1 DEF Todo!TypeOK
<1>9. Todo!TypeOK'
  BY <1>1, <1>4, <1>5, <1>7, <1>8 DEF Todo!TypeOK
<1>10. Todo!TablesFollowRealm'
  <2>1. Todo!TodoItems(itemList \ {i}, selected, filtered)
          = Todo!TodoItems(itemList, selected, filtered) \ {i}
    BY DEF Todo!TodoItems
  <2>2. IsFiniteSet(Todo!TodoItems(itemList, selected, filtered))
    BY CountFacts DEF RealmIsFinite
  <2>3. /\ Todo!CountItems(itemList \ {i}, selected, filtered)
             = Todo!CountItems(itemList, selected, filtered) - 1
        /\ Todo!CountItems(itemList, selected, filtered) \in Nat
    BY <1>1, <2>1, <2>2, OneLess, SameCardinality DEF Todo!CountItems
  <2>4. ASSUME failures' = 0
        PROVE  ~badUpdate'
    <3>1. itemRows = Todo!CountItems(itemList, selected, filtered)
      BY <1>1, <1>4, <2>4, TablesNow, NearFacts
    <3>2. itemRows' = Todo!CountItems(itemList \ {i}, selected, filtered)
      BY <1>1, <3>1, <2>3
    <3>. QED
      BY <1>2, <3>2, Zenon
  <2>5. ASSUME ~badUpdate'
        PROVE  Near(itemRows', Todo!CountItems(itemList', selected', filtered'), failures')
    <3>1. itemRows' = Todo!CountItems(itemList \ {i}, selected, filtered)
      BY <1>2, <2>5, Zenon
    <3>2. CASE committed
      <4>1. itemList' = itemList \ {i}
        BY <1>3, <2>5, <3>2
      <4>. QED
        BY <1>1, <1>4, <1>8, <3>1, <4>1, NearFacts
    <3>3. CASE ~committed
      <4>1. itemList' = itemList
        BY <1>3, <3>3
      <4>2. itemRows' + 1 = Todo!CountItems(itemList', selected', filtered')
        BY <1>1, <2>3, <3>1, <4>1
      <4>3. Todo!CountItems(itemList', selected', filtered') \in Nat
        BY <1>1, <2>3, <4>1
      <4>. QED
        BY <1>4, <1>8, <3>3, <4>2, <4>3, NearFacts
    <3>. QED
      BY <3>2, <3>3
  <2>6. Near(categoryRows', Cardinality(categories'), failures')
    BY <1>1, <1>4, TablesNow, NearFacts
  <2>7. categoryRows' \in Nat /\ IsFiniteSet(categories')
    BY <1>1 DEF RealmIsFinite, Todo!TypeOK
  <2>. QED
    BY <1>4, <1>6, <1>8, <2>4, <2>5, <2>6, <2>7, TablesNext
<1>11. Todo!NoOrphans'
  BY <1>1, <1>5 DEF TodoInv, TodoInStep, Todo!NoOrphans
<1>. QED
  BY <1>1, <1>6, <1>9, <1>10, <1>11 DEF TodoInv, TodoInStep, RealmIsFinite

LEMMA TodoRestarts ==
  ASSUME TodoInv, Todo!Restart
  PROVE  TodoInv'
<1>. Todo!TypeOK /\ RealmIsFinite
  BY DEF TodoInv, TodoInStep
<1>1. /\ selected' = Todo!NoCategory /\ filtered' = FALSE /\ badUpdate' = FALSE
      /\ categoryRows' = Cardinality(categories) /\ itemRows' = 0 /\ failures' = 0
      /\ UNCHANGED <<categories, itemList>>
  BY SameCardinality DEF Todo!Restart
<1>2. filtered' \in BOOLEAN /\ badUpdate' \in BOOLEAN
  BY <1>1, Zenon
<1>3. categoryRows' \in Nat /\ failures' \in 0..MaxFailures
  BY <1>1, AppsAssumption, FS_CardinalityType DEF RealmIsFinite
<1>4. Todo!TypeOK'
  BY <1>1, <1>2, <1>3 DEF Todo!TypeOK
<1>5. Todo!TablesFollowRealm'
  <2>1. ~badUpdate' /\ selected' = Todo!NoCategory /\ itemRows' \in Nat /\ failures' \in Nat
    BY <1>1
  <2>2. Near(categoryRows', Cardinality(categories'), failures')
    BY <1>1, <1>3 DEF Near
  <2>3. IsFiniteSet(categories') /\ IsFiniteSet(itemList')
    BY <1>1 DEF RealmIsFinite
  <2>. QED
    BY <1>3, <2>1, <2>2, <2>3, TablesNext
<1>. QED
  BY <1>1, <1>4, <1>5 DEF TodoInv, TodoInStep, Todo!NoOrphans, RealmIsFinite

\* A row without an item is there only after a write that failed.
LEMMA TodoAsks ==
  ASSUME TodoInv, Todo!AskMissingRow
  PROVE  TodoInv'
<1>. Todo!TypeOK /\ RealmIsFinite
  BY DEF TodoInv, TodoInStep
<1>1. /\ ~badUpdate /\ selected # Todo!NoCategory /\ badUpdate' = TRUE
      /\ itemRows > Todo!CountItems(itemList, selected, filtered)
      /\ UNCHANGED <<categories, itemList, selected, filtered, categoryRows, itemRows, failures>>
  BY DEF Todo!AskMissingRow
<1>2. failures # 0
  BY <1>1, TablesNow, NearFacts
<1>3. Todo!TypeOK'
  BY <1>1 DEF Todo!TypeOK
<1>4. IsFiniteSet(categories') /\ IsFiniteSet(itemList')
  BY <1>1 DEF RealmIsFinite
<1>5. Todo!TablesFollowRealm'
  BY <1>1, <1>2, <1>4, TablesNow, TablesNext
<1>. QED
  BY <1>1, <1>3, <1>5 DEF TodoInv, TodoInStep, Todo!NoOrphans, RealmIsFinite

LEMMA TodoStep ==
  ASSUME TodoInv, Todo!Next \/ UNCHANGED todoVars
  PROVE  TodoInv'
<1>. Todo!TypeOK /\ RealmIsFinite
  BY DEF TodoInv, TodoInStep
<1>1. \A category, matching : Todo!CountItems(itemList, category, matching) \in Nat
  BY CountFacts DEF RealmIsFinite
<1>2. TRUE \in BOOLEAN /\ FALSE \in BOOLEAN
  BY Zenon
<1>3. ASSUME NEW category \in Categories, Todo!OpenList(category)
      PROVE  TodoInv'
  BY <1>1, <1>2, <1>3, TodoShows DEF Todo!OpenList
<1>4. CASE Todo!Back
  BY <1>2, <1>4, TodoShows DEF Todo!Back
<1>5. CASE Todo!Search
  BY <1>1, <1>2, <1>5, TodoShows DEF Todo!Search, Todo!TypeOK
<1>6. CASE Todo!ClearSearch
  BY <1>1, <1>2, <1>6, TodoShows DEF Todo!ClearSearch, Todo!TypeOK
<1>7. CASE UNCHANGED todoVars
  BY <1>7 DEF todoVars, TodoInv, TodoInStep, RealmIsFinite, Todo!TypeOK,
    Todo!TablesFollowRealm, Todo!InStep, Todo!Slack, Todo!NoOrphans
<1>. QED
  BY <1>3, <1>4, <1>5, <1>6, <1>7, TodoAdds, TodoDeletes, TodoSaves, TodoTicks,
     TodoDeletesItem, TodoAsks, TodoRestarts DEF Todo!Next

\* Until a write fails both tables have a row for every live result and the app
\* does not end; later the tables of an app that goes on are at most a row off,
\* however many writes fail; and always, after refused updates and restarts too,
\* every item in Realm belongs to a category that exists.
THEOREM EveryResultHasARow == FairSpec => []TodoInStep
<1>1. Init => TodoInv
  BY TodoInit DEF Init
<1>2. TodoInv /\ [Next]_vars => TodoInv'
  BY TodoStep, OneAppMoves
<1>3. TodoInv => TodoInStep
  BY DEF TodoInv
<1>. QED
  BY <1>1, <1>2, <1>3, PTL DEF FairSpec

-----------------------------------------------------------------------------
(* Clima and ByteCoin                                                      *)

\* What a handler may hand to the main queue.
Results == {Lookup!Success(k) : k \in good} \cup {Lookup!Failure(k) : k \in 1..asked}

\* The greatest of the lookups that were answered well, or 0.
IsLatest(k) == IF good = {} THEN k = 0 ELSE k \in good /\ \A j \in good : j <= k

\* One lookup at a time: at most the last one is in flight, its result is alone
\* on the main queue, and that result, or the labels, show the last good answer.
OneByOne ==
    ~overlapped =>
        /\ inFlight \subseteq {asked}
        /\ results # <<>> => inFlight = {} /\ Len(results) = 1
        /\ (results # <<>> /\ results[1].success) => IsLatest(results[1].lookup)
        /\ (results = <<>> \/ ~results[1].success) => IsLatest(shown)

LookupTypes ==
    /\ Lookup!TypeOK
    /\ results \in Seq(Results)
    /\ good \subseteq 1..asked

LookupInv == LookupTypes /\ OneByOne

LEMMA ResultFacts ==
  ASSUME NEW k
  PROVE  /\ Lookup!Success(k).success /\ Lookup!Success(k).lookup = k
         /\ ~Lookup!Failure(k).success
BY DEF Lookup!Success, Lookup!Failure

LEMMA LookupInit ==
  ASSUME Lookup!Init
  PROVE  LookupInv
<1>1. byteCoin \in BOOLEAN /\ alert \in BOOLEAN /\ noData \in BOOLEAN /\ overlapped \in BOOLEAN
  BY Zenon DEF Lookup!Init
<1>2. asked \in 0..MaxLookups
  BY AppsAssumption DEF Lookup!Init
<1>3. Lookup!TypeOK
  BY <1>1, <1>2 DEF Lookup!Init, Lookup!TypeOK
<1>4. results \in Seq(Results) /\ good \subseteq 1..asked
  BY DEF Lookup!Init
<1>. QED
  BY <1>3, <1>4 DEF Lookup!Init, LookupInv, LookupTypes, OneByOne, IsLatest

\* The typing of the results is that of their elements.
LEMMA ResultsAreTyped ==
  ASSUME NEW S, NEW s \in Seq(S)
  PROVE  \A i \in DOMAIN s : s[i] \in S
OBVIOUS

LEMMA LookupFetch ==
  ASSUME LookupInv, Lookup!Fetch
  PROVE  LookupInv'
<1>1. /\ asked < MaxLookups /\ asked' = asked + 1 /\ inFlight' = inFlight \cup {asked'}
      /\ UNCHANGED <<byteCoin, results, shown, alert, noData, good>>
  BY DEF Lookup!Fetch
<1>2. overlapped' = (overlapped \/ inFlight # {} \/ results # <<>>)
  BY Zenon DEF Lookup!Fetch
<1>3. LookupTypes /\ Lookup!TypeOK /\ MaxLookups \in Nat
  BY AppsAssumption DEF LookupInv, LookupTypes
<1>4. overlapped' \in BOOLEAN /\ (~overlapped' => ~overlapped /\ inFlight = {} /\ results = <<>>)
  BY <1>2, <1>3, Zenon DEF Lookup!TypeOK
<1>5. asked' \in 0..MaxLookups /\ 1..asked \subseteq 1..asked' /\ asked' \in 1..asked'
      /\ asked' \notin 1..asked
  BY <1>1, <1>3 DEF Lookup!TypeOK
<1>6. inFlight' \subseteq 1..asked' /\ good' \cap inFlight' = {} /\ good' \subseteq 1..asked'
  BY <1>1, <1>3, <1>5 DEF Lookup!TypeOK, LookupTypes
<1>7. Results \subseteq Results'
  BY <1>1, <1>5 DEF Results
<1>8. results' \in Seq(Results')
  BY <1>1, <1>3, <1>7 DEF LookupTypes
<1>9. \A i \in DOMAIN results' : results'[i] \in Results'
  BY <1>8, ResultsAreTyped
<1>10. Lookup!TypeOK'
  BY <1>1, <1>3, <1>4, <1>5, <1>6, <1>9 DEF Lookup!TypeOK, Results
<1>11. OneByOne'
  BY <1>1, <1>4 DEF LookupInv, OneByOne, IsLatest
<1>. QED
  BY <1>6, <1>8, <1>10, <1>11 DEF LookupInv, LookupTypes

LEMMA AppendResult ==
  ASSUME NEW S, NEW s \in Seq(S), NEW x \in S
  PROVE  Append(s, x) \in Seq(S) /\ (s = <<>> => Len(Append(s, x)) = 1 /\ Append(s, x)[1] = x)
         /\ Append(s, x) # <<>>
OBVIOUS

\* The handler of a lookup: it is no longer in flight.
LEMMA LookupAnswered ==
  ASSUME LookupInv, NEW k \in inFlight, inFlight' = inFlight \ {k}
  PROVE  /\ k \in 1..asked /\ k \notin good
         /\ ~overlapped => k = asked /\ results = <<>> /\ inFlight' = {} /\ IsLatest(shown)
BY DEF LookupInv, LookupTypes, Lookup!TypeOK, OneByOne

LEMMA LookupWell ==
  ASSUME LookupInv, NEW k \in inFlight, Lookup!AnsweredWell(k)
  PROVE  LookupInv'
<1>1. /\ inFlight' = inFlight \ {k} /\ good' = good \cup {k}
      /\ results' = Append(results, Lookup!Success(k))
      /\ UNCHANGED <<byteCoin, asked, shown, alert, noData, overlapped>>
  BY DEF Lookup!AnsweredWell
<1>2. LookupTypes /\ Lookup!TypeOK /\ asked \in Nat
  BY DEF LookupInv, LookupTypes, Lookup!TypeOK
<1>3. /\ k \in 1..asked /\ k \notin good
      /\ ~overlapped => k = asked /\ results = <<>> /\ inFlight' = {} /\ IsLatest(shown)
  BY <1>1, LookupAnswered
<1>4. good' \subseteq 1..asked' /\ good' \cap inFlight' = {} /\ good \subseteq good'
  BY <1>1, <1>2, <1>3 DEF LookupTypes, Lookup!TypeOK
<1>5. Results \subseteq Results' /\ Lookup!Success(k) \in Results'
  BY <1>1 DEF Results
<1>6. results \in Seq(Results')
  BY <1>2, <1>5 DEF LookupTypes
<1>7. /\ results' \in Seq(Results') /\ results' # <<>>
      /\ results = <<>> => Len(results') = 1 /\ results'[1] = Lookup!Success(k)
  BY <1>1, <1>5, <1>6, AppendResult
<1>8. \A i \in DOMAIN results' : results'[i] \in Results'
  BY <1>7, ResultsAreTyped
<1>9. Lookup!TypeOK'
  BY <1>1, <1>2, <1>4, <1>8 DEF Lookup!TypeOK, Results
<1>10. OneByOne'
  <2>1. SUFFICES ASSUME ~overlapped
                 PROVE  /\ inFlight' = {} /\ Len(results') = 1
                        /\ results'[1].success /\ IsLatest(results[1].lookup)'
    BY <1>1, <1>7 DEF OneByOne
  <2>2. results'[1] = Lookup!Success(k)
    BY <1>3, <1>7, <2>1
  <2>3. results'[1].success /\ results'[1].lookup = k
    BY <2>2, ResultFacts
  <2>4. \A j \in good' : j <= k
    BY <1>1, <1>2, <1>3, <2>1 DEF LookupTypes
  <2>5. k \in good'
    BY <1>1
  <2>6. IsLatest(results[1].lookup)'
    BY <2>3, <2>4, <2>5 DEF IsLatest
  <2>7. inFlight' = {} /\ Len(results') = 1
    BY <1>3, <1>7, <2>1
  <2>. QED
    BY <2>3, <2>6, <2>7
<1>. QED
  BY <1>4, <1>7, <1>9, <1>10 DEF LookupInv, LookupTypes

LEMMA LookupBadly ==
  ASSUME LookupInv, NEW k \in inFlight, Lookup!AnsweredBadly(k) \/ Lookup!Unanswered(k)
  PROVE  LookupInv'
<1>1. /\ inFlight' = inFlight \ {k} /\ Lookup!Report(k)
      /\ UNCHANGED <<byteCoin, asked, shown, alert, good, overlapped>>
  BY DEF Lookup!AnsweredBadly, Lookup!Unanswered
<1>2. LookupTypes /\ Lookup!TypeOK /\ asked \in Nat
  BY DEF LookupInv, LookupTypes, Lookup!TypeOK
<1>3. noData' \in BOOLEAN
  <2>1. CASE Lookup!AnsweredBadly(k)
    BY <1>2, <2>1 DEF Lookup!AnsweredBadly, Lookup!TypeOK
  <2>2. CASE Lookup!Unanswered(k)
    BY <2>2, Zenon DEF Lookup!Unanswered
  <2>. QED
    BY <2>1, <2>2
<1>4. /\ k \in 1..asked
      /\ ~overlapped => k = asked /\ results = <<>> /\ inFlight' = {} /\ IsLatest(shown)
  BY <1>1, LookupAnswered
<1>5. Results' = Results /\ Lookup!Failure(k) \in Results
  BY <1>1, <1>4 DEF Results
<1>6. results' = Append(results, Lookup!Failure(k)) \/ results' = results
  BY <1>1 DEF Lookup!Report
<1>7. /\ results' \in Seq(Results')
      /\ results = <<>> => results' = <<>> \/ (/\ Len(results') = 1 /\ results' # <<>>
                                              /\ results'[1] = Lookup!Failure(k))
  <2>1. CASE results' = Append(results, Lookup!Failure(k))
    BY <1>2, <1>5, <2>1, AppendResult DEF LookupTypes
  <2>2. CASE results' = results
    BY <1>2, <1>5, <2>2 DEF LookupTypes
  <2>. QED
    BY <1>6, <2>1, <2>2
<1>8. \A i \in DOMAIN results' : results'[i] \in Results'
  BY <1>7, ResultsAreTyped
<1>9. Lookup!TypeOK'
  BY <1>1, <1>2, <1>3, <1>8 DEF Lookup!TypeOK, Results
<1>10. OneByOne'
  <2>1. SUFFICES ASSUME ~overlapped
                 PROVE  /\ inFlight' = {} /\ (results' # <<>> => Len(results') = 1)
                        /\ (results' # <<>> => ~results'[1].success) /\ IsLatest(shown)'
    BY <1>1 DEF OneByOne
  <2>2. results' # <<>> => Len(results') = 1 /\ ~results'[1].success
    BY <1>4, <1>7, <2>1, ResultFacts
  <2>3. IsLatest(shown)'
    BY <1>1, <1>4, <2>1 DEF IsLatest
  <2>. QED
    BY <1>4, <2>1, <2>2, <2>3
<1>. QED
  BY <1>1, <1>2, <1>7, <1>9, <1>10 DEF LookupInv, LookupTypes

LEMMA HeadOfResults ==
  ASSUME NEW S, NEW s \in Seq(S), s # <<>>
  PROVE  /\ Head(s) = s[1] /\ Head(s) \in S /\ Tail(s) \in Seq(S)
         /\ Len(s) = 1 => Tail(s) = <<>>
<1>1. Head(s) = s[1] /\ Head(s) \in S /\ Tail(s) \in Seq(S)
  OBVIOUS
<1>2. \A t \in Seq(S) : Len(t) = 0 => t = <<>>
  OBVIOUS
<1>3. Len(s) = 1 => Len(Tail(s)) = 0
  OBVIOUS
<1>. QED
  BY <1>1, <1>2, <1>3, Zenon

LEMMA LookupShows ==
  ASSUME LookupInv, Lookup!UpdateUI
  PROVE  LookupInv'
<1>1. /\ results # <<>> /\ results' = Tail(results)
      /\ UNCHANGED <<byteCoin, asked, inFlight, noData, good, overlapped>>
  BY DEF Lookup!UpdateUI
<1>2. LookupTypes /\ Lookup!TypeOK
  BY DEF LookupInv, LookupTypes
<1>3. /\ Head(results) = results[1] /\ Head(results) \in Results
      /\ results' \in Seq(Results) /\ (Len(results) = 1 => results' = <<>>)
  BY <1>1, <1>2, HeadOfResults DEF LookupTypes
<1>4. Results' = Results
  BY <1>1 DEF Results
<1>5. \A i \in DOMAIN results' : results'[i] \in Results
  BY <1>3, ResultsAreTyped
<1>6. CASE Head(results).success
  <2>1. shown' = Head(results).lookup /\ UNCHANGED alert
    BY <1>6 DEF Lookup!UpdateUI
  <2>2. PICK k \in good : Head(results) = Lookup!Success(k)
    BY <1>3, <1>6, ResultFacts DEF Results
  <2>3. shown' \in good
    BY <2>1, <2>2, ResultFacts
  <2>4. Lookup!TypeOK'
    BY <1>1, <1>2, <1>5, <2>1, <2>3 DEF Lookup!TypeOK, Results
  <2>5. OneByOne'
    <3>1. SUFFICES ASSUME ~overlapped
                   PROVE  inFlight \subseteq {asked} /\ results' = <<>> /\ IsLatest(shown)'
      BY <1>1 DEF OneByOne
    <3>2. Len(results) = 1 /\ IsLatest(results[1].lookup) /\ inFlight \subseteq {asked}
      BY <1>1, <1>3, <1>6, <3>1 DEF LookupInv, OneByOne
    <3>. QED
      BY <1>1, <1>3, <2>1, <3>2 DEF IsLatest
  <2>. QED
    BY <1>1, <1>2, <1>3, <1>4, <2>4, <2>5 DEF LookupInv, LookupTypes
<1>7. CASE ~Head(results).success
  <2>1. alert' = TRUE /\ UNCHANGED shown
    BY <1>7 DEF Lookup!UpdateUI
  <2>2. alert' \in BOOLEAN
    BY <2>1, Zenon
  <2>3. Lookup!TypeOK'
    BY <1>1, <1>2, <1>5, <2>1, <2>2 DEF Lookup!TypeOK, Results
  <2>4. OneByOne'
    <3>1. SUFFICES ASSUME ~overlapped
                   PROVE  inFlight \subseteq {asked} /\ results' = <<>> /\ IsLatest(shown)'
      BY <1>1 DEF OneByOne
    <3>2. Len(results) = 1 /\ IsLatest(shown) /\ inFlight \subseteq {asked}
      BY <1>1, <1>3, <1>7, <3>1 DEF LookupInv, OneByOne
    <3>. QED
      BY <1>1, <1>3, <2>1, <3>2 DEF IsLatest
  <2>. QED
    BY <1>1, <1>2, <1>3, <1>4, <2>3, <2>4 DEF LookupInv, LookupTypes
<1>. QED
  BY <1>6, <1>7

LEMMA LookupStep ==
  ASSUME LookupInv, Lookup!Next \/ UNCHANGED lookupVars
  PROVE  LookupInv'
<1>1. CASE Lookup!Dismiss
  <2>1. alert' \in BOOLEAN
    BY <1>1, Zenon DEF Lookup!Dismiss
  <2>. QED
    BY <1>1, <2>1 DEF Lookup!Dismiss, LookupInv, LookupTypes, Lookup!TypeOK, OneByOne,
      IsLatest, Results
<1>2. CASE UNCHANGED lookupVars
  BY <1>2 DEF lookupVars, LookupInv, LookupTypes, Lookup!TypeOK, OneByOne, IsLatest, Results
<1>. QED
  BY <1>1, <1>2, LookupFetch, LookupWell, LookupBadly, LookupShows DEF Lookup!Next

\* The greatest of a set is what Max chooses.
LEMMA LatestIsMax ==
  ASSUME NEW k \in Nat, good \subseteq Nat, IsLatest(k)
  PROVE  k = IF good = {} THEN 0 ELSE Lookup!Max(good)
<1>1. CASE good = {}
  BY <1>1 DEF IsLatest
<1>2. CASE good # {}
  <2>1. k \in good /\ \A j \in good : k >= j
    BY <1>2 DEF IsLatest
  <2>2. Lookup!Max(good) \in good /\ \A j \in good : Lookup!Max(good) >= j
    BY <2>1 DEF Lookup!Max
  <2>3. PICK m : m = Lookup!Max(good)
    OBVIOUS
  <2>4. m \in Nat /\ m <= k /\ k <= m
    BY <2>1, <2>2, <2>3
  <2>5. k = m
    BY <2>4
  <2>. QED
    BY <1>2, <2>3, <2>5
<1>. QED
  BY <1>1, <1>2

\* Whoever waits for one lookup before the next sees, when nothing is pending,
\* the last one that was answered well, whatever failed in between.
THEOREM LookupsEndWithTheLast == FairSpec => []LastLookupIsShown
<1>1. Init => LookupInv
  BY LookupInit DEF Init
<1>2. LookupInv /\ [Next]_vars => LookupInv'
  BY LookupStep, OneAppMoves
<1>3. LookupInv => LastLookupIsShown
  <2>1. SUFFICES ASSUME LookupInv
                 PROVE  Lookup!TypeOK /\ Lookup!LastLookupIsShown
    BY DEF LastLookupIsShown
  <2>2. Lookup!TypeOK /\ good \subseteq Nat /\ shown \in Nat
    BY <2>1 DEF LookupInv, LookupTypes, Lookup!TypeOK
  <2>3. (~overlapped /\ results = <<>>) => IsLatest(shown)
    BY <2>1 DEF LookupInv, OneByOne
  <2>. QED
    BY <2>2, <2>3, LatestIsMax DEF Lookup!LastLookupIsShown
<1>. QED
  BY <1>1, <1>2, <1>3, PTL DEF FairSpec

-----------------------------------------------------------------------------
(* Flash-Chat's table of messages                                          *)

\* How many documents of S come before d.
Rank(S, d) == Cardinality({e \in S : e < d})

\* The documents of a finite set can be put in order: each goes where its rank
\* says, and different documents have different ranks.
LEMMA OrderExists ==
  ASSUME NEW S \in SUBSET Nat, IsFiniteSet(S)
  PROVE  \E s \in [1..Cardinality(S) -> S] : \A i, j \in DOMAIN s : i < j => s[i] < s[j]
<1>. \A d \in S : d \in Nat
  OBVIOUS
<1>1. PICK n : n = Cardinality(S)
  OBVIOUS
<1>2. n \in Nat
  BY <1>1, FS_CardinalityType
<1>3. ASSUME NEW d \in S
      PROVE  /\ Rank(S, d) \in Nat /\ Rank(S, d) + 1 <= n
             /\ IsFiniteSet({e \in S : e < d})
  <2>1. PICK B : B = {e \in S : e < d}
    OBVIOUS
  <2>2. B \subseteq S /\ d \notin B
    BY <1>3, <2>1
  <2>3. IsFiniteSet(B) /\ Cardinality(B) <= Cardinality(S) /\ Cardinality(B) # Cardinality(S)
        /\ Cardinality(B) \in Nat
    BY <2>2, FS_Subset, FS_CardinalityType
  <2>4. Cardinality(B) + 1 <= n
    BY <1>1, <1>2, <2>3
  <2>. QED
    BY <2>1, <2>3, <2>4 DEF Rank
<1>4. ASSUME NEW d \in S, NEW e \in S, d < e
      PROVE  Rank(S, d) < Rank(S, e)
  <2>1. PICK B, C : B = {x \in S : x < d} /\ C = {x \in S : x < e}
    OBVIOUS
  <2>2. B \subseteq C /\ d \in C /\ d \notin B
    <3>1. \A x \in S : x < d => x < e
      BY <1>4
    <3>2. ~(d < d)
      OBVIOUS
    <3>. QED
      BY <1>4, <2>1, <3>1, <3>2, Zenon
  <2>3. IsFiniteSet(C) /\ IsFiniteSet(B)
    BY <1>3, <2>1
  <2>4. Cardinality(B) <= Cardinality(C) /\ Cardinality(B) # Cardinality(C)
        /\ Cardinality(B) \in Nat /\ Cardinality(C) \in Nat
    BY <2>2, <2>3, FS_Subset, FS_CardinalityType
  <2>5. Cardinality(B) < Cardinality(C)
    BY <2>4
  <2>. QED
    BY <2>1, <2>5 DEF Rank
<1>5. PICK rank : rank = [d \in S |-> Rank(S, d) + 1]
  OBVIOUS
<1>6. rank \in [S -> 1..n]
  <2>1. ASSUME NEW d \in S
        PROVE  Rank(S, d) + 1 \in 1..n
    <3>1. \A m, k \in Nat : m + 1 <= k => m + 1 \in 1..k
      OBVIOUS
    <3>2. Rank(S, d) \in Nat /\ Rank(S, d) + 1 <= n
      BY <1>3
    <3>. QED
      BY <1>2, <3>1, <3>2, Zenon
  <2>. QED
    BY <1>5, <2>1
<1>7. \A d, e \in S : rank[d] = rank[e] => d = e
  <2>1. SUFFICES ASSUME NEW d \in S, NEW e \in S, rank[d] = rank[e], d # e
                 PROVE  FALSE
    OBVIOUS
  <2>2. Rank(S, d) = Rank(S, e) /\ Rank(S, d) \in Nat
    <3>1. PICK m, k : m = Rank(S, d) /\ k = Rank(S, e)
      OBVIOUS
    <3>2. m \in Nat /\ k \in Nat /\ m + 1 = k + 1
      BY <1>3, <1>5, <2>1, <3>1
    <3>. QED
      BY <3>1, <3>2
  <2>3. d < e \/ e < d
    BY <2>1
  <2>4. Rank(S, d) < Rank(S, e) \/ Rank(S, e) < Rank(S, d)
    BY <1>4, <2>3
  <2>. QED
    BY <2>2, <2>4
<1>8. rank \in Injection(S, 1..n)
  BY <1>6, <1>7 DEF Injection, IsInjective
<1>9. IsFiniteSet(1..n) /\ Cardinality(1..n) = n
  BY <1>2, FS_Interval
<1>10. rank \in Surjection(S, 1..n)
  BY <1>1, <1>8, <1>9, FS_Injection
<1>11. \A i \in 1..n : \E d \in S : rank[d] = i
  BY <1>10 DEF Surjection
<1>12. PICK s : s = [i \in 1..n |-> CHOOSE d \in S : rank[d] = i]
  OBVIOUS
<1>13. \A i \in 1..n : s[i] \in S /\ rank[s[i]] = i
  BY <1>11, <1>12
<1>14. ASSUME NEW i \in 1..n, NEW j \in 1..n, i < j
       PROVE  s[i] < s[j]
  <2>1. s[i] \in S /\ s[j] \in S /\ rank[s[i]] = i /\ rank[s[j]] = j
    BY <1>13
  <2>2. PICK d \in S, e \in S : d = s[i] /\ e = s[j]
    BY <2>1
  <2>3. Rank(S, d) + 1 = i /\ Rank(S, e) + 1 = j
    BY <1>5, <2>1, <2>2
  <2>4. Rank(S, d) \in Nat /\ Rank(S, e) \in Nat
    BY <1>3
  <2>5. ~(Rank(S, e) < Rank(S, d)) /\ Rank(S, e) # Rank(S, d)
    BY <1>14, <2>3, <2>4
  <2>6. ~(e < d) /\ d # e
    BY <1>4, <2>5
  <2>7. d < e
    BY <2>6
  <2>. QED
    BY <2>2, <2>7
<1>. QED
  <2>1. s \in [1..n -> S] /\ DOMAIN s = 1..n
    BY <1>12, <1>13
  <2>. QED
    BY <1>1, <1>14, <2>1

\* The messages of an event are those of its documents that can be read.
LEMMA ParsedFacts ==
  ASSUME NEW S \in SUBSET Docs
  PROVE  /\ Screen!Parsed(S) \in Seq(Docs \ Malformed)
         /\ Len(Screen!Parsed(S)) \in Nat
<1>1. PICK T : T = S \ Malformed
  OBVIOUS
<1>2. T \in SUBSET Nat /\ T \subseteq Docs \ Malformed
  BY <1>1, AppsAssumption
<1>3. IsFiniteSet(T)
  BY <1>2, AppsAssumption, FS_Subset
<1>4. \E s \in [1..Cardinality(T) -> T] : \A i, j \in DOMAIN s : i < j => s[i] < s[j]
  BY <1>2, <1>3, OrderExists
<1>5. Screen!InOrder(T) \in [1..Cardinality(T) -> T]
  BY <1>4, SameCardinality DEF Screen!InOrder
<1>6. Cardinality(T) \in Nat
  BY <1>3, FS_CardinalityType
<1>7. Screen!InOrder(T) \in Seq(T)
  BY <1>5, <1>6
<1>8. Screen!InOrder(T) \in Seq(Docs \ Malformed)
  <2>1. \A A, B : A \subseteq B => Seq(A) \subseteq Seq(B)
    OBVIOUS
  <2>. QED
    BY <1>2, <1>7, <2>1, Zenon
<1>. QED
  BY <1>1, <1>8 DEF Screen!Parsed

\* The blocks of the main queue.
Blocks == {Screen!Reload, Screen!Failure} \cup {Screen!Event(S) : S \in SUBSET Docs}

LEMMA BlockFacts ==
  /\ Screen!Reload.kind = "reload" /\ Screen!Failure.kind = "error"
  /\ \A S : Screen!Event(S).kind = "event" /\ Screen!Event(S).docs = S
BY DEF Screen!Reload, Screen!Failure, Screen!Event

\* What a block is follows from its kind.
LEMMA BlockKinds ==
  ASSUME NEW b \in Blocks
  PROVE  /\ b.kind \in {"reload", "error", "event"}
         /\ b.kind = "reload" <=> b = Screen!Reload
         /\ b.kind = "error" <=> b = Screen!Failure
         /\ b.kind = "event" => b.docs \in SUBSET Docs /\ b = Screen!Event(b.docs)
<1>1. CASE b = Screen!Reload
  BY <1>1, BlockFacts
<1>2. CASE b = Screen!Failure
  BY <1>2, BlockFacts
<1>3. CASE \E S \in SUBSET Docs : b = Screen!Event(S)
  BY <1>3, BlockFacts
<1>. QED
  BY <1>1, <1>2, <1>3 DEF Blocks

\* Only failures wait on the main queue: the table is drawn.
Quiet == \A i \in 1..Len(mainQueue) : mainQueue[i] = Screen!Failure

\* Every cell that is there shows the message of its row, and there is a cell for
\* each message.
Drawn == Len(cells) = Len(messages) /\ \A i \in 1..Len(cells) : cells[i] \in {0, messages[i]}

Count(S) == Len(Screen!Parsed(S))

IsEvent(b) == b.kind = "event"

\* While the list grows, the rows of the table are at most the messages, the
\* messages at most those of every event that waits, in the order of the events,
\* and these at most those of the last event; a reload finds a message.
RowsBelowMessages == Len(cells) <= Len(messages) /\ Len(messages) <= Len(Screen!Latest)

ReloadsFindMessages ==
    \A i \in 1..Len(mainQueue) : mainQueue[i].kind = "reload" => messages # <<>>

EventsGrow ==
    \A i \in 1..Len(mainQueue) :
        IsEvent(mainQueue[i]) =>
            /\ Screen!Parsed(mainQueue[i].docs) # <<>>
            /\ Len(messages) <= Count(mainQueue[i].docs)
            /\ Count(mainQueue[i].docs) <= Len(Screen!Latest)
            /\ \A j \in 1..Len(mainQueue) :
                  IsEvent(mainQueue[j]) /\ i < j =>
                      Count(mainQueue[i].docs) <= Count(mainQueue[j].docs)

Growing == ~shrunk => RowsBelowMessages /\ ReloadsFindMessages /\ EventsGrow

ChatTypes ==
    /\ events \in Seq(SUBSET Docs)
    /\ failed \in BOOLEAN
    /\ mainQueue \in Seq(Blocks)
    /\ messages \in Seq(Docs \ Malformed)
    /\ cells \in Seq(Docs \cup {0})
    /\ screenCrash \in {"none", "row", "scroll"}
    /\ shrunk \in BOOLEAN

ChatInv == ChatTypes /\ (Quiet => Drawn) /\ Growing /\ Screen!SafeWhileGrowing

LEMMA ChatNumbers ==
  ASSUME ChatTypes
  PROVE  Len(cells) \in Nat /\ Len(messages) \in Nat /\ Len(mainQueue) \in Nat
BY DEF ChatTypes

LEMMA LatestIsCounted ==
  ASSUME ChatTypes
  PROVE  Len(Screen!Latest) \in Nat
<1>1. CASE events = <<>>
  BY <1>1 DEF Screen!Latest
<1>2. CASE events # <<>>
  <2>1. events[Len(events)] \in SUBSET Docs
    BY <1>2 DEF ChatTypes
  <2>2. PICK S \in SUBSET Docs : S = events[Len(events)]
    BY <2>1
  <2>. QED
    BY <1>2, <2>2, ParsedFacts DEF Screen!Latest
<1>. QED
  BY <1>1, <1>2

\* The invariant is stronger than what the run checks.
LEMMA ChatImplies ==
  ASSUME ChatInv
  PROVE  ChatIsDrawn
<1>1. ChatTypes
  BY DEF ChatInv
<1>2. mainQueue = <<>> => Quiet
  BY DEF Quiet
<1>3. Screen!TypeOK
  BY <1>1, <1>2 DEF ChatInv, ChatTypes, Drawn, Screen!TypeOK, Blocks
<1>4. (\A b \in Screen!ToSet(mainQueue) : b = Screen!Failure) => Quiet
  <2>1. \A s \in Seq(Blocks) : DOMAIN s = 1..Len(s)
    OBVIOUS
  <2>2. DOMAIN mainQueue = 1..Len(mainQueue)
    BY <1>1, <2>1, Zenon DEF ChatTypes
  <2>3. \A i \in 1..Len(mainQueue) : mainQueue[i] \in Screen!ToSet(mainQueue)
    BY <2>2, Zenon DEF Screen!ToSet
  <2>. QED
    BY <2>3, Zenon DEF Quiet
<1>5. Screen!CellsShowMessages
  BY <1>4 DEF ChatInv, Drawn, Screen!CellsShowMessages
<1>. QED
  BY <1>3, <1>5 DEF ChatInv, ChatIsDrawn

LEMMA ChatInit ==
  ASSUME Screen!Init
  PROVE  ChatInv
<1>1. failed \in BOOLEAN /\ shrunk \in BOOLEAN
  BY Zenon DEF Screen!Init
<1>2. ChatTypes
  BY <1>1 DEF Screen!Init, ChatTypes
<1>3. Len(mainQueue) = 0 /\ Len(cells) = 0 /\ Len(messages) = 0 /\ Len(Screen!Latest) = 0
  BY DEF Screen!Init, Screen!Latest
<1>4. Drawn
  BY <1>3 DEF Drawn
<1>5. Growing
  BY <1>3 DEF Growing, RowsBelowMessages, ReloadsFindMessages, EventsGrow
<1>. QED
  BY <1>2, <1>4, <1>5 DEF Screen!Init, ChatInv, Screen!SafeWhileGrowing

LEMMA Appended ==
  ASSUME NEW s \in Seq(Blocks), NEW x \in Blocks
  PROVE  /\ Append(s, x) \in Seq(Blocks) /\ Len(Append(s, x)) = Len(s) + 1 /\ Len(s) \in Nat
         /\ \A i \in 1..Len(s) : Append(s, x)[i] = s[i]
         /\ Append(s, x)[Len(s) + 1] = x
         /\ \A i \in 1..(Len(s) + 1) : i \in 1..Len(s) \/ i = Len(s) + 1
<1>1. Append(s, x) \in Seq(Blocks) /\ Len(Append(s, x)) = Len(s) + 1 /\ Len(s) \in Nat
  OBVIOUS
<1>2. \A i \in 1..Len(s) : Append(s, x)[i] = s[i]
  OBVIOUS
<1>3. Append(s, x)[Len(s) + 1] = x
  OBVIOUS
<1>4. \A i \in 1..(Len(s) + 1) : i \in 1..Len(s) \/ i = Len(s) + 1
  BY <1>1
<1>. QED
  BY <1>1, <1>2, <1>3, <1>4

LEMMA Taken ==
  ASSUME NEW s \in Seq(Blocks), s # <<>>
  PROVE  /\ Tail(s) \in Seq(Blocks) /\ Len(Tail(s)) = Len(s) - 1 /\ Len(s) \in Nat /\ Len(s) >= 1
         /\ \A i \in 1..Len(Tail(s)) : Tail(s)[i] = s[i + 1] /\ i + 1 \in 1..Len(s)
         /\ Head(s) = s[1] /\ s[1] \in Blocks /\ 1 \in 1..Len(s)
OBVIOUS

LEMMA TwoMore ==
  ASSUME NEW s \in Seq(Blocks), NEW x \in Blocks
  PROVE  /\ s \o <<x, x>> \in Seq(Blocks)
         /\ \A i \in 1..Len(s \o <<x, x>>) :
               \/ i \in 1..Len(s) /\ (s \o <<x, x>>)[i] = s[i]
               \/ (s \o <<x, x>>)[i] = x
         /\ Len(s) + 1 \in 1..Len(s \o <<x, x>>) /\ (s \o <<x, x>>)[Len(s) + 1] = x
<1>1. <<x, x>> \in Seq(Blocks) /\ Len(<<x, x>>) = 2 /\ <<x, x>>[1] = x /\ <<x, x>>[2] = x
  OBVIOUS
<1>2. PICK t \in Seq(Blocks) : t = <<x, x>>
  BY <1>1
<1>3. Len(t) = 2 /\ t[1] = x /\ t[2] = x
  BY <1>1, <1>2
<1>4. /\ s \o t \in Seq(Blocks) /\ Len(s \o t) = Len(s) + 2 /\ Len(s) \in Nat
      /\ \A i \in 1..(Len(s) + 2) : (s \o t)[i] = IF i <= Len(s) THEN s[i] ELSE t[i - Len(s)]
  <2>1. /\ s \o t \in Seq(Blocks) /\ Len(s \o t) = Len(s) + Len(t) /\ Len(s) \in Nat
        /\ \A i \in 1..(Len(s) + Len(t)) :
              (s \o t)[i] = IF i <= Len(s) THEN s[i] ELSE t[i - Len(s)]
    OBVIOUS
  <2>. QED
    BY <1>3, <2>1, Zenon
<1>5. ASSUME NEW i \in 1..(Len(s) + 2)
      PROVE  (i \in 1..Len(s) /\ (s \o t)[i] = s[i]) \/ (s \o t)[i] = x
  <2>1. CASE i <= Len(s)
    BY <1>4, <2>1
  <2>2. CASE ~(i <= Len(s))
    <3>1. i - Len(s) = 1 \/ i - Len(s) = 2
      BY <1>4, <2>2
    <3>. QED
      BY <1>3, <1>4, <2>2, <3>1
  <2>. QED
    BY <2>1, <2>2
<1>6. Len(s) + 1 \in 1..(Len(s) + 2) /\ (s \o t)[Len(s) + 1] = x
  <2>1. Len(s) + 1 \in 1..(Len(s) + 2) /\ ~(Len(s) + 1 <= Len(s)) /\ Len(s) + 1 - Len(s) = 1
    BY <1>4
  <2>. QED
    BY <1>3, <1>4, <2>1
<1>. QED
  BY <1>2, <1>4, <1>5, <1>6

\* An event arrives: a reload is to come.
LEMMA ChatArrives ==
  ASSUME ChatInv, NEW S \in SUBSET Docs, Screen!SnapshotArrives(S)
  PROVE  ChatInv'
<1>. USE ChatNumbers
<1>1. ChatTypes /\ Growing /\ Screen!SafeWhileGrowing
  BY DEF ChatInv
<1>. UNCHANGED <<failed, messages, cells, screenCrash>>
  BY DEF Screen!SnapshotArrives
<1>2. PICK b : b = Screen!Event(S)
  OBVIOUS
<1>3. b \in Blocks /\ b.kind = "event" /\ b.docs = S
  BY <1>2, BlockFacts, Zenon DEF Blocks
<1>4. mainQueue' = Append(mainQueue, b)
  BY <1>2 DEF Screen!SnapshotArrives
<1>5. PICK n : n = Len(mainQueue)
  OBVIOUS
<1>6. /\ mainQueue' \in Seq(Blocks) /\ Len(mainQueue') = n + 1 /\ n \in Nat
      /\ \A i \in 1..n : mainQueue'[i] = mainQueue[i]
      /\ mainQueue'[n + 1] = b
      /\ \A i \in 1..(n + 1) : i \in 1..n \/ i = n + 1
  <2>1. mainQueue \in Seq(Blocks)
    BY <1>1 DEF ChatTypes
  <2>2. PICK q \in Seq(Blocks) : q = mainQueue
    BY <2>1
  <2>3. /\ Append(q, b) \in Seq(Blocks) /\ Len(Append(q, b)) = Len(q) + 1 /\ Len(q) \in Nat
        /\ \A i \in 1..Len(q) : Append(q, b)[i] = q[i]
        /\ Append(q, b)[Len(q) + 1] = b
        /\ \A i \in 1..(Len(q) + 1) : i \in 1..Len(q) \/ i = Len(q) + 1
    BY <1>3, Appended, Zenon
  <2>. QED
    BY <1>4, <1>5, <2>2, <2>3, Zenon
<1>7. ChatTypes'
  <2>1. shrunk' \in BOOLEAN
    BY Zenon DEF Screen!SnapshotArrives
  <2>2. events' \in Seq(SUBSET Docs)
    BY <1>1 DEF Screen!SnapshotArrives, ChatTypes
  <2>. QED
    BY <1>1, <1>6, <2>1, <2>2, Zenon DEF ChatTypes
<1>8. ~Quiet'
  <2>1. b # Screen!Failure
    BY <1>3, BlockFacts
  <2>2. n + 1 \in 1..(n + 1)
    BY <1>6
  <2>. QED
    BY <1>6, <2>1, <2>2, Zenon DEF Quiet
<1>9. Screen!Latest' = Screen!Parsed(S)
  <2>1. events \in Seq(SUBSET Docs) /\ events' = Append(events, S)
    BY <1>1 DEF ChatTypes, Screen!SnapshotArrives
  <2>2. events' # <<>> /\ events'[Len(events')] = S
    BY <2>1
  <2>. QED
    BY <2>2, Zenon DEF Screen!Latest
<1>10. ~shrunk' => /\ ~shrunk /\ Screen!Parsed(S) # <<>>
                   /\ ~(Count(S) < Len(Screen!Latest))
  BY Zenon DEF Screen!SnapshotArrives, Count
<1>11. ASSUME ~shrunk'
       PROVE  (RowsBelowMessages /\ ReloadsFindMessages /\ EventsGrow)'
  <2>1. /\ RowsBelowMessages /\ ReloadsFindMessages /\ EventsGrow /\ Screen!Parsed(S) # <<>>
        /\ ~(Count(S) < Len(Screen!Latest))
    BY <1>1, <1>10, <1>11 DEF Growing
  <2>2. PICK l, m, c : l = Len(Screen!Latest) /\ m = Len(messages) /\ c = Count(S)
    OBVIOUS
  <2>3. l \in Nat /\ m \in Nat /\ c \in Nat
    <3>1. l \in Nat
      BY <1>1, <2>2, LatestIsCounted
    <3>. QED
      BY <1>1, <2>2, <3>1, ParsedFacts DEF Count
  <2>4. l <= c /\ m <= l /\ m <= c /\ Len(cells) <= m
    <3>1. m <= l /\ Len(cells) <= m /\ ~(c < l)
      BY <2>1, <2>2, Zenon DEF RowsBelowMessages
    <3>. QED
      BY <2>3, <3>1
  <2>5. Len(Screen!Latest') = c
    BY <1>9, <2>2, Zenon DEF Count
  <2>6. RowsBelowMessages'
    BY <2>2, <2>4, <2>5, Zenon DEF RowsBelowMessages
  <2>7. ReloadsFindMessages'
    <3>1. b.kind # "reload"
      BY <1>3
    <3>. QED
      BY <1>5, <1>6, <2>1, <3>1, Zenon DEF ReloadsFindMessages
  <2>8. ASSUME NEW i \in 1..(n + 1), IsEvent(mainQueue'[i])
        PROVE  /\ Screen!Parsed(mainQueue'[i].docs) # <<>>
               /\ m <= Count(mainQueue'[i].docs)
               /\ Count(mainQueue'[i].docs) <= c
               /\ \A j \in 1..(n + 1) : IsEvent(mainQueue'[j]) /\ i < j =>
                     Count(mainQueue'[i].docs) <= Count(mainQueue'[j].docs)
    <3>1. CASE i = n + 1
      <4>1. mainQueue'[i].docs = S
        BY <1>3, <1>6, <3>1
      <4>2. \A j \in 1..(n + 1) : ~(i < j)
        BY <1>6, <3>1
      <4>3. c <= c
        BY <2>3
      <4>. QED
        BY <2>1, <2>2, <2>4, <4>1, <4>2, <4>3, Zenon
    <3>2. CASE i \in 1..n
      <4>1. PICK e : e = mainQueue[i]
        OBVIOUS
      <4>2. e = mainQueue'[i] /\ IsEvent(e)
        BY <1>6, <2>8, <3>2, <4>1, Zenon
      <4>3. PICK k : k = Count(e.docs)
        OBVIOUS
      <4>4. /\ Screen!Parsed(e.docs) # <<>> /\ m <= k /\ k <= l
            /\ \A j \in 1..n : IsEvent(mainQueue[j]) /\ i < j => k <= Count(mainQueue[j].docs)
        BY <1>5, <2>1, <2>2, <3>2, <4>1, <4>2, <4>3, Zenon DEF EventsGrow
      <4>5. k \in Nat
        <5>1. mainQueue[i] \in Blocks
          BY <1>1, <1>5, <3>2 DEF ChatTypes
        <5>2. e \in Blocks
          BY <4>1, <5>1, Zenon
        <5>3. e.docs \in SUBSET Docs
          BY <4>2, <5>2, BlockKinds, Zenon DEF IsEvent
        <5>. QED
          BY <4>3, <5>3, ParsedFacts, Zenon DEF Count
      <4>6. k <= c
        BY <2>3, <2>4, <4>4, <4>5
      <4>7. ASSUME NEW j \in 1..(n + 1), IsEvent(mainQueue'[j]), i < j
            PROVE  k <= Count(mainQueue'[j].docs)
        <5>1. CASE j = n + 1
          <6>1. mainQueue'[j].docs = S
            BY <1>3, <1>6, <5>1
          <6>. QED
            BY <2>2, <4>6, <6>1, Zenon
        <5>2. CASE j \in 1..n
          BY <1>6, <4>4, <4>7, <5>2, Zenon
        <5>. QED
          BY <1>6, <5>1, <5>2
      <4>. QED
        BY <4>2, <4>3, <4>4, <4>6, <4>7, Zenon
    <3>. QED
      BY <1>6, <3>1, <3>2
  <2>9. EventsGrow'
    BY <1>6, <2>2, <2>5, <2>8, Zenon DEF EventsGrow
  <2>. QED
    BY <2>6, <2>7, <2>9
<1>12. Screen!SafeWhileGrowing'
  BY <1>1, <1>10, Zenon DEF Screen!SafeWhileGrowing
<1>. QED
  BY <1>7, <1>8, <1>11, <1>12, Zenon DEF ChatInv, Growing

\* The listener fails: nothing changes but the queue.
LEMMA ChatFails ==
  ASSUME ChatInv, Screen!ListenFails
  PROVE  ChatInv'
<1>1. ChatTypes /\ Growing /\ Screen!SafeWhileGrowing
  BY DEF ChatInv
<1>. UNCHANGED <<events, messages, cells, screenCrash, shrunk>>
  BY DEF Screen!ListenFails
<1>2. PICK b : b = Screen!Failure
  OBVIOUS
<1>3. b \in Blocks /\ b.kind = "error"
  BY <1>2, BlockFacts, Zenon DEF Blocks
<1>4. mainQueue' = Append(mainQueue, b)
  BY <1>2 DEF Screen!ListenFails
<1>5. PICK q \in Seq(Blocks) : q = mainQueue
  BY <1>1 DEF ChatTypes
<1>6. /\ Append(q, b) \in Seq(Blocks) /\ Len(Append(q, b)) = Len(q) + 1 /\ Len(q) \in Nat
      /\ \A i \in 1..Len(q) : Append(q, b)[i] = q[i]
      /\ Append(q, b)[Len(q) + 1] = b
      /\ \A i \in 1..(Len(q) + 1) : i \in 1..Len(q) \/ i = Len(q) + 1
  BY <1>3, Appended, Zenon
<1>7. PICK r : r = Append(q, b)
  OBVIOUS
<1>8. mainQueue' = r /\ Len(r) = Len(q) + 1 /\ r \in Seq(Blocks)
  BY <1>4, <1>5, <1>6, <1>7, Zenon
<1>9. ASSUME NEW i \in 1..Len(r)
      PROVE  (i \in 1..Len(q) /\ r[i] = q[i]) \/ r[i] = b
  BY <1>6, <1>7, <1>8, <1>9, Zenon
<1>10. ChatTypes'
  <2>1. failed' \in BOOLEAN
    BY Zenon DEF Screen!ListenFails
  <2>. QED
    BY <1>1, <1>8, <2>1, Zenon DEF ChatTypes
<1>11. Quiet' => Quiet
  <2>1. ASSUME NEW i \in 1..Len(q)
        PROVE  i \in 1..Len(r) /\ r[i] = q[i]
    BY <1>6, <1>7, <1>8
  <2>. QED
    BY <1>5, <1>8, <2>1, Zenon DEF Quiet
<1>12. Drawn => Drawn'
  BY DEF Drawn
<1>13. ASSUME ReloadsFindMessages
       PROVE  ReloadsFindMessages'
  <2>1. b.kind # "reload"
    BY <1>3
  <2>. QED
    BY <1>5, <1>8, <1>9, <1>13, <2>1, Zenon DEF ReloadsFindMessages
<1>14. RowsBelowMessages => RowsBelowMessages'
  BY DEF RowsBelowMessages, Screen!Latest
<1>15. ASSUME EventsGrow
       PROVE  EventsGrow'
  <2>1. ~IsEvent(b)
    BY <1>3 DEF IsEvent
  <2>2. \A i \in 1..Len(r) : IsEvent(r[i]) => i \in 1..Len(q) /\ r[i] = q[i]
    BY <1>9, <2>1, Zenon
  <2>3. Screen!Latest' = Screen!Latest
    BY DEF Screen!Latest
  <2>. QED
    BY <1>5, <1>8, <1>15, <2>2, <2>3, Zenon DEF EventsGrow
<1>. QED
  BY <1>1, <1>10, <1>11, <1>12, <1>13, <1>14, <1>15, Zenon
     DEF ChatInv, Growing, Screen!SafeWhileGrowing

\* The listener's closure takes the messages of the oldest event, which has no
\* fewer than the one before, and no more than those that follow.
LEMMA ChatLoads ==
  ASSUME ChatInv, Screen!LoadMessages
  PROVE  ChatInv'
<1>1. ChatTypes /\ Growing /\ Screen!SafeWhileGrowing
  BY DEF ChatInv
<1>. UNCHANGED <<events, failed, cells, screenCrash, shrunk>>
  BY DEF Screen!LoadMessages
<1>2. PICK q \in Seq(Blocks) : q = mainQueue
  BY <1>1 DEF ChatTypes
<1>3. q # <<>>
  BY <1>2 DEF Screen!LoadMessages
<1>4. /\ Tail(q) \in Seq(Blocks) /\ Len(Tail(q)) = Len(q) - 1 /\ Len(q) \in Nat
      /\ \A i \in 1..Len(Tail(q)) : Tail(q)[i] = q[i + 1] /\ i + 1 \in 1..Len(q)
      /\ Head(q) = q[1] /\ q[1] \in Blocks /\ 1 \in 1..Len(q)
  BY <1>3, Taken, Zenon
<1>5. PICK t \in Seq(Blocks) : t = Tail(q)
  BY <1>4
<1>6. PICK b : b = Screen!Reload
  OBVIOUS
<1>7. b \in Blocks /\ b.kind = "reload"
  BY <1>6, BlockFacts, Zenon DEF Blocks
<1>8. PICK r : r = t \o <<b, b>>
  OBVIOUS
<1>9. mainQueue' = r
  BY <1>2, <1>5, <1>6, <1>8, Zenon DEF Screen!LoadMessages
<1>10. /\ r \in Seq(Blocks)
       /\ \A i \in 1..Len(r) : (i \in 1..Len(t) /\ r[i] = t[i]) \/ r[i] = b
       /\ Len(t) + 1 \in 1..Len(r) /\ r[Len(t) + 1] = b
  <2>1. /\ t \o <<b, b>> \in Seq(Blocks)
        /\ \A i \in 1..Len(t \o <<b, b>>) :
              \/ i \in 1..Len(t) /\ (t \o <<b, b>>)[i] = t[i]
              \/ (t \o <<b, b>>)[i] = b
        /\ Len(t) + 1 \in 1..Len(t \o <<b, b>>) /\ (t \o <<b, b>>)[Len(t) + 1] = b
    BY <1>7, TwoMore
  <2>. QED
    BY <1>8, <2>1, Zenon
<1>11. ASSUME NEW i \in 1..Len(r)
       PROVE  (i + 1 \in 1..Len(q) /\ r[i] = q[i + 1]) \/ r[i] = b
  BY <1>4, <1>5, <1>10, <1>11, Zenon
<1>12. PICK S : S = q[1].docs
  OBVIOUS
<1>13. IsEvent(q[1]) /\ S \in SUBSET Docs /\ messages' = Screen!Parsed(S)
  <2>1. Head(q).kind = "event" /\ messages' = Screen!Parsed(Head(q).docs)
    BY <1>2, Zenon DEF Screen!LoadMessages
  <2>2. Head(q) = q[1]
    BY <1>4
  <2>3. q[1] \in Blocks
    BY <1>4
  <2>4. q[1].kind = "event" /\ messages' = Screen!Parsed(q[1].docs)
    BY <2>1, <2>2, Zenon
  <2>. QED
    BY <1>12, <2>3, <2>4, BlockKinds, Zenon DEF IsEvent
<1>14. ChatTypes'
  <2>1. messages' \in Seq(Docs \ Malformed)
    BY <1>13, ParsedFacts, Zenon
  <2>. QED
    BY <1>1, <1>9, <1>10, <2>1, Zenon DEF ChatTypes
<1>15. ~Quiet'
  <2>1. b # Screen!Failure
    BY <1>7, BlockFacts
  <2>. QED
    BY <1>9, <1>10, <2>1, Zenon DEF Quiet
<1>16. ASSUME ~shrunk
       PROVE  (RowsBelowMessages /\ ReloadsFindMessages /\ EventsGrow)'
  <2>1. RowsBelowMessages /\ EventsGrow
    BY <1>1, <1>16 DEF Growing
  <2>2. Screen!Latest' = Screen!Latest
    BY DEF Screen!Latest
  <2>3. PICK l, m, c, k : l = Len(Screen!Latest) /\ m = Len(messages) /\ c = Count(S)
                          /\ k = Len(cells)
    OBVIOUS
  <2>4. l \in Nat /\ m \in Nat /\ c \in Nat /\ k \in Nat
    <3>1. l \in Nat
      BY <1>1, <2>3, LatestIsCounted
    <3>2. c \in Nat
      BY <1>13, <2>3, ParsedFacts DEF Count
    <3>3. m \in Nat /\ k \in Nat
      BY <1>1, <2>3, ChatNumbers
    <3>. QED
      BY <3>1, <3>2, <3>3
  <2>5. /\ Screen!Parsed(S) # <<>> /\ m <= c /\ c <= l
        /\ \A j \in 1..Len(q) : IsEvent(q[j]) /\ 1 < j => c <= Count(q[j].docs)
    BY <1>2, <1>4, <1>12, <1>13, <2>1, <2>3, Zenon DEF EventsGrow
  <2>6. k <= m
    BY <2>1, <2>3, Zenon DEF RowsBelowMessages
  <2>7. Len(messages') = c
    BY <1>13, <2>3, Zenon DEF Count
  <2>8. k <= c
    BY <2>4, <2>5, <2>6
  <2>9. RowsBelowMessages'
    BY <2>2, <2>3, <2>5, <2>7, <2>8, Zenon DEF RowsBelowMessages
  <2>10. ReloadsFindMessages'
    BY <1>13, <2>5, Zenon DEF ReloadsFindMessages
  <2>11. ASSUME NEW i \in 1..Len(r), IsEvent(r[i])
         PROVE  /\ Screen!Parsed(r[i].docs) # <<>>
                /\ c <= Count(r[i].docs)
                /\ Count(r[i].docs) <= l
                /\ \A j \in 1..Len(r) : IsEvent(r[j]) /\ i < j =>
                      Count(r[i].docs) <= Count(r[j].docs)
    <3>1. ~IsEvent(b)
      BY <1>7 DEF IsEvent
    <3>2. i + 1 \in 1..Len(q) /\ r[i] = q[i + 1]
      BY <1>11, <2>11, <3>1, Zenon
    <3>3. 1 < i + 1
      OBVIOUS
    <3>4. IsEvent(q[i + 1])
      BY <2>11, <3>2, Zenon
    <3>5. c <= Count(r[i].docs)
      BY <2>5, <3>2, <3>3, <3>4, Zenon
    <3>6. /\ Screen!Parsed(r[i].docs) # <<>> /\ Count(r[i].docs) <= l
          /\ \A j \in 1..Len(q) : IsEvent(q[j]) /\ i + 1 < j =>
                Count(r[i].docs) <= Count(q[j].docs)
      BY <1>2, <2>1, <2>3, <3>2, <3>4, Zenon DEF EventsGrow
    <3>7. ASSUME NEW j \in 1..Len(r), IsEvent(r[j]), i < j
          PROVE  Count(r[i].docs) <= Count(r[j].docs)
      <4>1. j + 1 \in 1..Len(q) /\ r[j] = q[j + 1]
        BY <1>11, <3>1, <3>7, Zenon
      <4>2. i + 1 < j + 1
        BY <3>7
      <4>3. IsEvent(q[j + 1])
        BY <3>7, <4>1, Zenon
      <4>. QED
        BY <3>6, <4>1, <4>2, <4>3, Zenon
    <3>. QED
      BY <3>5, <3>6, <3>7, Zenon
  <2>12. EventsGrow'
    BY <1>9, <2>2, <2>3, <2>7, <2>11, Zenon DEF EventsGrow
  <2>. QED
    BY <2>9, <2>10, <2>12
<1>. QED
  BY <1>1, <1>14, <1>15, <1>16, Zenon DEF ChatInv, Growing, Screen!SafeWhileGrowing

\* What the other steps do to the queue: they leave it, or take its first block.
Shifted(k) ==
    /\ mainQueue' \in Seq(Blocks)
    /\ \A i \in 1..Len(mainQueue') :
          i + k \in 1..Len(mainQueue) /\ mainQueue'[i] = mainQueue[i + k]

LEMMA ShiftKeeps ==
  ASSUME ChatTypes, NEW k \in {0, 1}, Shifted(k), UNCHANGED <<events, messages>>
  PROVE  /\ ReloadsFindMessages => ReloadsFindMessages'
         /\ EventsGrow => EventsGrow'
<1>1. PICK r : r = mainQueue'
  OBVIOUS
<1>2. \A i \in 1..Len(r) : i + k \in 1..Len(mainQueue) /\ r[i] = mainQueue[i + k]
  BY <1>1, Zenon DEF Shifted
<1>3. ReloadsFindMessages => ReloadsFindMessages'
  BY <1>1, <1>2, Zenon DEF ReloadsFindMessages
<1>4. ASSUME EventsGrow
      PROVE  EventsGrow'
  <2>1. Screen!Latest' = Screen!Latest
    BY DEF Screen!Latest
  <2>2. ASSUME NEW i \in 1..Len(r), NEW j \in 1..Len(r), i < j
        PROVE  i + k < j + k
    BY <2>2
  <2>. QED
    BY <1>1, <1>2, <1>4, <2>1, <2>2, Zenon DEF EventsGrow
<1>. QED
  BY <1>3, <1>4

LEMMA HeadTaken ==
  ASSUME ChatTypes, mainQueue # <<>>, mainQueue' = Tail(mainQueue)
  PROVE  /\ Shifted(1)
         /\ Head(mainQueue) = mainQueue[1] /\ 1 \in 1..Len(mainQueue)
         /\ mainQueue[1] \in Blocks
         /\ \A i \in 1..Len(mainQueue) :
               i = 1 \/ (i - 1 \in 1..Len(mainQueue') /\ mainQueue[i] = mainQueue'[i - 1])
<1>1. PICK q \in Seq(Blocks) : q = mainQueue
  BY DEF ChatTypes
<1>2. PICK r : r = Tail(q)
  OBVIOUS
<1>3. /\ r \in Seq(Blocks) /\ Len(r) = Len(q) - 1 /\ Len(q) \in Nat
      /\ \A i \in 1..Len(r) : r[i] = q[i + 1] /\ i + 1 \in 1..Len(q)
      /\ Head(q) = q[1] /\ q[1] \in Blocks /\ 1 \in 1..Len(q)
  BY <1>1, <1>2, Taken
<1>4. ASSUME NEW i \in 1..Len(q)
      PROVE  i = 1 \/ (i - 1 \in 1..Len(r) /\ q[i] = r[i - 1])
  <2>1. i = 1 \/ (i - 1 \in 1..Len(r) /\ (i - 1) + 1 = i)
    BY <1>3
  <2>. QED
    BY <1>3, <2>1, Zenon
<1>5. mainQueue' = r
  BY <1>1, <1>2, Zenon
<1>6. Shifted(1)
  BY <1>1, <1>3, <1>5, Zenon DEF Shifted
<1>. QED
  BY <1>1, <1>3, <1>4, <1>5, <1>6, Zenon

\* A failure is passed over.
LEMMA ChatIgnores ==
  ASSUME ChatInv, Screen!IgnoreFailure
  PROVE  ChatInv'
<1>1. ChatTypes /\ Growing /\ Screen!SafeWhileGrowing
  BY DEF ChatInv
<1>. UNCHANGED <<events, failed, messages, cells, screenCrash, shrunk>>
  BY DEF Screen!IgnoreFailure
<1>2. /\ Shifted(1)
      /\ Head(mainQueue) = mainQueue[1] /\ mainQueue[1] \in Blocks
      /\ \A i \in 1..Len(mainQueue) :
            i = 1 \/ (i - 1 \in 1..Len(mainQueue') /\ mainQueue[i] = mainQueue'[i - 1])
  BY <1>1, HeadTaken DEF Screen!IgnoreFailure
<1>3. mainQueue[1] = Screen!Failure
  BY <1>2, BlockKinds DEF Screen!IgnoreFailure
<1>4. Quiet' => Quiet
  BY <1>2, <1>3, Zenon DEF Quiet
<1>5. Drawn => Drawn'
  BY DEF Drawn
<1>6. ChatTypes'
  BY <1>1, <1>2, Zenon DEF ChatTypes, Shifted
<1>7. RowsBelowMessages => RowsBelowMessages'
  BY DEF RowsBelowMessages, Screen!Latest
<1>8. /\ ReloadsFindMessages => ReloadsFindMessages'
      /\ EventsGrow => EventsGrow'
  BY <1>1, <1>2, ShiftKeeps
<1>. QED
  BY <1>1, <1>4, <1>5, <1>6, <1>7, <1>8, Zenon DEF ChatInv, Growing, Screen!SafeWhileGrowing

\* A reload gives every message a row.
LEMMA ChatReloads ==
  ASSUME ChatInv, Screen!ReloadTable
  PROVE  ChatInv'
<1>1. ChatTypes /\ Growing /\ Screen!SafeWhileGrowing
  BY DEF ChatInv
<1>. UNCHANGED <<events, failed, messages, shrunk>>
  BY DEF Screen!ReloadTable
<1>2. /\ Shifted(1) /\ Head(mainQueue) = mainQueue[1] /\ 1 \in 1..Len(mainQueue)
  BY <1>1, HeadTaken DEF Screen!ReloadTable
<1>3. mainQueue[1].kind = "reload"
  BY <1>2 DEF Screen!ReloadTable
<1>4. PICK n : n = Len(messages) /\ n \in Nat
  BY <1>1, ChatNumbers
<1>5. cells' = [i \in 1..n |-> 0]
  BY <1>4, Zenon DEF Screen!ReloadTable, Screen!Rows
<1>6. cells' \in Seq({0}) /\ Len(cells') = n /\ \A i \in 1..n : cells'[i] = 0
  BY <1>4, <1>5
<1>7. Drawn'
  BY <1>4, <1>6, Zenon DEF Drawn
<1>8. ChatTypes'
  <2>1. \A A, B : A \subseteq B => Seq(A) \subseteq Seq(B)
    OBVIOUS
  <2>2. cells' \in Seq(Docs \cup {0})
    BY <1>6, <2>1, Zenon
  <2>3. screenCrash' \in {"none", "row", "scroll"}
    BY <1>1 DEF Screen!ReloadTable, ChatTypes
  <2>. QED
    BY <1>1, <1>2, <2>2, <2>3, Zenon DEF ChatTypes, Shifted
<1>9. ~shrunk => screenCrash' = screenCrash
  <2>1. ~shrunk => messages # <<>>
    BY <1>1, <1>2, <1>3, Zenon DEF Growing, ReloadsFindMessages
  <2>. QED
    BY <2>1, Zenon DEF Screen!ReloadTable
<1>10. RowsBelowMessages => RowsBelowMessages'
  <2>1. Screen!Latest' = Screen!Latest /\ Len(messages') = n
    BY <1>4 DEF Screen!Latest
  <2>2. n <= n
    BY <1>4
  <2>. QED
    BY <1>4, <1>6, <2>1, <2>2, Zenon DEF RowsBelowMessages
<1>11. /\ ReloadsFindMessages => ReloadsFindMessages'
       /\ EventsGrow => EventsGrow'
  BY <1>1, <1>2, ShiftKeeps
<1>. QED
  BY <1>1, <1>7, <1>8, <1>9, <1>10, <1>11, Zenon DEF ChatInv, Growing, Screen!SafeWhileGrowing

\* While the list grows, each row has its message when its cell is needed.
LEMMA ChatDraws ==
  ASSUME ChatInv, NEW row \in 1..Len(cells), Screen!CellForRow(row)
  PROVE  ChatInv'
<1>1. ChatTypes /\ Growing /\ Screen!SafeWhileGrowing
  BY DEF ChatInv
<1>. UNCHANGED <<events, failed, mainQueue, messages, shrunk>>
  BY DEF Screen!CellForRow
<1>2. Len(cells) \in Nat /\ Len(messages) \in Nat
  BY <1>1, ChatNumbers
<1>3. (Quiet' <=> Quiet) /\ (ReloadsFindMessages => ReloadsFindMessages')
  BY DEF Quiet, ReloadsFindMessages
<1>4. Screen!Latest' = Screen!Latest /\ (EventsGrow => EventsGrow')
  BY DEF Screen!Latest, EventsGrow
<1>5. CASE row <= Len(messages)
  <2>1. cells' = [cells EXCEPT ![row] = messages[row]] /\ screenCrash' = screenCrash
    BY <1>5 DEF Screen!CellForRow
  <2>2. messages[row] \in Docs
    BY <1>1, <1>2, <1>5 DEF ChatTypes
  <2>3. /\ cells' \in Seq(Docs \cup {0}) /\ Len(cells') = Len(cells)
        /\ cells'[row] = messages[row]
        /\ \A i \in 1..Len(cells) : i # row => cells'[i] = cells[i]
    BY <1>1, <2>1, <2>2 DEF ChatTypes
  <2>4. Drawn => Drawn'
    <3>1. ASSUME NEW i \in 1..Len(cells), cells[i] \in {0, messages[i]}
          PROVE  cells'[i] \in {0, messages[i]}
      BY <2>3, <3>1, Zenon
    <3>. QED
      BY <2>3, <3>1, Zenon DEF Drawn
  <2>5. ChatTypes'
    BY <1>1, <2>1, <2>3, Zenon DEF ChatTypes
  <2>6. RowsBelowMessages => RowsBelowMessages'
    BY <1>4, <2>3, Zenon DEF RowsBelowMessages
  <2>. QED
    BY <1>1, <1>3, <1>4, <2>1, <2>4, <2>5, <2>6, Zenon
       DEF ChatInv, Growing, Screen!SafeWhileGrowing
<1>6. CASE ~(row <= Len(messages))
  <2>1. screenCrash' = "row" /\ cells' = cells
    BY <1>6, Zenon DEF Screen!CellForRow
  <2>2. ~(Len(cells) <= Len(messages))
    BY <1>2, <1>6
  <2>3. shrunk
    BY <1>1, <2>2, Zenon DEF Growing, RowsBelowMessages
  <2>4. ChatTypes'
    <3>1. screenCrash' \in {"none", "row", "scroll"}
      BY <2>1
    <3>. QED
      BY <1>1, <2>1, <3>1, Zenon DEF ChatTypes
  <2>5. Drawn => Drawn'
    BY <2>1 DEF Drawn
  <2>. QED
    BY <1>3, <2>3, <2>4, <2>5, Zenon DEF ChatInv, Growing, Screen!SafeWhileGrowing
<1>. QED
  BY <1>5, <1>6

LEMMA ChatStep ==
  ASSUME ChatInv, Screen!Next \/ UNCHANGED chatVars
  PROVE  ChatInv'
<1>1. CASE \E S \in SUBSET Docs : Screen!SnapshotArrives(S)
  BY <1>1, ChatArrives
<1>2. CASE Screen!ListenFails
  BY <1>2, ChatFails
<1>3. CASE Screen!MainQueue
  BY <1>3, ChatLoads, ChatIgnores, ChatReloads DEF Screen!MainQueue
<1>4. CASE \E row \in 1..Len(cells) : Screen!CellForRow(row)
  BY <1>4, ChatDraws
<1>5. CASE UNCHANGED chatVars
  BY <1>5 DEF chatVars, ChatInv, ChatTypes, Quiet, Drawn, Growing, RowsBelowMessages,
     ReloadsFindMessages, EventsGrow, Screen!Latest, Screen!SafeWhileGrowing
<1>. QED
  BY <1>1, <1>2, <1>3, <1>4, <1>5 DEF Screen!Next

\* For any documents, readable or not, and any number of events: when no event or
\* reload waits, each cell shows the message of its row; and no row is asked for
\* that is not there as long as the list of messages grows.
THEOREM TableShowsMessages == FairSpec => []ChatIsDrawn
<1>1. Init => ChatInv
  BY ChatInit DEF Init
<1>2. ChatInv /\ [Next]_vars => ChatInv'
  BY ChatStep, OneAppMoves
<1>3. ChatInv => ChatIsDrawn
  BY ChatImplies
<1>. QED
  BY <1>1, <1>2, <1>3, PTL DEF FairSpec
===============================================================================
