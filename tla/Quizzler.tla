------------------------------- MODULE Quizzler -------------------------------
(***************************************************************************)
(* Quizzler: three buttons, one answer for each question, feedback that is *)
(* shown for half a second before the next question.                       *)
(*                                                                         *)
(* A tap is a finger put on a button and lifted again.  The buttons refuse *)
(* touches while they are disabled, and each takes one finger only, but    *)
(* two fingers may be on two buttons when one of them is lifted.  Whether  *)
(* UIKit (external) still delivers the other's touch is left open.         *)
(***************************************************************************)
EXTENDS Naturals, FiniteSets

CONSTANTS
    Buttons,
    NumberOfQuestions,
    MaxTouches        \* bound: fingers on buttons and feedbacks shown at once

VARIABLES
    currentQuizNumber,
    correctAnswers,
    isUserInteractionEnabled,
    held,             \* the buttons with a finger on them
    feedbacks,        \* blocks dispatched for half a second later
    question,         \* the question on the label, its choices on the buttons
    score,            \* the alert with the score is on the screen
    outOfRange,       \* a question was asked for that does not exist
    answers,          \* history: answers checked in this round
    twoFingers        \* history: two fingers were on buttons at once

vars == <<currentQuizNumber, correctAnswers, isUserInteractionEnabled, held,
          feedbacks, question, score, outOfRange, answers, twoFingers>>

TypeOK ==
    /\ currentQuizNumber \in Nat
    /\ correctAnswers \in 0..answers
    /\ isUserInteractionEnabled \in BOOLEAN
    /\ held \subseteq Buttons
    /\ feedbacks \in 0..MaxTouches
    /\ question \in 0..(NumberOfQuestions - 1)
    /\ score \in BOOLEAN
    /\ outOfRange \in BOOLEAN
    /\ answers \in Nat
    /\ twoFingers \in BOOLEAN

Init ==
    /\ currentQuizNumber = 0
    /\ correctAnswers = 0
    /\ isUserInteractionEnabled = TRUE
    /\ held = {}
    /\ feedbacks = 0
    /\ question = 0
    /\ score = FALSE
    /\ outOfRange = FALSE
    /\ answers = 0
    /\ twoFingers = FALSE

TouchDown(button) ==
    /\ ~outOfRange /\ ~score
    /\ isUserInteractionEnabled
    /\ button \notin held
    /\ Cardinality(held) + feedbacks < MaxTouches
    /\ held' = held \cup {button}
    /\ twoFingers' = (twoFingers \/ held # {})
    /\ UNCHANGED <<currentQuizNumber, correctAnswers, isUserInteractionEnabled,
                   feedbacks, question, score, outOfRange, answers>>

\* A finger leaves the button, or its touch is not delivered.
TouchCancel(button) ==
    /\ ~outOfRange
    /\ button \in held
    /\ held' = held \ {button}
    /\ UNCHANGED <<currentQuizNumber, correctAnswers, isUserInteractionEnabled,
                   feedbacks, question, score, outOfRange, answers, twoFingers>>

\* Mutant of Disabled: the buttons stay enabled while the feedback is shown.
NotDisabled == isUserInteractionEnabled

\* disableTFButtonInteractions
Disabled == FALSE

\* answerButtonPressed: disable, check the answer, show the feedback.
AnswerButtonPressed(button) ==
    /\ ~outOfRange
    /\ button \in held
    /\ held' = held \ {button}
    /\ isUserInteractionEnabled' = Disabled
    /\ IF currentQuizNumber < NumberOfQuestions
         THEN /\ \E right \in {0, 1} : correctAnswers' = correctAnswers + right
              /\ answers' = answers + 1
              /\ feedbacks' = feedbacks + 1
              /\ UNCHANGED outOfRange
         ELSE outOfRange' = TRUE /\ UNCHANGED <<correctAnswers, answers, feedbacks>>
    /\ UNCHANGED <<currentQuizNumber, question, score, twoFingers>>

\* The delayed block: isQuizInProgress counts, then the next question or the score.
DidFinishFeedback ==
    /\ ~outOfRange
    /\ feedbacks > 0
    /\ feedbacks' = feedbacks - 1
    /\ currentQuizNumber' = currentQuizNumber + 1
    /\ IF currentQuizNumber' < NumberOfQuestions
         THEN /\ isUserInteractionEnabled' = TRUE
              /\ question' = currentQuizNumber'
              /\ UNCHANGED score
         ELSE score' = TRUE /\ UNCHANGED <<isUserInteractionEnabled, question>>
    /\ UNCHANGED <<correctAnswers, held, outOfRange, answers, twoFingers>>

\* restartQuiz, when the alert with the score is answered.
RestartQuiz ==
    /\ ~outOfRange
    /\ score
    /\ score' = FALSE
    /\ currentQuizNumber' = 0 /\ correctAnswers' = 0 /\ answers' = 0
    /\ question' = 0
    /\ isUserInteractionEnabled' = TRUE
    /\ UNCHANGED <<held, feedbacks, outOfRange, twoFingers>>

Next ==
    \/ \E button \in Buttons : \/ TouchDown(button)
                               \/ TouchCancel(button)
                               \/ AnswerButtonPressed(button)
    \/ DidFinishFeedback
    \/ RestartQuiz

\* A block dispatched for later runs; nobody need touch a button.
Fairness == WF_vars(DidFinishFeedback)

-----------------------------------------------------------------------------
(* Properties                                                              *)

\* "Disable to prevent multiple taps": with one finger at a time every question
\* is answered once, and the feedback of the last answer is all that is pending;
\* the score counts each question at most once, and no question is missing.
OneAnswerEach ==
    ~twoFingers => /\ answers = currentQuizNumber + feedbacks
                   /\ feedbacks \in {0, 1}
                   /\ score => answers = NumberOfQuestions /\ feedbacks = 0
                   /\ ~outOfRange

\* The answer that would be checked now belongs to the question on the label,
\* whatever feedbacks and restarts came in between, and for any fingers.
QuestionIsCurrent == currentQuizNumber < NumberOfQuestions => question = currentQuizNumber

\* After an answer the buttons are enabled again or the score is shown.
QuizGoesOn == feedbacks > 0 ~> (isUserInteractionEnabled \/ score \/ outOfRange)
=============================================================================
