-------------------------------- MODULE MCApps --------------------------------
(***************************************************************************)
(* The small apps of the repository for TLC, one of them at a time: `app`  *)
(* is chosen in the initial state, and the variables of the others keep    *)
(* their first values.  They share nothing; one run checks them all.       *)
(***************************************************************************)
EXTENDS Naturals, Sequences, FiniteSets

CONSTANTS
    Docs, Malformed, MaxEvents,                 \* ChatScreen
    MaxPayments, MaxLaunches,                   \* QuoteStore
    MaxLookups,                                 \* WebLookup
    CookingTimes, MaxPresses,                   \* EggTimer
    Buttons, NumberOfQuestions, MaxTouches,     \* Quizzler
    Categories, Items, Matching, MaxFailures    \* Todoey

\* There are finitely many documents, numbered by date, an egg takes a second at
\* least, and a quiz has a question; the bounds are numbers.
ASSUME AppsAssumption ==
    /\ {MaxEvents, MaxPayments, MaxLaunches, MaxLookups, MaxPresses, MaxTouches,
        MaxFailures} \subseteq Nat
    /\ Docs \subseteq Nat \ {0} /\ IsFiniteSet(Docs) /\ Malformed \subseteq Docs
    /\ CookingTimes \subseteq Nat \ {0}
    /\ NumberOfQuestions \in Nat \ {0}
    /\ Matching \subseteq Items

VARIABLES
    app,    \* the app in the foreground
    events, failed, mainQueue, messages, cells, screenCrash, shrunk,
    running, isPurchased, batches, restoreButton, queue, delivered,
    handling, paid, charged, made, launches,
    text, finished, pending, keypadCrash, double, operated, early,
    byteCoin, asked, inFlight, results, shown, alert, noData, good,
    overlapped,
    secondsToBoilEgg, remainingSeconds, timer, scheduled, textLabel,
    progress, updates, fired, alarms,
    currentQuizNumber, correctAnswers, isUserInteractionEnabled,
    held, feedbacks, question, score, outOfRange, answers,
    twoFingers,
    categories, itemList, selected, filtered, categoryRows, itemRows,
    badUpdate, failures

chatVars == <<events, failed, mainQueue, messages, cells, screenCrash,
              shrunk>>
quotesVars == <<running, isPurchased, batches, restoreButton, queue,
                delivered, handling, paid, charged, made, launches>>
keypadVars == <<text, finished, pending, keypadCrash, double, operated,
                early>>
lookupVars == <<byteCoin, asked, inFlight, results, shown, alert, noData,
                good, overlapped>>
eggVars == <<secondsToBoilEgg, remainingSeconds, timer, scheduled, textLabel,
             progress, updates, fired, alarms>>
quizVars == <<currentQuizNumber, correctAnswers, isUserInteractionEnabled,
              held, feedbacks, question, score, outOfRange, answers,
              twoFingers>>
todoVars == <<categories, itemList, selected, filtered, categoryRows,
              itemRows, badUpdate, failures>>

vars == <<app, chatVars, quotesVars, keypadVars, lookupVars, eggVars, quizVars, todoVars>>

Screen == INSTANCE ChatScreen WITH crash <- screenCrash
Quotes == INSTANCE QuoteStore
Keypad == INSTANCE Calculator WITH crash <- keypadCrash
Lookup == INSTANCE WebLookup
Egg    == INSTANCE EggTimer
Quiz   == INSTANCE Quizzler
Todo   == INSTANCE Todoey

Apps == {"chat", "quotes", "keypad", "lookup", "egg", "quiz", "todo"}

\* The others wait in one initial state each.
Init ==
    /\ app \in Apps
    /\ Screen!Init /\ Quotes!Init /\ Keypad!Init /\ Lookup!Init
    /\ Egg!Init /\ Quiz!Init /\ Todo!Init
    /\ app # "quotes" => ~paid
    /\ app # "lookup" => ~byteCoin

\* A step of one app: the others do nothing.
Only(name) ==
    /\ app = name /\ UNCHANGED app
    /\ IF name = "chat" THEN TRUE ELSE UNCHANGED chatVars
    /\ IF name = "quotes" THEN TRUE ELSE UNCHANGED quotesVars
    /\ IF name = "keypad" THEN TRUE ELSE UNCHANGED keypadVars
    /\ IF name = "lookup" THEN TRUE ELSE UNCHANGED lookupVars
    /\ IF name = "egg" THEN TRUE ELSE UNCHANGED eggVars
    /\ IF name = "quiz" THEN TRUE ELSE UNCHANGED quizVars
    /\ IF name = "todo" THEN TRUE ELSE UNCHANGED todoVars

Next ==
    \/ Screen!Next /\ Only("chat")
    \/ Quotes!Next /\ Only("quotes")
    \/ Keypad!Next /\ Only("keypad")
    \/ Lookup!Next /\ Only("lookup")
    \/ Egg!Next /\ Only("egg")
    \/ Quiz!Next /\ Only("quiz")
    \/ Todo!Next /\ Only("todo")

\* The fairness of each app, for the app in the foreground.
Fairness ==
    /\ WF_vars(Screen!MainQueue /\ Only("chat"))
    /\ WF_vars(Quotes!Observe /\ Only("quotes"))
    /\ WF_vars(Quotes!ViewDidLoad /\ Only("quotes"))
    /\ WF_vars(Egg!CountDown /\ Only("egg"))
    /\ WF_vars(Egg!ShowProgress /\ Only("egg"))
    /\ WF_vars(Quiz!DidFinishFeedback /\ Only("quiz"))

FairSpec == Init /\ [][Next]_vars /\ Fairness

-----------------------------------------------------------------------------
(* The properties of the apps, stated in their modules; an app that is not *)
(* in the foreground has them in its initial state.                        *)

\* Flash-Chat's table shows the messages in its rows when no reload waits, and
\* asks for no missing row while the list grows.
ChatIsDrawn == Screen!TypeOK /\ Screen!CellsShowMessages /\ Screen!SafeWhileGrowing

\* InspoQuotes: a charge is remembered by the flag or the payment queue, the flag
\* is set only for what was paid, and the premium quotes are shown under it.
QuotesFollowPayments ==
    Quotes!TypeOK /\ Quotes!ChargedIsRemembered /\ Quotes!FlagIsPaid /\ Quotes!FlagIsShown

\* Calculator: careful keys meet no fatalError.
CarefulKeysAreSafe == Keypad!TypeOK /\ Keypad!CarefulKeysAreSafe

\* Clima, ByteCoin: lookups one by one end with the last good one shown.
LastLookupIsShown == Lookup!TypeOK /\ Lookup!LastLookupIsShown

\* Egg Timer: one alarm, with the last tick of the last egg, whose ticks the bar
\* shows.
EggOnTime == Egg!TypeOK /\ Egg!AlarmOnTime /\ Egg!BarIsTime

\* Quizzler: with one finger each question is answered once, and with any the
\* label shows the question that would be checked.
QuizInStep == Quiz!TypeOK /\ Quiz!OneAnswerEach /\ Quiz!QuestionIsCurrent

\* Todoey: the tables follow Realm until a write fails and are at most a row off
\* then, and no item is without its category.
TodoInStep == Todo!TypeOK /\ Todo!TablesFollowRealm /\ Todo!NoOrphans

\* InspoQuotes: a transaction that ended leaves the payment queue.
TransactionsSettle == Quotes!TransactionsSettle

\* Flash-Chat's table has the rows of the last event in the end, an egg is done
\* or given up for another, and after an answer the quiz goes on.
EveryAppGoesOn == Screen!LastEventIsShown /\ Egg!EggIsDone /\ Quiz!QuizGoesOn
===============================================================================
