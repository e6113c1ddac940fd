------------------------------ MODULE QuoteStore ------------------------------
(***************************************************************************)
(* InspoQuotes: buying and restoring the premium quotes.                   *)
(*                                                                         *)
(* The payment queue of StoreKit (external) keeps a transaction until the  *)
(* app finishes it, and delivers it to the observer once per run of the    *)
(* app.  The app may be killed at any moment, also between the flag it     *)
(* stores and the finishing of the transaction, which is then delivered    *)
(* again.  The table shows the free quotes, the premium ones once for each *)
(* time they were appended, and the "Get More Quotes" row until the flag   *)
(* is set.                                                                 *)
(***************************************************************************)
EXTENDS Naturals, FiniteSets

CONSTANTS
    MaxPayments,   \* bound: transactions the queue ever holds
    MaxLaunches    \* bound: launches of the app

VARIABLES
    running,       \* the app is running, its table on the screen
    isPurchased,   \* the flag in UserDefaults (persisted)
    batches,       \* premiumQuotes was appended so often in this run
    restoreButton, \* the Restore button is on the navigation bar
    queue,         \* the transactions of the payment queue (persisted by StoreKit)
    delivered,     \* transactions the observer was told of in this run
    handling,      \* the transaction shown but not yet finished, or 0
    paid,          \* the account owns the product
    charged,       \* and was charged for it on this device
    made,          \* transactions made so far; their numbers are 1..made
    launches       \* bounded by MaxLaunches

appVars == <<running, isPurchased, batches, restoreButton, delivered, handling>>
vars == <<appVars, queue, paid, charged, made, launches>>

-----------------------------------------------------------------------------
States == {"purchasing", "deferred", "purchased", "failed", "restored"}
Final  == {"purchased", "failed", "restored"}
Unlocking == {"purchased", "restored"}

Transaction == [id : 1..MaxPayments, state : States]

TypeOK ==
    /\ running \in BOOLEAN
    /\ isPurchased \in BOOLEAN
    /\ batches \in Nat
    /\ restoreButton \in BOOLEAN
    /\ queue \subseteq Transaction
    /\ \A t, u \in queue : t.id = u.id => t = u
    /\ delivered \subseteq queue
    /\ handling \in 0..made
    /\ handling # 0 => running /\ \E t \in queue : t.id = handling
    /\ paid \in BOOLEAN
    /\ charged \in BOOLEAN
    /\ made \in 0..MaxPayments
    /\ launches \in Nat

-----------------------------------------------------------------------------
Init ==
    /\ running = FALSE
    /\ isPurchased = FALSE
    /\ batches = 0
    /\ restoreButton = FALSE
    /\ queue = {}
    /\ delivered = {}
    /\ handling = 0
    /\ paid \in BOOLEAN
    /\ charged = FALSE
    /\ made = 0
    /\ launches = 0

\* What viewDidLoad shows: the premium quotes, if they were bought before.
QuotesAtLaunch == IF isPurchased THEN 1 ELSE 0

\* viewDidLoad: observe the queue, show what was bought before.
ViewDidLoad ==
    /\ ~running
    /\ launches < MaxLaunches
    /\ launches' = launches + 1
    /\ running' = TRUE
    /\ batches' = QuotesAtLaunch
    /\ restoreButton' = TRUE
    /\ UNCHANGED <<isPurchased, queue, delivered, handling, paid, charged, made>>

\* The app is killed: only the flag and the payment queue survive.
Killed ==
    /\ running
    /\ running' = FALSE
    /\ batches' = 0
    /\ restoreButton' = FALSE
    /\ delivered' = {}
    /\ handling' = 0
    /\ UNCHANGED <<isPurchased, queue, paid, charged, made, launches>>

\* didSelectRowAt on the last row, which is only there without the flag.
\* Nothing tells that a payment is already under way.
BuyPremiumQuotes ==
    /\ running /\ handling = 0
    /\ ~isPurchased
    /\ made < MaxPayments
    /\ made' = made + 1
    /\ queue' = queue \cup {[id |-> made', state |-> "purchasing"]}
    /\ UNCHANGED <<appVars, paid, charged, launches>>

\* restoreButtonPressed: the store answers with a transaction for a product that
\* was paid for, and with nothing otherwise.
RestorePurchases ==
    /\ running /\ handling = 0
    /\ restoreButton
    /\ paid
    /\ made < MaxPayments
    /\ made' = made + 1
    /\ queue' = queue \cup {[id |-> made', state |-> "restored"]}
    /\ UNCHANGED <<appVars, paid, charged, launches>>

-----------------------------------------------------------------------------
(* StoreKit                                                                *)

\* The store moves a payment on: it waits for approval, is charged, or fails.
StoreAnswers(t, state) ==
    /\ t.state \in {"purchasing", "deferred"}
    /\ state \in {"deferred", "purchased", "failed"} \ {t.state}
    /\ queue' = (queue \ {t}) \cup {[t EXCEPT !.state = state]}
    /\ delivered' = delivered \ {t}
    /\ paid' = (paid \/ state = "purchased")
    /\ charged' = (charged \/ state = "purchased")
    /\ UNCHANGED <<running, isPurchased, batches, restoreButton, handling, made, launches>>

\* updatedTransactions for a payment that is not final: nothing to do.
ObserveWaiting(t) ==
    /\ running /\ handling = 0
    /\ t \notin delivered /\ t.state \notin Final
    /\ delivered' = delivered \cup {t}
    /\ UNCHANGED <<running, isPurchased, batches, restoreButton, queue,
                   handling, paid, charged, made, launches>>

-----------------------------------------------------------------------------
(* updatedTransactions, one transaction of the batch after the other       *)

\* showPremiumQuotes: store the flag, append the quotes, reload the table.
ShowPremiumQuotes ==
    /\ isPurchased' = TRUE
    /\ batches' = batches + 1

\* The cases of the switch that call showPremiumQuotes.
ShowsQuotes(t) == t.state \in Unlocking

\* Mutant of Show: the transaction is finished without storing the flag.
FinishWithoutFlag(t) ==
    /\ running /\ handling = 0
    /\ t \notin delivered /\ ShowsQuotes(t)
    /\ queue' = queue \ {t}
    /\ UNCHANGED <<appVars, paid, charged, made, launches>>

\* A transaction that unlocks the quotes: they are shown, and the app may be
\* killed before it finishes the transaction.
Show(t) ==
    /\ running /\ handling = 0
    /\ t \notin delivered /\ ShowsQuotes(t)
    /\ ShowPremiumQuotes
    /\ delivered' = delivered \cup {t}
    /\ handling' = t.id
    /\ UNCHANGED <<running, restoreButton, queue, paid, charged, made, launches>>

\* finishTransaction after Show; a restored one takes the button away.
FinishShown ==
    /\ running
    /\ \E t \in queue :
         /\ t.id = handling
         /\ queue' = queue \ {t}
         /\ delivered' = delivered \ {t}
         /\ restoreButton' = (restoreButton /\ t.state # "restored")
    /\ handling' = 0
    /\ UNCHANGED <<running, isPurchased, batches, paid, charged, made, launches>>

\* Mutant of FinishFailed: a failed transaction stays in the queue.
LeaveFailed(t) ==
    /\ running /\ handling = 0
    /\ t \notin delivered /\ t.state = "failed"
    /\ delivered' = delivered \cup {t}
    /\ UNCHANGED <<running, isPurchased, batches, restoreButton, queue,
                   handling, paid, charged, made, launches>>

\* A failed payment is finished without effect.
FinishFailed(t) ==
    /\ running /\ handling = 0
    /\ t \notin delivered /\ t.state = "failed"
    /\ queue' = queue \ {t}
    /\ UNCHANGED <<appVars, paid, charged, made, launches>>

Observe == FinishShown \/ \E t \in queue : Show(t) \/ FinishFailed(t) \/ ObserveWaiting(t)

Next ==
    \/ ViewDidLoad
    \/ Killed
    \/ BuyPremiumQuotes
    \/ RestorePurchases
    \/ \E t \in queue, s \in States : StoreAnswers(t, s)
    \/ Observe

\* StoreKit delivers to a running app, and its main thread handles it.  The app
\* is opened again while it can be; nobody must buy, and the store may be silent.
Fairness == WF_vars(Observe) /\ WF_vars(ViewDidLoad)

Spec == Init /\ [][Next]_vars
FairSpec == Spec /\ Fairness

-----------------------------------------------------------------------------
(* Properties                                                              *)

\* Whoever was charged has the flag, or the transaction will be delivered again:
\* the app may be killed between any two steps of updatedTransactions.
ChargedIsRemembered ==
    charged => isPurchased \/ \E t \in queue : t.state = "purchased"

\* The flag is only set for a product that was paid for, whatever fails, waits
\* for approval or is delivered again.
FlagIsPaid == isPurchased => paid

\* A running app shows the premium quotes exactly when the flag is set, whether
\* it was set in this run, by another transaction, or in an earlier run.
FlagIsShown == running => (isPurchased <=> batches > 0)

\* Every transaction that comes to an end leaves the payment queue, unless the
\* app is never opened again: kills and redeliveries do not leave it there.
TransactionsSettle ==
    \A i \in 1..MaxPayments :
        (\E t \in queue : t.id = i /\ t.state \in Final)
            ~> (\/ ~\E t \in queue : t.id = i
                \/ ~running /\ launches = MaxLaunches)
=============================================================================
