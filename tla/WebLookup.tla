------------------------------- MODULE WebLookup -------------------------------
(***************************************************************************)
(* The lookups of Clima (the weather of a city) and of ByteCoin (the price *)
(* in a currency): the two loaders are the same code.                      *)
(*                                                                         *)
(* Every lookup is a task of URLSession (external), whose handler runs off *)
(* the main thread when the answer comes, in any order, and hands its      *)
(* result to the main queue.  Clima prints failures, ByteCoin shows them   *)
(* in an alert.                                                            *)
(***************************************************************************)
EXTENDS Naturals, Sequences, FiniteSetsExt

CONSTANTS MaxLookups      \* bound: lookups ever made

VARIABLES
    byteCoin,     \* the app: ByteCoin, or else Clima
    asked,        \* lookups made so far; they are numbered from 1
    inFlight,     \* those without an answer
    results,      \* blocks of the main queue: what they show
    shown,        \* the lookup whose result is on the labels, 0: none
    alert,        \* ByteCoin shows an error
    noData,       \* data! was evaluated without data: the app has ended
    good,         \* history: the lookups that were answered well
    overlapped    \* history: a lookup was made before the last one was over

vars == <<byteCoin, asked, inFlight, results, shown, alert, noData, good, overlapped>>

Success(k) == [lookup |-> k, success |-> TRUE]
Failure(k) == [lookup |-> k, success |-> FALSE]

TypeOK ==
    /\ byteCoin \in BOOLEAN
    /\ asked \in 0..MaxLookups
    /\ inFlight \subseteq 1..asked
    /\ \A i \in DOMAIN results :
         results[i] \in {Success(k) : k \in good} \cup {Failure(k) : k \in 1..asked}
    /\ shown \in good \cup {0}
    /\ alert \in BOOLEAN
    /\ noData \in BOOLEAN
    /\ good \cap inFlight = {}
    /\ overlapped \in BOOLEAN

Init ==
    /\ byteCoin \in BOOLEAN
    /\ asked = 0
    /\ inFlight = {}
    /\ results = <<>>
    /\ shown = 0
    /\ alert = FALSE
    /\ noData = FALSE
    /\ good = {}
    /\ overlapped = FALSE

\* fetchWeather, fetchExchangeRate: asked by the search field, the location or
\* the picker, which an alert covers.
Fetch ==
    /\ ~noData /\ ~alert
    /\ asked < MaxLookups
    /\ asked' = asked + 1
    /\ inFlight' = inFlight \cup {asked'}
    /\ overlapped' = (overlapped \/ inFlight # {} \/ results # <<>>)
    /\ UNCHANGED <<byteCoin, results, shown, alert, noData, good>>

\* completion(.failure): ByteCoin shows it, Clima prints it.
Report(k) == results' = IF byteCoin THEN Append(results, Failure(k)) ELSE results

\* The handler, when the answer could be decoded.
AnsweredWell(k) ==
    /\ ~noData
    /\ k \in inFlight
    /\ inFlight' = inFlight \ {k}
    /\ good' = good \cup {k}
    /\ results' = Append(results, Success(k))
    /\ UNCHANGED <<byteCoin, asked, shown, alert, noData, overlapped>>

\* Mutant of AnsweredBadly: the result is taken for a success.
BadTakenForGood(k) ==
    /\ ~noData
    /\ k \in inFlight
    /\ inFlight' = inFlight \ {k}
    /\ results' = Append(results, Success(k))
    /\ UNCHANGED <<byteCoin, asked, shown, alert, noData, good, overlapped>>

\* The handler, when there was an answer and decoding threw.
AnsweredBadly(k) ==
    /\ ~noData
    /\ k \in inFlight
    /\ inFlight' = inFlight \ {k}
    /\ Report(k)
    /\ UNCHANGED <<byteCoin, asked, shown, alert, noData, good, overlapped>>

\* The handler, when there was an error and no data: it reports the error, does
\* not return, and unwraps the data.
Unanswered(k) ==
    /\ ~noData
    /\ k \in inFlight
    /\ inFlight' = inFlight \ {k}
    /\ Report(k)
    /\ noData' = TRUE
    /\ UNCHANGED <<byteCoin, asked, shown, alert, good, overlapped>>

\* The block on the main queue: updateUI, or showErrorAlert.
UpdateUI ==
    /\ ~noData
    /\ results # <<>>
    /\ IF Head(results).success
         THEN shown' = Head(results).lookup /\ UNCHANGED alert
         ELSE alert' = TRUE /\ UNCHANGED shown
    /\ results' = Tail(results)
    /\ UNCHANGED <<byteCoin, asked, inFlight, noData, good, overlapped>>

Dismiss ==
    /\ ~noData
    /\ alert
    /\ alert' = FALSE
    /\ UNCHANGED <<byteCoin, asked, inFlight, results, shown, noData, good, overlapped>>

Next ==
    \/ Fetch
    \/ \E k \in inFlight : AnsweredWell(k) \/ AnsweredBadly(k) \/ Unanswered(k)
    \/ UpdateUI
    \/ Dismiss

Spec == Init /\ [][Next]_vars

-----------------------------------------------------------------------------
(* Properties                                                              *)

\* Whoever waits for one lookup before the next sees, when nothing is pending,
\* the last one that was answered well: no failure in between hides it.
LastLookupIsShown ==
    (~overlapped /\ inFlight = {} /\ results = <<>>) =>
        shown = IF good = {} THEN 0 ELSE Max(good)

\* data!: the handler that has reported an error has data nevertheless.
DataIsThere == ~noData
===============================================================================
