------------------------------ MODULE Calculator ------------------------------
(***************************************************************************)
(* The keypad of the Calculator app: what the display shows, whether its   *)
(* text is a number, and what the model remembers of the last operation.   *)
(*                                                                         *)
(* A text is abstracted to what decides whether Double(text) accepts it    *)
(* and whether the number is whole: any digits, the number of dots, and a  *)
(* digit other than 0 after the dot.  A result of the model always prints  *)
(* as a number ("inf" and "nan" are numbers too).                          *)
(***************************************************************************)
EXTENDS Naturals

VARIABLES
    text,         \* displayLabel.text, as above
    finished,     \* isFinishedTypingNumber
    pending,      \* Calculator.intermediateCalculation: its operation, or "none"
    crash,        \* the fatalError that ended the app, or "none"
    double,       \* somebody typed a dot after a dot, or a dot alone
    operated,     \* a binary operation was pressed
    early         \* = was pressed before any binary operation

vars == <<text, finished, pending, crash, double, operated, early>>

MaxDots == 2      \* bound: more dots change nothing

Texts  == [digits : BOOLEAN, dots : 0..MaxDots, fraction : BOOLEAN]
Binary == {"addition", "subtraction", "multiplication", "division"}
Unary  == {"ac", "negativePositive", "percent"}
Operations == Binary \cup Unary \cup {"compute"}

TypeOK ==
    /\ text \in Texts
    /\ text.fraction => text.digits
    /\ finished \in BOOLEAN
    /\ pending \in Binary \cup {"none"}
    /\ crash \in {"none", "text", "result"}
    /\ double \in BOOLEAN
    /\ operated \in BOOLEAN
    /\ early \in BOOLEAN

-----------------------------------------------------------------------------
\* Double(text): ".5" and "5." are numbers, "." and "5.." are not.
IsNumber(t) == t.digits /\ t.dots <= 1

\* floor(value) == value
IsInt(t) == ~t.fraction

\* Double.clean: a whole value is printed without a dot, others with one.
Clean(whole) == [digits |-> TRUE, dots |-> IF whole THEN 0 ELSE 1, fraction |-> ~whole]

\* A storyboard label that shows 0.
Init ==
    /\ text = Clean(TRUE)
    /\ finished = TRUE
    /\ pending = "none"
    /\ crash = "none"
    /\ double = FALSE
    /\ operated = FALSE
    /\ early = FALSE

-----------------------------------------------------------------------------
Typed(key) ==
    [digits   |-> key # ".",
     dots     |-> IF key = "." THEN 1 ELSE 0,
     fraction |-> FALSE]

Extended(key) ==
    [digits   |-> text.digits \/ key # ".",
     dots     |-> IF key = "." /\ text.dots < MaxDots THEN text.dots + 1 ELSE text.dots,
     fraction |-> text.fraction \/ (key = "nonzero" /\ text.dots > 0)]

\* numButtonPressed, for the first key of a number.
FirstKey(key) ==
    /\ crash = "none"
    /\ finished
    /\ text' = Typed(key)
    /\ finished' = FALSE
    /\ UNCHANGED <<pending, crash, double, operated, early>>

\* numButtonPressed for a digit.
NextDigit(key) ==
    /\ crash = "none"
    /\ ~finished /\ key # "."
    /\ text' = Extended(key)
    /\ UNCHANGED <<finished, pending, crash, double, operated, early>>

\* A dot is added unless the number so far has a fraction.
AcceptsDot == IsInt(text)

\* numButtonPressed for a dot: it reads displayValue, which must be a number.
NextDot ==
    /\ crash = "none"
    /\ ~finished
    /\ IF IsNumber(text)
         THEN /\ text' = IF AcceptsDot THEN Extended(".") ELSE text
              /\ UNCHANGED crash
         ELSE crash' = "text" /\ UNCHANGED text
    /\ double' = (double \/ text.dots > 0)
    /\ UNCHANGED <<finished, pending, operated, early>>

\* Mutant of Remember: "all clear" forgets the operation.
RememberUntilClear(op) ==
    pending' = IF op \in Binary THEN op ELSE IF op = "ac" THEN "none" ELSE pending

\* Calculator.operationPressed: a binary operation is remembered with its number;
\* nothing else changes it, "all clear" neither.
Remember(op) == pending' = IF op \in Binary THEN op ELSE pending

\* Whether the new display may be whole: binary operations show the number.
Whole(op) ==
    IF op \in Binary \cup {"negativePositive"} THEN {IsInt(text)}
    ELSE IF op = "ac" THEN {TRUE}
    ELSE BOOLEAN

\* calcButtonPressed: displayValue, operationPressed, displayValue again.
CalcButtonPressed(op) ==
    /\ crash = "none"
    /\ finished' = TRUE
    /\ early' = (early \/ (op = "compute" /\ ~operated))
    /\ operated' = (operated \/ op \in Binary)
    /\ double' = (double \/ ~text.digits)
    /\ IF ~IsNumber(text)
         THEN crash' = "text" /\ UNCHANGED <<text, pending>>
         ELSE IF op = "compute" /\ pending = "none"
         THEN crash' = "result" /\ UNCHANGED <<text, pending>>
         ELSE /\ \E whole \in Whole(op) : text' = Clean(whole)
              /\ Remember(op)
              /\ UNCHANGED crash

Keys == {"zero", "nonzero", "."}

Next ==
    \/ \E key \in Keys : FirstKey(key) \/ NextDigit(key)
    \/ NextDot
    \/ \E op \in Operations : CalcButtonPressed(op)

Spec == Init /\ [][Next]_vars

-----------------------------------------------------------------------------
(* Properties                                                              *)

\* Whoever types at most one dot in a number, and digits with it, and never
\* starts with =, meets no fatalError, whatever the order of the keys.
CarefulKeysAreSafe == ~double /\ ~early => crash = "none"

\* fatalError("Cannot convert display label text to a Double"): the display is
\* always a number when it is read.
DisplayIsANumber == crash # "text"
=============================================================================
