------------------------------- MODULE EggTimer -------------------------------
(***************************************************************************)
(* Egg Timer: a countdown that can be started again at any moment.         *)
(*                                                                         *)
(* The timers and the blocks of the main queue are served by one run loop, *)
(* in an order of its own: a tick computes the progress, and the bar shows *)
(* it in a block that may run after further ticks or another press.        *)
(***************************************************************************)
EXTENDS Integers, Sequences

CONSTANTS
    CookingTimes,     \* the numbers of ticks an egg may take, all positive
    MaxPresses        \* bound: presses of a hardness button

VARIABLES
    secondsToBoilEgg,
    remainingSeconds,
    timer,            \* the last timer made; they are numbered from 1
    scheduled,        \* the timers that have not been invalidated
    textLabel,        \* says "Done!"
    progress,         \* progressBarView.progress, as a fraction
    updates,          \* blocks of the main queue that will set it
    fired,            \* history: ticks since the last press
    alarms            \* history: alarms since the last press

vars == <<secondsToBoilEgg, remainingSeconds, timer, scheduled, textLabel,
          progress, updates, fired, alarms>>

Fraction(done, of) == [done |-> done, of |-> of]

TypeOK ==
    /\ secondsToBoilEgg \in CookingTimes \cup {0}
    /\ remainingSeconds \in Int
    /\ timer \in 0..MaxPresses
    /\ scheduled \subseteq 1..timer
    /\ textLabel \in BOOLEAN
    /\ \A f \in {progress} \cup {updates[i] : i \in DOMAIN updates} :
         f.done <= f.of
    /\ fired \in Nat
    /\ alarms \in Nat

Init ==
    /\ secondsToBoilEgg = 0
    /\ remainingSeconds = 0
    /\ timer = 0
    /\ scheduled = {}
    /\ textLabel = FALSE
    /\ progress = Fraction(0, 1)
    /\ updates = <<>>
    /\ fired = 0
    /\ alarms = 0

\* updateProgressBar computes the fraction now and shows it in a later block.
UpdateProgressBar(seconds, remaining) ==
    updates' = Append(updates, Fraction(seconds - remaining, seconds))

\* Mutant of Invalidated: a press does not stop the timer that runs.
NothingInvalidated == {}

\* The timers that startTimer stops.
Invalidated == {timer}

\* hardnessButtonPressed, processEggTimer and startTimer.
HardnessButtonPressed(time) ==
    /\ timer < MaxPresses
    /\ secondsToBoilEgg' = time
    /\ UpdateProgressBar(time, time)
    /\ remainingSeconds' = time - 1
    /\ timer' = timer + 1
    /\ scheduled' = (scheduled \ Invalidated) \cup {timer'}
    /\ fired' = 0
    /\ alarms' = 0
    /\ UNCHANGED <<textLabel, progress>>

\* A scheduled timer fires.
CountDown ==
    /\ scheduled # {}
    /\ fired' = fired + 1
    /\ UpdateProgressBar(secondsToBoilEgg, remainingSeconds)
    /\ IF remainingSeconds = 0
         THEN /\ textLabel' = TRUE
              /\ alarms' = alarms + 1
              /\ scheduled' = scheduled \ {timer}
              /\ UNCHANGED remainingSeconds
         ELSE /\ remainingSeconds' = remainingSeconds - 1
              /\ UNCHANGED <<textLabel, alarms, scheduled>>
    /\ UNCHANGED <<secondsToBoilEgg, timer, progress>>

\* The block of updateProgressBar.
ShowProgress ==
    /\ updates # <<>>
    /\ progress' = Head(updates)
    /\ updates' = Tail(updates)
    /\ UNCHANGED <<secondsToBoilEgg, remainingSeconds, timer, scheduled, textLabel,
                   fired, alarms>>

Next ==
    \/ \E time \in CookingTimes : HardnessButtonPressed(time)
    \/ CountDown
    \/ ShowProgress

\* The run loop serves its timers and blocks; nobody need press.
Fairness == WF_vars(CountDown) /\ WF_vars(ShowProgress)

-----------------------------------------------------------------------------
(* Properties                                                              *)

\* The alarm sounds once, with the tick that ends the time of the last egg, and
\* no tick follows, however many eggs were started before and given up.
AlarmOnTime ==
    timer # 0 => /\ fired <= secondsToBoilEgg
                 /\ alarms = IF fired = secondsToBoilEgg THEN 1 ELSE 0

\* When no update waits, the bar shows the ticks of the last egg, also after
\* updates of an egg given up were shown late.
BarIsTime == (timer # 0 /\ updates = <<>>) => progress = Fraction(fired, secondsToBoilEgg)

\* An egg is done in the end, with a full bar, or another one is started.
EggIsDone ==
    \A egg \in 1..MaxPresses :
        timer = egg ~> \/ timer # egg
                       \/ textLabel /\ alarms = 1 /\ progress.done = progress.of
=============================================================================
