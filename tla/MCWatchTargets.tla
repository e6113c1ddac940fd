---------------------------- MODULE MCWatchTargets ----------------------------
(***************************************************************************)
(* WatchTargets for TLC: the combinations of faults the runs allow.        *)
(***************************************************************************)
EXTENDS WatchTargets

Plan(breaks, rejects, restarts, forgets) ==
    [breaks |-> breaks, rejects |-> rejects, restarts |-> restarts, forgets |-> forgets]

\* A stream that breaks and an app that is restarted; a server that refuses
\* targets and forgets deletions; or both at once, which the code does not survive.
SurvivedFaults == {Plan(1, 0, 1, FALSE), Plan(1, 1, 0, TRUE)}
RestartInMismatch == {Plan(1, 0, 1, TRUE)}
NoFaults == {Plan(0, 0, 0, FALSE)}
===============================================================================
