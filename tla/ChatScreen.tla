------------------------------ MODULE ChatScreen ------------------------------
(***************************************************************************)
(* The table of messages of one chat screen.                               *)
(*                                                                         *)
(* The snapshot listener replaces the array of messages in one block of    *)
(* the main queue; the table is reloaded in later blocks, one for the      *)
(* removal of the old messages and one for the new ones.  In between the   *)
(* table has its old number of rows, and asks for the cell of a row when   *)
(* it is laid out, or when somebody, or an animation, scrolls.             *)
(***************************************************************************)
EXTENDS Naturals, Sequences, SequencesExt

CONSTANTS
    Docs,         \* the documents of the collection, numbered by date
    Malformed,    \* those without a sender or a body
    MaxEvents     \* bound: events of the snapshot listener

VARIABLES
    events,       \* the documents of each event posted so far
    failed,       \* the listener has failed; no event follows
    mainQueue,    \* blocks of the main queue that concern the table
    messages,     \* ChatViewController.messages
    cells,        \* the message each row of the table shows, 0: no cell yet
    crash,        \* what ended the app, or "none"
    shrunk        \* an event brought no messages, or fewer than the one before

vars == <<events, failed, mainQueue, messages, cells, crash, shrunk>>

-----------------------------------------------------------------------------
\* The documents of a query by date.
InOrder(S) ==
    CHOOSE s \in [1..Cardinality(S) -> S] : \A i, j \in DOMAIN s : i < j => s[i] < s[j]

\* Message.init?: documents without sender or body are left out.
Parsed(S) == InOrder(S \ Malformed)

Latest == IF events = <<>> THEN <<>> ELSE Parsed(events[Len(events)])

Reload == [kind |-> "reload"]
Event(S) == [kind |-> "event", docs |-> S]
Failure == [kind |-> "error"]
Assign(S) == [kind |-> "assign", docs |-> S]

TypeOK ==
    /\ events \in Seq(SUBSET Docs)
    /\ failed \in BOOLEAN
    /\ mainQueue \in Seq({Reload, Failure} \cup {Event(S) : S \in SUBSET Docs})
    /\ messages \in Seq(Docs \ Malformed)
    /\ cells \in Seq(Docs \cup {0})
    /\ crash \in {"none", "row", "scroll"}
    /\ shrunk \in BOOLEAN
    /\ (mainQueue = <<>> /\ events # <<>>) => Len(cells) = Len(messages)

Init ==
    /\ events = <<>>
    /\ failed = FALSE
    /\ mainQueue = <<>>
    /\ messages = <<>>
    /\ cells = <<>>
    /\ crash = "none"
    /\ shrunk = FALSE

\* Firestore raises an event with the documents of the query.
SnapshotArrives(S) ==
    /\ crash = "none"
    /\ ~failed /\ Len(events) < MaxEvents
    /\ events' = Append(events, S)
    /\ mainQueue' = Append(mainQueue, Event(S))
    /\ shrunk' = (shrunk \/ Parsed(S) = <<>> \/ Len(Parsed(S)) < Len(Latest))
    /\ UNCHANGED <<failed, messages, cells, crash>>

\* The listener fails, once and for all.
ListenFails ==
    /\ crash = "none"
    /\ ~failed
    /\ failed' = TRUE
    /\ mainQueue' = Append(mainQueue, Failure)
    /\ UNCHANGED <<events, messages, cells, crash, shrunk>>

-----------------------------------------------------------------------------
\* Mutants of LoadMessages: no reload; the array is filled in a later block.
LoadWithoutReload ==
    /\ mainQueue # <<>> /\ Head(mainQueue).kind = "event"
    /\ messages' = Parsed(Head(mainQueue).docs)
    /\ mainQueue' = Tail(mainQueue)
    /\ UNCHANGED <<events, failed, cells, crash, shrunk>>

LoadInTwoBlocks ==
    /\ mainQueue # <<>> /\ Head(mainQueue).kind \in {"event", "assign"}
    /\ messages' = IF Head(mainQueue).kind = "event" THEN <<>>
                                                     ELSE Parsed(Head(mainQueue).docs)
    /\ mainQueue' = Tail(mainQueue) \o
         (IF Head(mainQueue).kind = "event" THEN <<Assign(Head(mainQueue).docs)>>
                                            ELSE <<Reload>>)
    /\ UNCHANGED <<events, failed, cells, crash, shrunk>>

\* The listener's closure: removeAll, then the new messages.  Each posts a
\* reload, so two blocks see the same, new, messages.
LoadMessages ==
    /\ mainQueue # <<>> /\ Head(mainQueue).kind = "event"
    /\ messages' = Parsed(Head(mainQueue).docs)
    /\ mainQueue' = Tail(mainQueue) \o <<Reload, Reload>>
    /\ UNCHANGED <<events, failed, cells, crash, shrunk>>

\* An error is printed; the messages stay.
IgnoreFailure ==
    /\ mainQueue # <<>> /\ Head(mainQueue).kind = "error"
    /\ mainQueue' = Tail(mainQueue)
    /\ UNCHANGED <<events, failed, messages, cells, crash, shrunk>>

\* reloadData asks for the number of rows and drops the cells.
Rows == [i \in 1..Len(messages) |-> 0]

\* didSet, dispatched: reload, and scroll to the last row, which must exist.
ReloadTable ==
    /\ mainQueue # <<>> /\ Head(mainQueue).kind = "reload"
    /\ cells' = Rows
    /\ crash' = IF messages = <<>> THEN "scroll" ELSE crash
    /\ mainQueue' = Tail(mainQueue)
    /\ UNCHANGED <<events, failed, messages, shrunk>>

\* The table needs the cell of a row: cellForRowAt reads messages[row].
CellForRow(row) ==
    /\ crash = "none"
    /\ cells[row] = 0
    /\ IF row <= Len(messages)
         THEN cells' = [cells EXCEPT ![row] = messages[row]] /\ UNCHANGED crash
         ELSE crash' = "row" /\ UNCHANGED cells
    /\ UNCHANGED <<events, failed, mainQueue, messages, shrunk>>

MainQueue == crash = "none" /\ (LoadMessages \/ IgnoreFailure \/ ReloadTable)

Next ==
    \/ \E S \in SUBSET Docs : SnapshotArrives(S)
    \/ ListenFails
    \/ MainQueue
    \/ \E row \in 1..Len(cells) : CellForRow(row)

\* The main queue runs its blocks.  No row need ever be laid out.
FairSpec == Init /\ [][Next]_vars /\ WF_vars(MainQueue)

-----------------------------------------------------------------------------
(* Properties                                                              *)

\* Whenever no event or reload waits, every cell of the table shows the message
\* of its row, also those made between an event and its reloads, when the rows
\* are the old ones and the messages the new ones.
CellsShowMessages ==
    (\A b \in ToSet(mainQueue) : b = Failure) =>
        \A i \in 1..Len(cells) : cells[i] \in {0, messages[i]}

\* As long as every event brings at least as many messages as the one before,
\* and one at least, the table never asks for a row that is not there: nobody
\* sees the array that removeAll leaves.
SafeWhileGrowing == ~shrunk => crash = "none"

\* Once the events are over, the table has a row for each message of the last
\* one, whatever was reloaded, laid out or failed in between.
LastEventIsShown ==
    <>[](crash # "none" \/ (messages = Latest /\ Len(cells) = Len(messages)))
=============================================================================
