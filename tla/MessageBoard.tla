----------------------------- MODULE MessageBoard -----------------------------
(***************************************************************************)
(* What Firestore promises to FlashChat, without streams, batches, acks or *)
(* resume tokens: a shared board of messages, one outbox per account on    *)
(* this device, and the part of the board this device has seen.  The chat  *)
(* shows what was seen and what waits in the outbox of the current user.   *)
(* MessageStore implements this specification; MessageView builds on it.   *)
(***************************************************************************)
EXTENDS Naturals, Sequences

CONSTANTS
    Users,        \* the accounts that sign in on this device
    NoUser,       \* nobody is signed in
    MaxMsgs       \* bound: messages written, here and on other devices

Accounts == Users \cup {NoUser}

VARIABLES
    user,         \* the account the device works for
    posted,       \* messages written so far; they are numbered 1..posted
    outbox,       \* per account: messages written here and not settled, in order
    board,        \* messages the server has committed
    seen          \* messages of the board this device keeps in its cache

boardVars == <<user, posted, outbox, board, seen>>

BoardTypeOK ==
    /\ user \in Accounts
    /\ posted \in Nat
    /\ outbox \in [Accounts -> Seq(Nat)]
    /\ board \subseteq 1..posted
    /\ seen \subseteq board

BoardInit ==
    /\ user \in Accounts
    /\ posted = 0
    /\ outbox = [u \in Accounts |-> <<>>]
    /\ board = {}
    /\ seen = {}

Waiting(u) == {outbox[u][i] : i \in 1..Len(outbox[u])}

\* The content of a chat: the cached messages and the user's own unsent ones.
Screen == seen \cup Waiting(user)

-----------------------------------------------------------------------------
\* The user writes a message, here or on another device.
Post ==
    /\ user \in Users
    /\ posted < MaxMsgs
    /\ posted' = posted + 1
    /\ outbox' = [outbox EXCEPT ![user] = Append(@, posted')]
    /\ UNCHANGED <<user, board, seen>>

PostElsewhere ==
    /\ posted < MaxMsgs
    /\ posted' = posted + 1
    /\ board' = board \cup {posted'}
    /\ UNCHANGED <<user, outbox, seen>>

\* A message reaches the board, perhaps late or once more.
Deliver(m) ==
    /\ board' = board \cup {m}
    /\ UNCHANGED <<user, posted, outbox, seen>>

\* The oldest waiting message is known to be on the board: it moves from the
\* outbox to what the device has seen in one step.
Confirm ==
    /\ outbox[user] # <<>>
    /\ Head(outbox[user]) \in board
    /\ outbox' = [outbox EXCEPT ![user] = Tail(@)]
    /\ seen' = seen \cup {Head(outbox[user])}
    /\ UNCHANGED <<user, posted, board>>

\* The oldest waiting message was refused.
Drop ==
    /\ outbox[user] # <<>>
    /\ outbox' = [outbox EXCEPT ![user] = Tail(@)]
    /\ UNCHANGED <<user, posted, board, seen>>

\* The device learns of messages on the board.
Learn(S) ==
    /\ seen' = seen \cup S
    /\ UNCHANGED <<user, posted, outbox, board>>

\* Another account takes over, with its own outbox.
SwitchUser(u) ==
    /\ user' = u
    /\ UNCHANGED <<posted, outbox, board, seen>>

BoardNext ==
    \/ Post
    \/ PostElsewhere
    \/ \E m \in 1..posted : Deliver(m)
    \/ Confirm
    \/ Drop
    \/ \E S \in SUBSET board : Learn(S)
    \/ \E u \in Accounts : SwitchUser(u)

BoardSpec == BoardInit /\ [][BoardNext]_boardVars
=============================================================================
