----------------------------- MODULE MessageStore -----------------------------
(***************************************************************************)
(* The path of a message through Firestore on one device, and back:        *)
(*                                                                         *)
(*   LocalStore    persists one mutation queue per user and the cache      *)
(*   RemoteStore   sends the head of the current user's queue through the  *)
(*                 write pipeline, and applies the events of the watch     *)
(*                 stream                                                  *)
(*   the server    commits or rejects the writes of a stream in order; a   *)
(*                 broken stream may still be executed, but not answered   *)
(*                                                                         *)
(* Messages are numbered in the order they were written, as batch ids are. *)
(* A message is never edited or deleted, so the cache keeps its version.   *)
(* Versions are positions in the server's commit log.                      *)
(***************************************************************************)
EXTENDS Naturals, Sequences

CONSTANTS
    Users,             \* the accounts that sign in on this device
    NoUser,            \* nobody is signed in
    Elsewhere,         \* the author of messages written on other devices
    MaxPendingWrites,  \* kMaxPendingWrites
    MaxMsgs,           \* bound: messages written
    MaxCommits,        \* bound: length of the server's commit log
    MaxRestarts        \* bound: broken streams, user changes and app restarts

ASSUME StoreAssumption ==
    /\ NoUser \notin Users
    /\ Elsewhere \notin Users \cup {NoUser}
    /\ MaxPendingWrites \in Nat \ {0}

Accounts == Users \cup {NoUser}

VARIABLES
    engineUser,   \* SyncEngine.current_user_
    owner,        \* the author of each message
    queue,        \* the mutation queue of each account (persisted)
    cache,        \* remote document cache: version of each message, 0: absent (persisted)
    rejected,     \* messages the server refused
    pipeline,     \* RemoteStore.write_pipeline_
    stream,       \* the write stream; open means that the handshake is complete
    wire,         \* writes of the open stream the server has not executed
    replies,      \* its answers on their way: message and version, 0: an error status
    late,         \* writes of earlier streams that may still be executed
    log,          \* the server's commits: message and the account of the token
    watched,      \* position of the watch stream's resume token (persisted)
    restarts      \* bounded by MaxRestarts

clientVars == <<engineUser, queue, cache, rejected, pipeline, watched>>
vars == <<clientVars, owner, stream, wire, replies, late, log, restarts>>

-----------------------------------------------------------------------------
Written == Len(owner)

Reply  == [msg : Nat, version : Nat]
Commit == [msg : Nat, user : Users \cup {Elsewhere}]
Orphan == [user : Users, msgs : Seq(Nat), restart : Nat]

TypeOK ==
    /\ engineUser \in Accounts
    /\ owner \in Seq(Users \cup {Elsewhere})
    /\ queue \in [Accounts -> Seq(Nat)]
    /\ cache \in Seq(Nat)
    /\ Len(cache) = Written
    /\ rejected \subseteq 1..Written
    /\ pipeline \in Seq(Nat)
    /\ stream \in {"stopped", "starting", "open"}
    /\ wire \in Seq(Nat)
    /\ replies \in Seq(Reply)
    /\ late \subseteq Orphan
    /\ log \in Seq(Commit)
    /\ watched \in 0..Len(log)
    /\ restarts \in Nat

Smaller(a, b) == IF a <= b THEN a ELSE b

-----------------------------------------------------------------------------
(* LocalStore                                                              *)

\* GetNextMutationBatch: the place in queue q of the first batch after m.
PlaceAfter(q, m) ==
    CHOOSE i \in 1..(Len(q) + 1) :
        /\ \A j \in 1..(i - 1) : q[j] <= m
        /\ i <= Len(q) => q[i] > m

\* RemoveMutationBatch: q without m, which is in it.
Without(q, m) ==
    LET i == CHOOSE j \in 1..Len(q) : q[j] = m
    IN  SubSeq(q, 1, i - 1) \o SubSeq(q, i + 1, Len(q))

\* Mutant of Newer: the version check is missing.
LatestReport(old, version) == version

\* A version older than the cached one is ignored.
Newer(old, version) == IF old < version THEN version ELSE old

\* Mutant of AcknowledgeBatch: the document waits for the watch stream.
AcknowledgeWithoutCache(m, version) ==
    /\ queue' = [queue EXCEPT ![engineUser] = Without(@, m)]
    /\ UNCHANGED <<cache, rejected>>

\* AcknowledgeBatch: the batch leaves the queue and its document enters the
\* cache at the commit version, in one transaction.
AcknowledgeBatch(m, version) ==
    /\ queue' = [queue EXCEPT ![engineUser] = Without(@, m)]
    /\ cache' = [cache EXCEPT ![m] = Newer(@, version)]
    /\ UNCHANGED rejected

\* RejectBatch: the batch leaves the queue.
RejectBatch(m) ==
    /\ queue' = [queue EXCEPT ![engineUser] = Without(@, m)]
    /\ rejected' = rejected \cup {m}
    /\ UNCHANGED cache

-----------------------------------------------------------------------------
(* RemoteStore                                                             *)

\* The batches FillWritePipeline adds to pipeline p from queue q: those after
\* the last one retrieved, while there is room.
Refill(p, q) ==
    LET last  == IF p = <<>> THEN 0 ELSE p[Len(p)]
        first == PlaceAfter(q, last)
        final == first + MaxPendingWrites - Len(p) - 1
    IN  SubSeq(q, first, IF final < Len(q) THEN final ELSE Len(q))

\* Mutant of FillWritePipeline: a stopped stream is not started.
FillWithoutStart(p, q, state) ==
    /\ pipeline' = p \o Refill(p, q)
    /\ stream' = state

\* FillWritePipeline, and the start of a stopped stream when there is work.
FillWritePipeline(p, q, state) ==
    /\ pipeline' = p \o Refill(p, q)
    /\ stream' = IF state = "stopped" /\ pipeline' # <<>> THEN "starting" ELSE state

\* The writes of a stream that ends may still be executed by the server.
Abandoned == IF stream = "open" /\ wire # <<>>
               THEN {[user |-> engineUser, msgs |-> wire, restart |-> restarts]}
               ELSE {}

Refused == \E i \in 1..Len(replies) : replies[i].version = 0

\* Mutant of RestartNetwork: the pipeline of the last user is not cleared.
RestartKeepingPipeline(u) ==
    /\ restarts < MaxRestarts
    /\ restarts' = restarts + 1
    /\ late' = IF Refused THEN late ELSE late \cup Abandoned
    /\ FillWritePipeline(pipeline, queue[u], "stopped")
    /\ wire' = <<>>
    /\ replies' = <<>>

\* RestartNetwork for user u: the pipeline is rebuilt from u's queue.
RestartNetwork(u) ==
    /\ restarts < MaxRestarts
    /\ restarts' = restarts + 1
    /\ late' = IF Refused THEN late ELSE late \cup Abandoned
    /\ FillWritePipeline(<<>>, queue[u], "stopped")
    /\ wire' = <<>>
    /\ replies' = <<>>

-----------------------------------------------------------------------------
Init ==
    /\ engineUser \in Accounts
    /\ owner = <<>>
    /\ queue = [u \in Accounts |-> <<>>]
    /\ cache = <<>>
    /\ rejected = {}
    /\ pipeline = <<>>
    /\ stream = "stopped"
    /\ wire = <<>>
    /\ replies = <<>>
    /\ late = {}
    /\ log = <<>>
    /\ watched = 0
    /\ restarts = 0

\* SyncEngine::WriteMutations: a message is queued, the pipeline is filled
\* and, on an open stream, what was added is sent.
WriteMutations ==
    /\ engineUser \in Users
    /\ Written < MaxMsgs
    /\ owner' = Append(owner, engineUser)
    /\ cache' = Append(cache, 0)
    /\ queue' = [queue EXCEPT ![engineUser] = Append(@, Written + 1)]
    /\ FillWritePipeline(pipeline, queue'[engineUser], stream)
    /\ wire' = IF stream = "open" THEN wire \o Refill(pipeline, queue'[engineUser]) ELSE wire
    /\ UNCHANGED <<engineUser, rejected, replies, late, log, watched, restarts>>

\* The stream opens with the token of the engine's user (CredentialHandoff
\* shows that it is), and the whole pipeline is sent after the handshake.
OnWriteStreamHandshakeComplete ==
    /\ stream = "starting"
    /\ stream' = "open"
    /\ wire' = pipeline
    /\ UNCHANGED <<clientVars, owner, replies, late, log, restarts>>

\* Mutant of OnWriteStreamMutationResult: the answer is for the last write.
AcknowledgeLast ==
    /\ replies # <<>>
    /\ Head(replies).version > 0
    /\ AcknowledgeBatch(pipeline[Len(pipeline)], Head(replies).version)
    /\ FillWritePipeline(Tail(pipeline), queue'[engineUser], stream)
    /\ wire' = wire \o Refill(Tail(pipeline), queue'[engineUser])
    /\ replies' = Tail(replies)
    /\ UNCHANGED <<engineUser, owner, late, log, watched, restarts>>

\* An answer is for the first write of the pipeline, whichever it is.
OnWriteStreamMutationResult ==
    /\ replies # <<>>
    /\ Head(replies).version > 0
    /\ AcknowledgeBatch(Head(pipeline), Head(replies).version)
    /\ FillWritePipeline(Tail(pipeline), queue'[engineUser], stream)
    /\ wire' = wire \o Refill(Tail(pipeline), queue'[engineUser])
    /\ replies' = Tail(replies)
    /\ UNCHANGED <<engineUser, owner, late, log, watched, restarts>>

\* A permanent error ends the stream: it is for the first write of the
\* pipeline, which is dropped; the rest is sent again on the next stream.
HandleWriteError ==
    /\ replies # <<>>
    /\ Head(replies).version = 0
    /\ RejectBatch(Head(pipeline))
    /\ FillWritePipeline(Tail(pipeline), queue'[engineUser], "stopped")
    /\ wire' = <<>>
    /\ replies' = <<>>
    /\ UNCHANGED <<engineUser, owner, late, log, watched, restarts>>

\* Mutant of OnWriteStreamClose: answers of the ended stream are still handled.
CloseKeepingReplies ==
    /\ stream = "open"
    /\ restarts < MaxRestarts
    /\ restarts' = restarts + 1
    /\ stream' = IF pipeline # <<>> THEN "starting" ELSE "stopped"
    /\ late' = IF Refused THEN late ELSE late \cup Abandoned
    /\ wire' = <<>>
    /\ UNCHANGED <<clientVars, owner, replies, log>>

\* Mutant of OnWriteStreamClose: any error drops the first write.
CloseDroppingFirst ==
    /\ stream = "open"
    /\ restarts < MaxRestarts
    /\ restarts' = restarts + 1
    /\ pipeline' = IF pipeline # <<>> THEN Tail(pipeline) ELSE pipeline
    /\ stream' = IF pipeline' # <<>> THEN "starting" ELSE "stopped"
    /\ late' = IF Refused THEN late ELSE late \cup Abandoned
    /\ wire' = <<>>
    /\ replies' = <<>>
    /\ UNCHANGED <<engineUser, queue, cache, rejected, watched, owner, log>>

\* A transient error or the idle timer ends the stream.  The pipeline stays,
\* answers on their way are lost, and the stream restarts if there is work.
OnWriteStreamClose ==
    /\ stream = "open"
    /\ restarts < MaxRestarts
    /\ restarts' = restarts + 1
    /\ stream' = IF pipeline # <<>> THEN "starting" ELSE "stopped"
    /\ late' = IF Refused THEN late ELSE late \cup Abandoned
    /\ wire' = <<>>
    /\ replies' = <<>>
    /\ UNCHANGED <<clientVars, owner, log>>

\* HandleCredentialChange, for another user or for a new token of the same.
\* A restart of the app and a change of connectivity do the same: what is not
\* persisted is built again from the queue.
HandleCredentialChange(u) ==
    /\ engineUser' = u
    /\ RestartNetwork(u)
    /\ UNCHANGED <<queue, cache, rejected, watched, owner, log>>

\* Mutant of ApplyRemoteEvent: documents with pending writes are left alone.
ApplyToUnqueued(n) ==
    /\ cache' = [m \in 1..Written |->
         LET found == {i \in (watched + 1)..n : log[i].msg = m}
         IN  IF found = {} \/ \E i \in 1..Len(queue[engineUser]) : queue[engineUser][i] = m
             THEN cache[m]
             ELSE Newer(cache[m], CHOOSE i \in found : \A j \in found : j <= i)]
    /\ watched' = n
    /\ UNCHANGED <<engineUser, queue, rejected, pipeline, owner, stream, wire,
                   replies, late, log, restarts>>

\* ApplyRemoteEvent: the watch stream reports the messages committed up to n,
\* each with its latest version, and its resume token moves to n.
ApplyRemoteEvent(n) ==
    /\ cache' = [m \in 1..Written |->
         LET found == {i \in (watched + 1)..n : log[i].msg = m}
         IN  IF found = {} THEN cache[m]
             ELSE Newer(cache[m], CHOOSE i \in found : \A j \in found : j <= i)]
    /\ watched' = n
    /\ UNCHANGED <<engineUser, queue, rejected, pipeline, owner, stream, wire,
                   replies, late, log, restarts>>

-----------------------------------------------------------------------------
(* The server and other devices                                            *)

\* The next write of the open stream is committed and answered.
ServerCommits ==
    /\ wire # <<>> /\ ~Refused
    /\ Len(log) < MaxCommits
    /\ log' = Append(log, [msg |-> Head(wire), user |-> engineUser])
    /\ replies' = Append(replies, [msg |-> Head(wire), version |-> Len(log')])
    /\ wire' = Tail(wire)
    /\ UNCHANGED <<clientVars, owner, stream, late, restarts>>

\* The next write is refused, which ends the stream on the server's side.
ServerRefuses ==
    /\ wire # <<>> /\ ~Refused
    /\ replies' = Append(replies, [msg |-> Head(wire), version |-> 0])
    /\ wire' = <<>>
    /\ UNCHANGED <<clientVars, owner, stream, late, log, restarts>>

\* A write of an ended stream is executed after all; nobody hears of it.
LateCommit(o) ==
    /\ Len(log) < MaxCommits
    /\ log' = Append(log, [msg |-> Head(o.msgs), user |-> o.user])
    /\ late' = (late \ {o}) \cup
               (IF Len(o.msgs) = 1 THEN {} ELSE {[o EXCEPT !.msgs = Tail(@)]})
    /\ UNCHANGED <<clientVars, owner, stream, wire, replies, restarts>>

ForeignCommit ==
    /\ Written < MaxMsgs
    /\ Len(log) < MaxCommits
    /\ owner' = Append(owner, Elsewhere)
    /\ cache' = Append(cache, 0)
    /\ log' = Append(log, [msg |-> Written + 1, user |-> Elsewhere])
    /\ UNCHANGED <<engineUser, queue, rejected, pipeline, watched, stream, wire,
                   replies, late, restarts>>

Next ==
    \/ WriteMutations
    \/ OnWriteStreamHandshakeComplete
    \/ OnWriteStreamMutationResult
    \/ HandleWriteError
    \/ OnWriteStreamClose
    \/ \E u \in Accounts : HandleCredentialChange(u)
    \/ \E n \in (watched + 1)..Len(log) : ApplyRemoteEvent(n)
    \/ ServerCommits
    \/ ServerRefuses
    \/ \E o \in late : LateCommit(o)
    \/ ForeignCommit

\* The client handles what it receives and reconnects, and a server that has a
\* write on an open stream answers it.  Streams do not break forever:
\* MaxRestarts bounds that.  Nothing is assumed of the user or the watch stream.
Fairness ==
    /\ WF_vars(OnWriteStreamHandshakeComplete)
    /\ WF_vars(OnWriteStreamMutationResult)
    /\ WF_vars(HandleWriteError)
    /\ WF_vars(ServerCommits \/ ServerRefuses)

Spec == Init /\ [][Next]_vars
FairSpec == Spec /\ Fairness

-----------------------------------------------------------------------------
(* Properties                                                              *)

\* The pipeline is the beginning of the current user's mutation queue, with at
\* most MaxPendingWrites batches: nothing is skipped, sent twice on a stream or
\* left over from another user (FillWritePipeline, HandleCredentialChange).
PipelineIsQueuePrefix ==
    /\ Len(pipeline) <= MaxPendingWrites
    /\ Len(pipeline) <= Len(queue[engineUser])
    /\ \A i \in 1..Len(pipeline) : pipeline[i] = queue[engineUser][i]

\* Answers carry no name: the i-th answer on its way is for the i-th write of
\* the pipeline, and the writes not executed follow (HARD_ASSERT and comment in
\* OnWriteStreamMutationResult).
RepliesMatchPipeline ==
    /\ Len(replies) <= Len(pipeline)
    /\ \A i \in 1..Len(replies) : replies[i].msg = pipeline[i]
    /\ (stream = "open" /\ ~Refused) =>
          /\ Len(replies) + Len(wire) = Len(pipeline)
          /\ \A i \in 1..Len(wire) : wire[i] = pipeline[Len(replies) + i]

\* Queue, pipeline, wire and answers of the write stream stay in step, and every
\* variable keeps its type, through broken streams and changes of the account.
PipelineInStep == TypeOK /\ PipelineIsQueuePrefix /\ RepliesMatchPipeline

\* Every commit was made with the token of the message's author, however the
\* accounts alternate and however late an old stream is executed.
CommittedUnderOwner == \A i \in 1..Len(log) : log[i].user = owner[log[i].msg]

\* A cached version is that of a commit of the same message: no acknowledgment
\* is taken for another message's.
CacheIsCommitted ==
    \A m \in 1..Written : cache[m] > 0 => cache[m] <= Len(log) /\ log[cache[m]].msg = m

\* A message written on this device is in its author's queue, in the cache or
\* was refused, across user changes, restarts and lost answers.
NoMessageLost ==
    \A m \in 1..Written : owner[m] # Elsewhere =>
        \/ \E i \in 1..Len(queue[owner[m]]) : queue[owner[m]][i] = m
        \/ cache[m] > 0
        \/ m \in rejected

\* The messages of one author first appear on the board in the order they were
\* written, unless the earlier one was refused: resending never overtakes.
FirstCommitsInOrder ==
    \A i \in 1..Len(log) : \A m \in 1..Written :
        (m < log[i].msg /\ owner[m] = owner[log[i].msg] /\ owner[m] # Elsewhere)
            => m \in rejected \/ \E j \in 1..i : log[j].msg = m

\* The resume token never gets ahead of the cache: every message committed up
\* to it is cached in that version or a later one, although acknowledgments
\* and watch events reach the cache in any order.
ResumeTokenIsCached == \A i \in 1..watched : cache[log[i].msg] >= i

\* The cache holds what was committed, and all of it up to the resume token.
CacheInStep == CacheIsCommitted /\ ResumeTokenIsCached

\* The cached version of a message never goes back, and a message disappears
\* from the chat only when it was refused or the user changes: an
\* acknowledgment moves it from the queue to the cache in one step.
OnScreen(m) ==
    cache[m] > 0 \/ \E i \in 1..Len(queue[engineUser]) : queue[engineUser][i] = m

CacheNeverGoesBack == [][\A m \in 1..Written : cache'[m] >= cache[m]]_vars

VanishesOnlyIfRefused ==
    [][engineUser' = engineUser =>
         \A m \in 1..Written : OnScreen(m) => OnScreen(m)' \/ m \in rejected' \ rejected]_vars

\* A queued message of the current user is committed or refused, and leaves the
\* queue, unless the user changes: no restart, full pipeline or lost answer
\* leaves it waiting.
QueuedMessageSettles ==
    \A u \in Users, m \in 1..MaxMsgs :
        (engineUser = u /\ \E i \in 1..Len(queue[u]) : queue[u][i] = m)
            ~> (engineUser # u \/ ~\E i \in 1..Len(queue[u]) : queue[u][i] = m)

-----------------------------------------------------------------------------
\* The store implements the board: the queues are the outboxes, the cached
\* messages are those seen, the log is the board.
Board == INSTANCE MessageBoard WITH
    user   <- engineUser,
    posted <- Written,
    outbox <- queue,
    board  <- {log[i].msg : i \in 1..Len(log)},
    seen   <- {m \in 1..Written : cache[m] > 0}

BoardSpec == Board!BoardSpec
=============================================================================
