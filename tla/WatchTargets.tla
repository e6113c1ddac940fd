----------------------------- MODULE WatchTargets -----------------------------
(***************************************************************************)
(* How the messages query is kept equal to the server's messages over a    *)
(* watch stream: targets are added to and removed from the stream, the     *)
(* WatchChangeAggregator collects what the server says of them until a     *)
(* global snapshot, the result goes to the local store and to the query's  *)
(* View, and a document the cache holds but the server no longer lists for *)
(* the query is "in limbo" until a target of its own has told its fate.    *)
(*                                                                         *)
(* Every client action is one task of the Firestore worker queue.  The     *)
(* client's side of the stream is one record (remote), so that a handler   *)
(* that sends several requests is a composition of functions on it.        *)
(* The server is external: what it may answer is what the client's code    *)
(* is written for.  Documents are added, edited and deleted by others and  *)
(* added by this client.                                                   *)
(***************************************************************************)
EXTENDS Naturals, Sequences, FiniteSets, SequencesExt

CONSTANTS
    Docs,
    MaxLimbo,     \* max_concurrent_limbo_resolutions_; 100 in the program
    MaxNow,       \* changes of the server's documents
    Faults        \* what may go wrong, see FaultPlans: one of these is chosen

Query == 0          \* target id of the messages query; limbo targets count from 1
All   == "messages" \* what the query's target watches; a limbo target watches a document

\* How often the stream may break, the server refuse a target and the app be
\* restarted, and whether the server forgets which documents were deleted.
FaultPlans == [breaks : Nat, rejects : Nat, restarts : Nat, forgets : BOOLEAN]

\* The first version of a document is 1.
ASSUME TargetsAssumption ==
    /\ IsFiniteSet(Docs) /\ All \notin Docs
    /\ MaxLimbo \in Nat \ {0} /\ MaxNow \in Nat \ {0}
    /\ Faults \subseteq FaultPlans

VARIABLES
    server,   \* what the server stores: docs, now (its version), acked writes
    conn,     \* the stream as the server sees it: watched targets, down (messages
              \* on their way), told (the last global snapshot covers everything)
    remote,   \* RemoteStore, its aggregator and SyncEngine's limbo resolutions
    view,     \* View: synced_documents_, current_, limbo_documents_, own (mutated_keys_)
    store,    \* LocalStore: cached documents (those committed are known from an
              \* acknowledgement only), own pending writes, resume token
    left      \* the faults still to come

vars == <<server, conn, remote, view, store, left>>

None == [ver |-> 0, exists |-> FALSE]       \* absl::nullopt, or a document never seen
Blank == [out |-> 0, current |-> FALSE, changes |-> <<>>, token |-> 0, dirty |-> FALSE]

Versions == [ver : 0 .. MaxNow, exists : BOOLEAN]
Requests == [op : {"watch", "unwatch"}, id : Nat, key : Docs \cup {All}, token : 0 .. MaxNow]

TypeOK ==
    /\ server \in [docs : [Docs -> Versions], now : 0 .. MaxNow,
                   acks : UNION {[ds -> 1 .. MaxNow] : ds \in SUBSET Docs}]
    /\ conn.told \in BOOLEAN /\ DOMAIN conn.watched \subseteq Nat
    /\ remote.open \in BOOLEAN /\ remote.ok \in BOOLEAN /\ remote.next \in Nat
    /\ remote.up \in Seq(Requests)
    /\ \A t \in DOMAIN remote.listen : remote.listen[t] \in [key : Docs \cup {All}, token : 0 .. MaxNow]
    /\ \A t \in DOMAIN remote.targets : remote.targets[t].out \in Nat
    /\ remote.byKey \in [DOMAIN remote.byKey -> DOMAIN remote.resolutions]
    /\ remote.enqueued \in Seq(Docs)
    /\ view \in [synced : SUBSET Docs, current : BOOLEAN, limbo : SUBSET Docs, own : SUBSET Docs]
    /\ store.cache \in [Docs -> Versions] /\ store.mine \subseteq Docs
    /\ store.committed \subseteq Docs
    /\ store.snapshot \in SUBSET Docs /\ store.token \in 0 .. MaxNow
    /\ left \in FaultPlans

With(f, k, v) == [x \in DOMAIN f \cup {k} |-> IF x = k THEN v ELSE f[x]]
Without(f, k) == [x \in DOMAIN f \ {k} |-> f[x]]
Exists(docs)  == {d \in Docs : docs[d].exists}

\* The client that has just opened the query: it listens to it with the resume
\* token it has kept, and the stream is being started.
Listening(token) ==
    [open |-> FALSE, listen |-> With(<<>>, Query, [key |-> All, token |-> token]),
     targets |-> <<>>, updates |-> <<>>, resets |-> {}, up |-> <<>>,
     resolutions |-> <<>>, byKey |-> <<>>, enqueued |-> <<>>, next |-> 1, ok |-> TRUE]

NoStream == [watched |-> <<>>, down |-> <<>>, told |-> TRUE]

Init ==
    /\ \E s \in SUBSET Docs :
         server = [docs |-> [d \in Docs |-> IF d \in s THEN [ver |-> 1, exists |-> TRUE] ELSE None],
                   now |-> 1, acks |-> <<>>]
    /\ conn = NoStream
    /\ remote = Listening(0)
    /\ view = [synced |-> {}, current |-> FALSE, limbo |-> {}, own |-> {}]
    /\ store = [cache |-> [d \in Docs |-> None], committed |-> {}, mine |-> {},
                snapshot |-> {}, token |-> 0]
    /\ left \in Faults

-----------------------------------------------------------------------------
(* RemoteStore: targets and requests                                       *)

State(r, t) == IF t \in DOMAIN r.targets THEN r.targets[t] ELSE Blank

\* Every request on the stream is owed one response.
Request(r, op, t, token) ==
    [r EXCEPT !.targets = With(@, t, [State(r, t) EXCEPT !.out = @ + 1]),
              !.up = Append(@, [op |-> op, id |-> t, token |-> token,
                                key |-> IF op = "watch" THEN r.listen[t].key ELSE All])]

SendWatchRequest(r, t)   == Request(r, "watch", t, r.listen[t].token)
SendUnwatchRequest(r, t) == Request(r, "unwatch", t, 0)

Listen(r, t, key) ==
    LET s == [r EXCEPT !.listen = With(@, t, [key |-> key, token |-> 0])]
    IN  IF r.open THEN SendWatchRequest(s, t) ELSE s

StopListening(r, t) ==
    LET s == [r EXCEPT !.listen = Without(@, t), !.ok = @ /\ t \in DOMAIN r.listen]
    IN  IF r.open THEN SendUnwatchRequest(s, t) ELSE s

-----------------------------------------------------------------------------
(* SyncEngine: limbo resolutions                                           *)

\* One round of PumpEnqueuedLimboResolutions.
PumpOne(r) ==
    IF r.enqueued = <<>> \/ Cardinality(DOMAIN r.byKey) >= MaxLimbo THEN r
    ELSE LET d == Head(r.enqueued)
         IN  Listen([r EXCEPT !.enqueued = Tail(@), !.next = @ + 1,
                       !.resolutions = With(@, r.next, [key |-> d, received |-> FALSE]),
                       !.byKey = IF d \in DOMAIN @ THEN @ ELSE With(@, d, r.next)],
                    r.next, d)

PumpEnqueuedLimboResolutions(r) ==
    FoldLeft(LAMBDA s, d : PumpOne(s), r, r.enqueued)

TrackLimboChange(d, r) ==
    IF d \in DOMAIN r.byKey THEN r
    ELSE PumpEnqueuedLimboResolutions([r EXCEPT !.enqueued = Append(@, d)])

\* RemoveLimboTarget: without an active resolution there is nothing to stop, and
\* the queue keeps the key.
RemoveLimboTarget(d, r) ==
    IF d \notin DOMAIN r.byKey THEN r
    ELSE LET t == r.byKey[d]
             s == StopListening(r, t)
         IN  PumpEnqueuedLimboResolutions(
               [s EXCEPT !.byKey = Without(@, d), !.resolutions = Without(@, t)])

\* Mutant of UpdateTrackedLimboDocuments: documents that leave limbo are not looked at.
TrackAddedOnly(r, removed, added) == FoldSet(TrackLimboChange, r, added)

\* UpdateTrackedLimboDocuments; one query, so it holds the only reference.
UpdateTrackedLimboDocuments(r, removed, added) ==
    FoldSet(TrackLimboChange, FoldSet(RemoveLimboTarget, r, removed), added)

-----------------------------------------------------------------------------
(* View and EmitNewSnapshots                                               *)

\* The documents a client with store s shows: cached ones and its own.
Shown(s) == Exists(s.cache) \cup s.mine

\* View::UpdateLimboDocuments, only while the view is current.
LimboDocuments(v, s) ==
    IF v.current THEN Shown(s) \ (v.synced \cup v.own) ELSE v.limbo

\* SyncEngine::EmitNewSnapshots for the view v over the store s.
Emit(r, v, s) ==
    LET limbo == IF Query \in DOMAIN r.listen THEN LimboDocuments(v, s) ELSE {}
    IN  /\ view' = [v EXCEPT !.limbo = limbo]
        /\ remote' = UpdateTrackedLimboDocuments(r, v.limbo \ limbo, limbo \ v.limbo)
        /\ store' = s

\* SyncEngine::GetRemoteKeys.
RemoteKeys(r, t) ==
    IF t \in DOMAIN r.resolutions
    THEN {d \in {r.resolutions[t].key} : r.resolutions[t].received}
    ELSE IF t = Query THEN view.synced ELSE {}

-----------------------------------------------------------------------------
(* WatchChangeAggregator                                                   *)

\* A target the client still wants and whose requests have all been answered.
IsActive(r, t) == t \in DOMAIN r.listen /\ State(r, t).out = 0

\* AddDocumentToTarget and RemoveDocumentFromTarget for one target.
ChangeDocument(r, t, d, exists) ==
    LET st == State(r, t)
        known == d \in RemoteKeys(r, t)
    IN  [st EXCEPT !.dirty = TRUE,
           !.changes = IF exists THEN With(@, d, IF known THEN "modified" ELSE "added")
                       ELSE IF known THEN With(@, d, "removed") ELSE Without(@, d)]

\* Document d is now as in doc, for the targets ts among those it concerns.
HandleDocumentChange(r, ts, d, doc) ==
    LET active == {t \in ts : IsActive(r, t)}
    IN  IF active = {} THEN r
        ELSE [r EXCEPT !.updates = With(@, d, doc),
                !.targets = [t \in DOMAIN @ \cup active |->
                               IF t \in active THEN ChangeDocument(r, t, d, doc.exists) ELSE @[t]]]

SetTarget(r, t, st) == [r EXCEPT !.targets = With(@, t, st)]

TargetAdded(r, t) ==
    LET st == [State(r, t) EXCEPT !.out = @ - 1]
    IN  SetTarget(r, t, IF st.out = 0 THEN [st EXCEPT !.changes = <<>>, !.dirty = FALSE] ELSE st)

TargetRemoved(r, t) ==
    IF State(r, t).out = 1 THEN [r EXCEPT !.targets = Without(@, t)]
    ELSE SetTarget(r, t, [State(r, t) EXCEPT !.out = @ - 1])

TargetCurrent(r, t, token) ==
    IF IsActive(r, t)
    THEN SetTarget(r, t, [State(r, t) EXCEPT !.current = TRUE, !.dirty = TRUE, !.token = token])
    ELSE r

\* ResetTarget: everything the target had is removed unless it is sent again.
ResetTarget(r, t) ==
    LET keys == RemoteKeys(r, t)
    IN  SetTarget(r, t, [Blank EXCEPT !.changes = [d \in keys |-> "removed"],
                                      !.dirty = keys # {}])

TargetReset(r, t) == IF IsActive(r, t) THEN ResetTarget(r, t) ELSE r

Marked(st, kind) == {d \in DOMAIN st.changes : st.changes[d] = kind}

\* GetCurrentDocumentCountForTarget.
CurrentCount(r, t) ==
    Cardinality(RemoteKeys(r, t)) + Cardinality(Marked(State(r, t), "added"))
        - Cardinality(Marked(State(r, t), "removed"))

\* Mutant of HandleExistenceFilter: a mismatch has the query watched again, what it had stays.
FilterWithoutReset(r, t, count) ==
    IF IsActive(r, t) /\ t = Query /\ CurrentCount(r, t) # count
    THEN [r EXCEPT !.resets = @ \cup {t}] ELSE r

HandleExistenceFilter(r, t, count) ==
    IF ~IsActive(r, t) THEN r
    ELSE IF t # Query
         THEN IF count = 0 THEN HandleDocumentChange(r, {t}, r.listen[t].key, None)
              ELSE [r EXCEPT !.ok = @ /\ count = 1]
    ELSE IF CurrentCount(r, t) = count THEN r
    ELSE [ResetTarget(r, t) EXCEPT !.resets = @ \cup {t}]

\* CreateRemoteEvent, first part: a limbo target that is current and has not
\* delivered its document tells that the document does not exist.
MissingIn(r) ==
    {t \in DOMAIN r.targets :
        /\ t # Query /\ IsActive(r, t) /\ r.targets[t].current
        /\ r.listen[t].key \notin DOMAIN r.updates \cup RemoteKeys(r, t)}

\* Mutant of SynthesizeDeletes: a limbo target that is current without a document tells nothing.
SynthesizeNothing(r, ver) == r

SynthesizeDeletes(r, ver) ==
    FoldSet(LAMBDA t, s : HandleDocumentChange(s, {t}, r.listen[t].key, [ver |-> ver, exists |-> FALSE]),
            r, MissingIn(r))

\* CreateRemoteEvent, second part: the changes of the active targets.
TargetChanges(r) ==
    LET changed == {t \in DOMAIN r.targets : IsActive(r, t) /\ r.targets[t].dirty}
    IN  [t \in changed |-> r.targets[t]]

ClearPending(r) ==
    LET changed == DOMAIN TargetChanges(r)
    IN  [r EXCEPT !.updates = <<>>, !.resets = {},
           !.targets = [t \in DOMAIN @ |-> IF t \in changed
                          THEN [@[t] EXCEPT !.changes = <<>>, !.dirty = FALSE] ELSE @[t]]]

-----------------------------------------------------------------------------
(* RemoteStore and SyncEngine: a snapshot                                  *)

\* RaiseWatchSnapshot: new resume tokens, then a query whose existence filter
\* did not match is unwatched and watched again, from nothing.
UpdateTokens(r, changes) ==
    [r EXCEPT !.listen = [t \in DOMAIN @ |->
        IF t \in DOMAIN changes /\ changes[t].token # 0
        THEN [@[t] EXCEPT !.token = changes[t].token] ELSE @[t]]]

\* Mutant of Rewatch: the resume token is sent again.
RewatchWithToken(t, r) == SendWatchRequest(SendUnwatchRequest(r, t), t)

Rewatch(t, r) ==
    LET s == [r EXCEPT !.listen[t].token = 0]
    IN  SendWatchRequest(SendUnwatchRequest(s, t), t)

RewatchMismatches(r, resets) == FoldSet(Rewatch, r, resets \cap DOMAIN r.listen)

\* SyncEngine::ApplyRemoteEvent: what the limbo targets have delivered.
UpdateResolutions(r, changes) ==
    LET limbo == DOMAIN changes \cap DOMAIN r.resolutions
        Was(t) == r.resolutions[t].received
    IN  [r EXCEPT
          !.ok = @ /\ \A t \in limbo :
                        /\ Cardinality(DOMAIN changes[t].changes) <= 1
                        /\ ~Was(t) => Marked(changes[t], "modified") \cup Marked(changes[t], "removed") = {},
          !.resolutions = [t \in DOMAIN @ |->
              IF t \notin limbo THEN @[t]
              ELSE [@[t] EXCEPT !.received =
                      Marked(changes[t], "added") # {} \/ (Was(t) /\ Marked(changes[t], "removed") = {})]]]

\* LocalStore::ApplyRemoteEvent: the documents it replaces.  One without a
\* version is manufactured: access to the document is lost.
Replaced(updates) ==
    {d \in DOMAIN updates :
        LET old == store.cache[d]
            new == updates[d]
        IN  \/ new = None \/ old.ver = 0 \/ new.ver > old.ver
            \/ new.ver = old.ver /\ d \in store.committed}

\* LocalStore::ShouldPersistTargetData; less than five minutes pass between
\* two snapshots.
PersistedToken(token, change) ==
    IF change.token # 0 /\ (token = 0 \/ change.changes # <<>>) THEN change.token ELSE token

\* SyncEngine::ApplyRemoteEvent, LocalStore::ApplyRemoteEvent and View::ApplyChanges.
ApplyRemoteEvent(r, changes, updates, snapshot) ==
    LET replaced == Replaced(updates)
        r1 == UpdateResolutions(r, changes)
        s1 == [store EXCEPT !.committed = @ \ replaced,
                 !.cache = [d \in Docs |-> IF d \in replaced THEN updates[d] ELSE @[d]]]
        v1 == [view EXCEPT !.own = @ \ (replaced \ store.mine)]
        q  == changes[Query]
    IN  IF Query \notin DOMAIN changes THEN Emit(r1, v1, s1)
        ELSE Emit([r1 EXCEPT !.ok = @ /\ Marked(q, "modified") \subseteq view.synced],
                  [v1 EXCEPT !.synced = (@ \cup Marked(q, "added")) \ Marked(q, "removed"),
                             !.current = q.current],
                  [s1 EXCEPT !.token = PersistedToken(@, q), !.snapshot = snapshot])

\* OnWatchStreamChange with a global snapshot: a resume token for every active
\* target, then RaiseWatchSnapshot.
Snapshot(m) ==
    LET tokens == [remote EXCEPT !.targets = [t \in DOMAIN @ |->
                     IF IsActive(remote, t) THEN [@[t] EXCEPT !.token = m.ver, !.dirty = TRUE]
                     ELSE @[t]]]
        r == SynthesizeDeletes(tokens, m.ver)
        changes == TargetChanges(r)
    IN  ApplyRemoteEvent(RewatchMismatches(UpdateTokens(ClearPending(r), changes), r.resets),
                         changes, r.updates, m.docs)

\* SyncEngine::RemoveAndCleanupTarget: the query failed, its listener is told.
RemoveAndCleanupTarget(r) ==
    /\ remote' = UpdateTrackedLimboDocuments(r, view.limbo, {})
    /\ view' = [view EXCEPT !.limbo = {}]
    /\ UNCHANGED store

\* RemoteStore::ProcessTargetError -> SyncEngine::HandleRejectedListen.
HandleRejectedListen(t) ==
    LET r == [remote EXCEPT !.listen = Without(@, t), !.targets = Without(@, t)]
        d == remote.resolutions[t].key
    IN  IF t \notin DOMAIN remote.listen THEN UNCHANGED <<remote, view, store>>
        ELSE IF t = Query THEN RemoveAndCleanupTarget(r)
        ELSE ApplyRemoteEvent(
               PumpEnqueuedLimboResolutions(
                 [r EXCEPT !.byKey = Without(@, d), !.resolutions = Without(@, t)]),
               <<>>, With(<<>>, d, None), store.snapshot)

-----------------------------------------------------------------------------
(* The client's tasks                                                      *)

\* OnWatchStreamOpen: a new aggregator; every listen is sent again.
StreamOpens ==
    /\ ~remote.open /\ remote.listen # <<>>
    /\ remote' = FoldSet(LAMBDA t, r : SendWatchRequest(r, t), [remote EXCEPT !.open = TRUE],
                         DOMAIN remote.listen)
    /\ UNCHANGED <<server, conn, view, store, left>>

\* Mutant of StreamBreaks: the aggregator's targets survive the stream.
BreakKeepingTargets ==
    /\ remote.open /\ left.breaks > 0
    /\ left' = [left EXCEPT !.breaks = @ - 1]
    /\ conn' = NoStream
    /\ remote' = [remote EXCEPT !.open = FALSE, !.updates = <<>>, !.resets = {}, !.up = <<>>]
    /\ UNCHANGED <<server, view, store>>

\* OnWatchStreamClose with an error: the aggregator goes, the listens stay.
StreamBreaks ==
    /\ remote.open /\ left.breaks > 0
    /\ left' = [left EXCEPT !.breaks = @ - 1]
    /\ conn' = NoStream
    /\ remote' = [remote EXCEPT !.open = FALSE, !.targets = <<>>, !.updates = <<>>,
                                !.resets = {}, !.up = <<>>]
    /\ UNCHANGED <<server, view, store>>

\* The online state has become Offline while the stream was down:
\* View::ApplyOnlineStateChange.
Offline ==
    /\ ~remote.open /\ view.current
    /\ view' = [view EXCEPT !.current = FALSE]
    /\ UNCHANGED <<server, conn, remote, store, left>>

\* The bound on changes leaves room for the pending writes of this client.
Room == server.now + Cardinality({d \in store.mine : server.docs[d].ver = 0}) < MaxNow

\* The user sends a message: LocalStore::WriteLocally and EmitNewSnapshots.
SendMessage(d) ==
    /\ server.docs[d].ver = 0 /\ d \notin store.mine /\ Room
    /\ Emit(remote, [view EXCEPT !.own = @ \cup {d}], [store EXCEPT !.mine = @ \cup {d}])
    /\ UNCHANGED <<server, conn, left>>

\* SyncEngine::HandleSuccessfulWrite: the write has been committed.  Unless
\* the watch stream was faster, the acknowledged document is cached, and the
\* view goes on holding its own one (View::ComputeDocumentChanges sees no change).
WriteAcknowledged(d) ==
    /\ d \in DOMAIN server.acks
    /\ server' = [server EXCEPT !.acks = Without(@, d)]
    /\ LET done == [store EXCEPT !.mine = @ \ {d}]
       IN  IF store.cache[d].ver # 0
           THEN Emit(remote, [view EXCEPT !.own = @ \ {d}], done)
           ELSE Emit(remote, view,
                     [done EXCEPT !.committed = @ \cup {d},
                        !.cache[d] = [ver |-> server.acks[d], exists |-> TRUE]])
    /\ UNCHANGED <<conn, left>>

\* The app is killed and opened again: what is on the disk stays, the remote
\* keys of the query's target included; the new View is built from it.
Restart ==
    /\ left.restarts > 0 /\ Query \in DOMAIN remote.listen
    /\ left' = [left EXCEPT !.restarts = @ - 1]
    /\ conn' = NoStream
    /\ remote' = Listening(store.token)
    /\ view' = [view EXCEPT !.current = FALSE, !.limbo = {}, !.own = store.mine]
    /\ UNCHANGED <<server, store>>

Receive ==
    /\ conn.down # <<>>
    /\ conn' = [conn EXCEPT !.down = Tail(@)]
    /\ LET m == Head(conn.down)
           Aggregate(r) == remote' = r /\ UNCHANGED <<view, store>>
       IN  \/ m.type = "document" /\ Aggregate(HandleDocumentChange(remote, m.ids, m.key, m.doc))
           \/ m.type = "added"    /\ Aggregate(TargetAdded(remote, m.id))
           \/ m.type = "removed"  /\ Aggregate(TargetRemoved(remote, m.id))
           \/ m.type = "current"  /\ Aggregate(TargetCurrent(remote, m.id, m.token))
           \/ m.type = "reset"    /\ Aggregate(TargetReset(remote, m.id))
           \/ m.type = "filter"   /\ Aggregate(HandleExistenceFilter(remote, m.id, m.count))
           \/ m.type = "snapshot" /\ Snapshot(m)
           \/ m.type = "rejected" /\ HandleRejectedListen(m.id)
    /\ UNCHANGED <<server, left>>

-----------------------------------------------------------------------------
(* The server                                                              *)

Store(d, doc) == [server EXCEPT !.docs[d] = doc, !.now = @ + 1]

\* A pending write reaches the server, which commits it.
Commit(d) ==
    /\ d \in store.mine /\ server.docs[d].ver = 0
    /\ server' = [Store(d, [ver |-> server.now + 1, exists |-> TRUE]) EXCEPT !.acks = With(@, d, server.now + 1)]
    /\ UNCHANGED <<conn, remote, view, store, left>>

\* Others add, edit or delete a message.
OthersWrite(d) ==
    /\ Room
    /\ \/ /\ server.docs[d].exists \/ (server.docs[d].ver = 0 /\ d \notin store.mine)
          /\ server' = Store(d, [ver |-> server.now + 1, exists |-> TRUE])
       \/ /\ server.docs[d].exists
          /\ server' = Store(d, [ver |-> server.now + 1, exists |-> FALSE])
    /\ UNCHANGED <<conn, remote, view, store, left>>

Watches(key, d) == key \in {All, d}

DocumentMessage(d, ids) == [type |-> "document", key |-> d, ids |-> ids, doc |-> server.docs[d]]

\* One message for each document of ds, for the target id.
Documents(id, ds) == SetToSeq({DocumentMessage(d, {id}) : d \in ds})

\* The server adds a target.  It sends the documents changed since the resume
\* token; with a token it may have forgotten what was deleted since, and then
\* says how many documents there are; or it gives the token up.
Serve ==
    /\ remote.up # <<>>
    /\ LET q == Head(remote.up)
           exist == {d \in Exists(server.docs) : Watches(q.key, d)}
           newer == {d \in Docs : Watches(q.key, d) /\ server.docs[d].ver > q.token}
           Message(type) == <<[type |-> type, id |-> q.id]>>
           current == <<[type |-> "current", id |-> q.id, token |-> server.now]>>
           filter  == <<[type |-> "filter", id |-> q.id, count |-> Cardinality(exist)]>>
           Answer(ms) == /\ conn' = [conn EXCEPT !.down = @ \o Message("added") \o ms, !.told = FALSE,
                                       !.watched = With(@, q.id, [key |-> q.key, sent |-> server.now])]
                         /\ UNCHANGED left
       IN  \/ /\ q.op = "unwatch"
              /\ conn' = [conn EXCEPT !.watched = Without(@, q.id), !.down = @ \o Message("removed")]
              /\ UNCHANGED left
           \/ q.op = "watch" /\ q.token = 0 /\ Answer(Documents(q.id, exist) \o current)
           \/ q.op = "watch" /\ q.token # 0 /\ Answer(Documents(q.id, newer) \o current)
           \/ /\ q.op = "watch" /\ (q.key # All \/ (q.token # 0 /\ left.forgets))
              /\ Answer(Documents(q.id, newer \cap exist) \o current \o filter)
           \/ q.op = "watch" /\ q.token # 0 /\ Answer(Message("reset") \o Documents(q.id, exist) \o current)
           \/ /\ q.op = "watch" /\ left.rejects > 0
              /\ left' = [left EXCEPT !.rejects = @ - 1]
              /\ conn' = [conn EXCEPT !.down = @ \o Message("rejected")]
    /\ remote' = [remote EXCEPT !.up = Tail(@)]
    /\ UNCHANGED <<server, view, store>>

\* The server brings every target it watches up to date, and says so.
Lacks(t, d) == Watches(conn.watched[t].key, d) /\ conn.watched[t].sent < server.docs[d].ver
Behind == {d \in Docs : \E t \in DOMAIN conn.watched : Lacks(t, d)}

SendSnapshot ==
    /\ conn.watched # <<>> /\ (Behind # {} \/ ~conn.told)
    /\ LET ids(d) == {t \in DOMAIN conn.watched : Lacks(t, d)}
       IN  conn' = [watched |-> [t \in DOMAIN conn.watched |-> [conn.watched[t] EXCEPT !.sent = server.now]],
                    down |-> conn.down \o SetToSeq({DocumentMessage(d, ids(d)) : d \in Behind})
                              \o <<[type |-> "snapshot", ver |-> server.now, docs |-> Exists(server.docs)]>>,
                    told |-> TRUE]
    /\ UNCHANGED <<server, remote, view, store, left>>

CommitSome == \E d \in Docs : Commit(d)
AckSome    == \E d \in Docs : WriteAcknowledged(d)

Progress == StreamOpens \/ Serve \/ SendSnapshot \/ CommitSome \/ AckSome \/ Receive

\* Something the client or a connected server has to do.
Busy == \/ ~remote.open /\ remote.listen # <<>>
        \/ remote.up # <<>> \/ conn.down # <<>> \/ server.acks # <<>>
        \/ conn.watched # <<>> /\ (Behind # {} \/ ~conn.told)
        \/ \E d \in store.mine : server.docs[d].ver = 0

Next == \/ StreamOpens \/ StreamBreaks \/ Offline \/ Restart \/ Receive
        \/ \E d \in Docs : SendMessage(d)
        \/ AckSome \/ CommitSome
        \/ \E d \in Docs : OthersWrite(d)
        \/ Serve \/ SendSnapshot

Spec == Init /\ [][Next]_vars

\* The client retries the stream and runs its tasks; a connected server answers,
\* commits what it is sent and goes on sending snapshots.  Nobody has to write,
\* and failures are bounded.
FairSpec == Spec /\ WF_vars(Progress)

\* The same, with Busy written for ENABLED <<Progress>>_vars, which TLC evaluates
\* much more slowly.
BusySpec == Spec /\ ([]<>~Busy \/ []<><<Progress>>_vars)

-----------------------------------------------------------------------------
(* Properties                                                              *)

Watching == Query \in DOMAIN remote.listen

\* SyncState::Synced: what the user is shown is not marked as from the cache.
Synced == Watching /\ view.current /\ view.limbo = {}

\* A view that says it is synced shows exactly the messages of the last global
\* snapshot, besides those it still holds as this client's own: not one the
\* server had deleted, not one too few.
SyncedIsTheSnapshot == Synced => Shown(store) \ view.own = store.snapshot \ view.own

\* No HARD_ASSERT of the aggregator, the sync engine, the view or the remote
\* store fails: a limbo target never reports a change before an add, no
\* document is modified that the view does not know, no listen is stopped twice.
NoAssertFails == remote.ok

\* The responses a target waits for are exactly the requests and the answers
\* on their way, so a target is never ignored for ever, nor listened to while
\* an old answer may still come.
InFlight(t) ==
    Cardinality({i \in DOMAIN remote.up : remote.up[i].id = t})
      + Cardinality({i \in DOMAIN conn.down :
            conn.down[i].type \in {"added", "removed", "rejected"} /\ conn.down[i].id = t})
OutstandingIsInFlight ==
    \A t \in DOMAIN remote.listen : remote.open => State(remote, t).out = InFlight(t)

\* Sync engine, aggregator and stream agree on what is listened to and waited for.
AggregatorInStep == TypeOK /\ NoAssertFails /\ OutstandingIsInFlight

\* While the view is current, every document in limbo is being resolved or
\* waits for its turn; none is forgotten, so none keeps the view from being synced.
LimboIsResolved ==
    view.current => view.limbo \subseteq DOMAIN remote.byKey \cup Range(remote.enqueued)

\* A resolution is for a document in limbo: none is left running when its
\* document has left limbo, or when the query is gone.
ResolutionsAreNeeded ==
    /\ DOMAIN remote.byKey \subseteq view.limbo
    /\ \A t \in DOMAIN remote.listen \ {Query} :
          t \in DOMAIN remote.resolutions /\ remote.byKey[remote.resolutions[t].key] = t

\* Documents in limbo and their resolutions belong to each other.
ResolutionsMatchLimbo == LimboIsResolved /\ ResolutionsAreNeeded

\* When nothing fails any more the query becomes synced and stays so, equal to
\* the server's messages but for those it holds as its own, with every write
\* acknowledged and no limbo target left on the stream.
Agrees == /\ Synced /\ store.mine = {} /\ DOMAIN remote.listen = {Query}
          /\ Shown(store) \ view.own = Exists(server.docs) \ view.own
EventuallyAgrees == <>[](Agrees \/ ~Watching)

\* "... as Watch will send us the same document again" (ShouldWaitForSyncedDocument):
\* the view holds a document as its own, with pending writes, only until the
\* watch stream sends what was acknowledged.
OwnIsSentAgain == <>[](view.own \subseteq store.mine \/ ~Watching)

\* "Clear the resume token for the query, since we're in a known mismatch
\* state ... so that we get a full update" (RaiseWatchSnapshot): the query is
\* resumed only with remote keys that hold every document which has not
\* changed since the token, because the server will not send these again.
ResumedIsComplete ==
    \A i \in DOMAIN remote.up :
        LET q == remote.up[i]
        IN  q.op = "watch" /\ q.id = Query /\ Watching
              => {d \in Exists(server.docs) : server.docs[d].ver <= q.token} \subseteq view.synced

\* The comment on enqueued_limbo_resolutions_: "the keys of documents that are
\* in limbo for which we haven't yet started a limbo resolution query".
EnqueuedAreInLimbo == Range(remote.enqueued) \subseteq view.limbo
===============================================================================
