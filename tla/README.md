# Verification of the iOS practice projects

This directory holds TLA+ models of the programs under `src/`, the TLC
configurations that check them on small instances, and proofs, checked by TLAPS,
that hold for every instance. `PROJECT.json` lists the components, the runs, the
mutants (one plausible bug per property, which TLC must find), the source lines
behind each definition, the hazards of the code and the theorems.

The repository is a course log: 23 independent iOS apps. Most of them are one
screen with a formula or a picture behind a button. One is a distributed system:
**Flash-Chat** (project 14), a chat over FirebaseAuth and Firestore, whose pods
are vendored and in the repository. Its hard behaviour is not in the 500 lines of
Swift but in what they start: three serial queues, a persisted queue of unsent
messages per account, two streams to a server, and screens that are drawn from
differences. The project therefore models Flash-Chat together with the parts of
the pods its calls reach, then the small apps that have a protocol of their own.

## 1. Inventory

### Flash-Chat

| Part | State it keeps | Operations | Talks to |
|---|---|---|---|
| Screens (`Controllers/`, `Service/`, `Manager/`) | navigation stack, form fields, alert, array of messages | log in, register, send, log out, answers of both services, snapshot listener | FirebaseAuth (requests, current user), Firestore (add a document, listen) |
| FirebaseAuth (`FIRAuth.m`, `FIRUser.m`) | current user, keychain item, tokens | sign in, create user, sign out, sign out by force, get a token | its own work queue; posts notifications and callbacks to the main queue |
| Credentials provider (`firebase_credentials_provider_apple.mm`) | user, `token_counter` | auth notification, `GetToken` | main queue in, Firestore worker queue out |
| Sync engine, event manager (`sync_engine.cc`, `event_manager.cc`) | current user, query views, listeners | write, listen, change of user, remote event, answers of writes | everything below, on one worker queue |
| Local store (`local_store.cc`, `leveldb_mutation_queue.cc`, ...) | mutation queue per user, document cache, target's resume token: all persisted | write locally, acknowledge, reject, remote event, change of user | LevelDB transactions |
| Remote store (`remote_store.cc`) | write pipeline (at most 10), streams, online state tracker | fill pipeline, answers, ends of streams, restart of the network | streams, sync engine |
| Streams (`stream.cc`, `write_stream.cc`, `watch_stream.cc`, `grpc_*.cc`) | state, `close_count`, back-off, timers | start, stop, idle, back off | credentials provider, gRPC |
| View and listener (`view.cc`, `query_listener.cc`) | document set, sync state; whether the first event was raised | compute changes, apply, online state | sync engine, chat screen |
| Watch targets and limbo documents (`remote_event.cc`, `remote_store.cc`, `sync_engine.cc`) | targets on the stream, changes collected for the next snapshot, queue of documents in limbo and their resolutions | watch, unwatch, document change, target change, existence filter, snapshot, refused target | watch stream, local store, view |
| gRPC stream (`grpc_stream.cc`, `grpc_completion.cc`, `datastore.cc`) | completions, buffered writes, whether the call is finished | start, write, finish, write and finish, completions | gRPC; a poller thread, the worker queue |
| Online state (`online_state_tracker.cc`) | state, failures, ten-second timer | start, failure, success of the watch stream | remote store, event manager |

What is hard here: a user change races a token on its way through three queues;
acknowledgments carry no name; a write whose answer was lost is sent again; the
answer of a form arrives after its form was left; the keychain can fail; a kill
can come between any two persisted steps; a listener must say "nothing" exactly
once when there is nothing. Requests for a target cross the server's answers to the one
before; the server may have forgotten what was deleted; a stream is destroyed while a
second thread is about to run its callbacks, and the worker blocks for them.

What makes it correct: messages go out under their author's account, in order,
and none is lost; the cache and the resume token agree; the screen is the cache
plus the user's own unsent messages; a chat is open only while somebody is signed
in; every form, write and listener gets an answer; a query that says it is synced is
the server's snapshot; a destroyed stream leaves nothing behind at gRPC.

### The other apps

| App | State and operations | What can go wrong | Here |
|---|---|---|---|
| InspoQuotes (16) | StoreKit's payment queue, a flag in UserDefaults, the table; buy, restore, observe | a kill between storing the flag and finishing the transaction, redelivery, failed and deferred payments | `QuoteStore` |
| Calculator (18) | label text, "finished typing", remembered operation | two `fatalError`s that a sequence of keys can reach | `Calculator` |
| Todoey (15) | Realm results (live), table rows, filter | writes fail after rows were inserted; rows deleted inside the write; a filter of a filter | `Todoey` |
| Quizzler (09) | question number, score, disabled buttons, delayed feedback | taps during the half second of feedback | `Quizzler` |
| Clima (12), ByteCoin (13) | labels; overlapping requests | answers out of order; a missing `return` after an error | `WebLookup` |
| Egg Timer (03) | timer, progress, delayed updates of the bar | a second start while one counts; the last second; a late update | `EggTimer` |
| WhatFlower (20) | image, classification, Wikipedia request | answer for an older image | not modelled |
| AR-Ruler (22) | dots, text node, measurement | third tap, missing plane | not modelled |
| Destini (07) | story table | an edge out of the table | not modelled |
| BMI-Calculator (10), Tipsy (11) | formulas of one screen | floating-point boundaries | not modelled |
| ARDicee (21), SeeFood (19) | scene graph; one classification | nothing that WhatFlower and AR-Ruler do not have | not modelled |
| I Am Rich, I Am Poor, AutoLayout, Dicee, Magic-8-Ball, Xylophone, Calculator-Layout, playgrounds (00-06, 08, 17) | none, or one random picture | nothing | not modelled |

## 2. Modules

| Module | Models | Kind |
|---|---|---|
| `CredentialHandoff` | how the signed-in user reaches the write stream | detailed |
| `CredentialHandoffProofs` | its four theorems | proofs |
| `MessageBoard` | what Firestore promises to the app | abstract |
| `MessageStore` | local store, write pipeline, write stream, server | detailed; implements `MessageBoard` |
| `MessageView` | view, listeners, online state, watch stream | detailed; composed with `MessageBoard` (`EXTENDS`) |
| `WatchTargets` | watch targets, change aggregator, limbo resolutions, resume token, the server's listing | detailed |
| `ByteStream` | what one gRPC stream promises its owner | abstract |
| `GrpcStream` | one gRPC call with its completions, poller and worker | detailed; implements `ByteStream` |
| `ChatSession` | forms, FirebaseAuth, keychain, navigation, notifications | detailed |
| `ChatScreen` | one chat's array of messages, its reloads and rows | detailed |
| `QuoteStore` | InspoQuotes | detailed |
| `Calculator` | the keypad | detailed |
| `WebLookup` | the lookups of Clima and ByteCoin | detailed |
| `EggTimer`, `Quizzler`, `Todoey` | the apps of these names | detailed |
| `MCApps` | `ChatScreen`, `QuoteStore`, `Calculator`, `WebLookup`, `EggTimer`, `Quizzler`, `Todoey`, one at a time | instance |
| `MessageStoreProofs`, `MessageViewProofs`, `WatchTargetsProofs`, `GrpcStreamProofs`, `ChatSessionProofs` | the theorems about the module of that name | proofs |
| `WatchQueryProofs` | what the query of `WatchTargets` knows when it is resumed, which documents are being resolved, what a synced view shows | proofs |
| `AppsProofs` | the theorems about the small apps, as `MCApps` puts them together | proofs |
| other `MC*` | accounts, screens and fault plans | instances |

How they fit together. `ChatSession` is the app and the auth side: it decides who
is signed in and posts notifications. `CredentialHandoff` takes such a notification
from FirebaseAuth to the sync engine and the stream. `MessageStore` starts where
that ends: a stream opens with the token of the sync engine's account, which is the
property `StreamHasOwnersToken` that `CredentialHandoff` proves; so every commit
carries `engineUser`. `MessageStore` implements `MessageBoard`, and `MessageView`
adds to each step of the board the snapshot that the sync engine emits for it: what
is checked of the views holds for whatever implements the board, the store included.
`MessageView` takes for granted that a reachable server brings the client up to date;
`WatchTargets` is how that comes about for the one query of the app, target by target.
`GrpcStream` is below both streams: what `CredentialHandoff`, `MessageStore` and
`WatchTargets` call the end of a stream is the report it makes, at most once, after
messages that went out in order. That is `ByteStream`, which it implements.
`ChatScreen` takes over where a listener of `MessageView` raises an event: the event is
a block of the main queue.

### CredentialHandoff

Three serial queues are three sequences: `asks` (auth work queue), `mainQueue`,
`workerQueue`. A token request goes `RequestCredentials` (worker) →
`GetTokenForcingRefresh` (auth queue, captures the user) → `PostToken` (when the
token, cached or refreshed, is there; tokens of several requests overtake each other,
so `fetches` is a set) → `AcceptToken` or `RetryToken` (main queue, compares
`token_counter`) → `OpenStream`, `TokenFails` or `DropResume` (worker, compares
`close_count`). A change of user goes `UpdateCurrentUser` → `RunNotification` →
`HandleCredentialChange`. Meanwhile the stream fails, is refused, idles out, is
restarted by the connectivity monitor, gets writes and drains.

Abstracted: a token is its user; the contents of the mutation queue are whether it
is empty; `Close` and the `OnWriteStreamClose` it calls are one worker operation, as
in the code; between creating the gRPC stream and its handshake the stream counts as
open, which makes `StreamHasOwnersToken` stronger. `unsent` changes only for the
engine's account. `WriteMutations` asks for a user because `sendPressed` returns when
`currentUser?.email` is nil. Firestore is created with the first chat, while earlier
changes of the user may still wait on the main queue to be announced (`Announcements` in
`Init`; they count toward the bound): the provider then hears of users that are gone.

TLC showed something about the code that is worth knowing: with either of the two
counter checks taken out of the model, the other one still keeps the accounts apart.
Every notification that changes `token_counter` also enqueues a restart that changes
`close_count` before a stale answer can be used; and an answer that was fresh on the
main queue reaches the worker ahead of the next change of user. What only
`close_count` prevents is a second answer for one start (`OneRequestWhileStarting`),
which runs into an assertion of `ResumeStartWithCredentials`.

### MessageBoard and MessageStore

Messages are numbered in the order they were written, as batch ids are. `queue` is
one mutation queue per account and persisted, `pipeline` the part of it handed to the
stream, `wire` the writes sent and not executed, `replies` the answers on their way
(version 0: an error status, which ends the stream), `late` the writes of ended
streams that the server may still execute, `log` the server's commits. A version is a
position in `log`. `cache` holds the version of each cached document and `watched` the
resume token, both persisted.

`HandleCredentialChange(u)` also stands for what does the same to this state: a
change of token of the same account, a change of connectivity, and a restart of the
app, which loses exactly what `RestartNetwork` rebuilds (pipeline, stream, answers).
A rejected write is matched to the pipeline's first entry like an acknowledged one.

Abstracted: stream tokens (resuming a write stream changes nothing the properties
tell apart), transforms of field values, indexes, garbage collection; existence
filters and limbo documents, which exist for deleted or filtered documents: the app
only adds documents and its query has neither filter nor limit. The server is
external: it executes the writes of a stream in order, may refuse any, and answers
nothing on a broken stream.

### MessageView

The view is computed from differences (`ComputeDocumentChanges(keys)`), and so are
the affected keys of a user change; the property says that the result is nevertheless
the whole `Screen`. Each chat screen attaches its own listener; the app never removes
one (`ChatViewController` keeps no registration), hence a set of screens. The online
state has the failures, the timer and the three triggers of the code.

Abstracted: metadata-only changes (the listener does not ask for them), limbo
resolution (in `WatchTargets`), the order of documents (by date, which `Screen` does not tell apart). The
security rules are external, so `HandleRejectedListen` may happen whenever the watch
stream is up.

### WatchTargets

Every client action is one task of the worker queue. `remote` is the state of the client's
side as one record (targets with their resume tokens, requests on their way, the
aggregator's `TargetState`s, the enqueued and active limbo resolutions), so that a handler
which stops one target and starts another is a composition of functions on it, as it is a
chain of calls in the code: `UpdateTrackedLimboDocuments` folds `TrackLimboChange` and
`RemoveLimboTarget`, each of which pumps the queue. `Receive` is the switch on the watch
change; `Snapshot` is `RaiseWatchSnapshot` with what it calls down to the view: clear the
pending changes, watch mismatched targets again without a token, apply the event to the
local store, emit the view's new limbo documents. A failed `HARD_ASSERT` clears
`remote.ok`.

The server is external: it adds a target with everything, with what changed since the
token, with a reset, or with a count when it has forgotten deletions, or refuses it; it
sends what it lacks and then a snapshot; messages of one stream arrive in order. Other
clients add, edit and delete; this one adds. The faults are chosen as a plan (`Faults`):
breaks, refusals, restarts, and whether deletions are forgotten.

Abstracted: a document is its version and whether it exists; a target is the query or one
document; a resume token is the version it stands for; an existence filter is a count, which
is all this version of the client reads of it; documents of the query are not evicted
from the cache.

### ByteStream and GrpcStream

`ops` are the operations given to gRPC, each at `grpc` or taken `off` its queue.
`Poll` is the poller's thread up to fulfilling the promise of a completion and
`PollerEnqueues` the rest of `Complete`: the worker may wake up in between, which is the
interleaving the class is about. `RunTask` runs a completion's callback, or nothing when it
was cancelled. To finish, the worker cancels every callback (`CancelAll`), cancels the call
and blocks (`worker.at`) until every operation is off the queue; `WriteAndFinish` first
waits for a last write, but only so long. gRPC is external: it gives operations back in any
order, successful or not, and all of them once the call is dead.

Abstracted: the contents of messages (they are numbered), the connection below the call,
the time the last write is waited for (the worker may wake up at any moment).

### ChatSession

`requests` are sign-ins and registrations (the two services differ only in the call),
each with the form that sent it. `AnswerArrives` is the decorated callback on the auth
queue: it saves the user, makes it current, and posts the notification and then the
form's callback to `mainQueue`. `RunCallback` is the form's completion with its weak
reference: a form that was left does nothing, a form under an open chat pushes
another one. `LogOutPressed` waits for `signOut`, which fails when the keychain does.
`SignOutByForce` is what an invalid token causes; it ignores the keychain's failure.
`announced` is the user Firestore last heard of, `currentUser` the one the text of the
sender is read from. A session is named by its request: signing in again with the same
account is a new session, as it is for FirebaseAuth's tokens.

`hasty` is a history variable: requests that were not alone, or whose form was left
before the answer. It separates what the code guarantees to a person who waits for an
answer from what may happen to one who does not.

### ChatScreen

One screen: `mainQueue` holds the listener's events and the reloads that `didSet` posts,
twice per event (`removeAll`, assignment). `cells` is the table: one entry per row it
counted at the last reload, 0 until the row's cell is made. `CellForRow` may come at any
time, also between an event and its reloads, and reads `messages[row]`. `UITableView` is
external: it refuses to scroll to row -1, and Swift traps on an index out of range; both
end the app (`crash`).

### QuoteStore

`updatedTransactions` is two steps for a transaction that unlocks the quotes: `Show`
(flag, append, reload) and `FinishShown`; `Killed` may come between, and StoreKit
delivers again. StoreKit is external: it charges, refuses, defers, restores.

### Calculator

A text is reduced to three facts (has digits, how many dots, a non-zero fraction)
which decide whether `Double(text)` accepts it and whether it is whole; a result of
the model is whole or not. The two `fatalError`s are values of `crash`.

### WebLookup, EggTimer, Quizzler, Todoey

`WebLookup`: `Fetch` starts a task of URLSession; its handler runs in any order
(`AnsweredWell`, `AnsweredBadly`, `Unanswered`) and posts its result to the main queue.
Clima prints a failure, ByteCoin shows it. The loaders of both apps are the same code.

`EggTimer`: a press invalidates the timer before it makes the next one; a tick computes the
progress and the bar shows it in a later block, which the run loop may serve after further
ticks or a press.

`Quizzler`: a tap is a finger put down and lifted. Buttons that are disabled refuse new
touches; whether UIKit (external) still delivers the touch of a second finger that is
already on another button is left open, and `OneAnswerEach` is about one finger.

`Todoey`: the model has the rows each table has counted and the rows Realm has; UIKit
(external) refuses an update that does not account for the difference, and Realm (external)
a row beyond its results (`AskMissingRow`). A write that fails when it is committed changes
nothing, as Realm promises; the code prints the error. `reloadData` of a new item is called
inside the write: the table counts there, or later when it is laid out, and after a write
that fails it may have counted an item that is not there.

## 3. Runs

The properties are stated, with the code they are about, at the end of each module. Some
are conjunctions of named parts, the module's type invariant among them, so that a run has
one property for each question. For every property of a passing run, `PROJECT.json` names
a mutant of one definition under which TLC finds the property violated with the same
bounds, so none of them holds because its case never arises.

| Run | Bounds | Distinct states | What it shows |
|---|---|---|---|
| `handoff` | 2 accounts, 2 changes of user, 1 token error or end of stream | 231,000 | an open stream has the token of the engine's account; the engine catches up with FirebaseAuth; one request per start; a waiting message gets an open stream |
| `store` | 2 accounts, 3 messages, 4 commits, 2 breaks, restarts or changes, pipeline of 2 | 196,000 | the pipeline is a prefix of the queue and the answers match it; commits are under their author and in order; nothing is lost; cache and resume token agree; a queued message settles; `MessageStore` implements `MessageBoard` |
| `view` | 2 accounts, 2 screens, 2 messages, 3 failures or changes | 276,000 | screens show cache plus own messages; assertions of the online state tracker; a listener waits only for a reason; every screen is drawn or told an error |
| `session` | 3 sign-ins, 2 forms, 1 restart | 120,000 | chats only for the signed-in; keychain and current user agree; the sender of a message is its queue's owner; every waiting form is answered |
| `watch` | 2 documents, 3 versions, 2 resolutions; 1 break with a restart, or 1 break with a refused target and a server that forgets | 206,000 | no assertion fails and no answer of a target's former life is counted; a synced view is the snapshot; limbo documents and resolutions belong together; a resumed query misses nothing; in the end query and server agree |
| `grpc` | 3 writes, 3 reads | 56,000 | one operation of each kind at gRPC; a destroyed stream leaves nothing behind; the worker comes back; a dead call is noticed; `GrpcStream` implements `ByteStream` |
| `apps` | 3 documents and events, 1 malformed; 3 transactions and launches; all keys, with two dots; 3 lookups; eggs of 1 and 3 ticks, 3 presses; 3 buttons and questions; 2 categories, 3 items, 2 failed writes | 96,000 | the small apps, one at a time: see the properties of `MCApps` |
| `calculator` | two dots | | finding 1 |
| `lookup` | 2 lookups | | finding 2 |
| `watch_restart` | 2 documents, a break, a restart, a server that forgets | | finding 3 |
| `watch_own` | 1 document, no fault | | finding 4 |
| `limbo_queue` | 2 documents, 1 resolution at a time | | finding 5 |

Why the bounds are enough. The hazards of the handoff need one token on its way and a
change of user past it, with a second change back to the account it was asked for, and one
end of the stream for the close count. Two accounts suffice because a token is either the
owner's or not. In the store, a wrong match needs two writes in the pipeline and one
of another account or to refill it; a write executed late and again needs one commit more
than there are messages; an account that goes and comes back needs two restarts. In the
view, differences go wrong with one own and one foreign message. In the session, two forms
are the current one and one that was left, and two requests are one that is answered late.
For the watch targets, one document may be in limbo while the other is listed, and three
versions are an addition, an edit and a deletion; a limit of two resolutions is never
reached with two documents, and the limit of one is the run `limbo_queue`. A gRPC stream
buffers the second write behind the first, and a third one behind that. On the chat screen,
two events and the reloads of the first can overlap and a third one can shrink the list
again. A purchase, its redelivery in a second launch and a restore next to it need three
transactions and two launches. Of three lookups one is answered badly between two good
ones; three presses are two eggs given up. A bound only limits how often something happens,
never which of its outcomes. No run uses symmetry: each checks liveness as well as safety.

`apps` puts seven models in one run: `app` is chosen in the initial state and only that
app's variables change, so the states are the sum of the seven, not the product.

`CHECK_DEADLOCK FALSE` is in all configurations: the models stop when their bounded
counters are used up, and the programs when nobody touches them.

## 4. Fairness

Invariants are checked under the fair specification too, which has the same reachable
states; runs that only look for a state use `Spec`.

- *Serial queues run their blocks* (`AuthQueue`, `MainQueue`, `Worker`; `Answers`,
  `MainQueue`; `OnWriteStreamMutationResult`, ...): dispatch queues and the Firestore
  executor are FIFO and run every block. Weak fairness is enough because a block stays at
  the head until it runs.
- *Requests are answered*: a token request and a sign-in end at the latest with the
  timeout of the HTTP fetcher, as an error. Fairness does not choose the outcome.
- *Timers fire* (`BackoffElapsed`, `OnlineStateTimeout`): delayed operations of the
  worker queue.
- *A server with a write on an open stream answers* (`ServerCommits \/ ServerRefuses`);
  streams may break, but `MaxRestarts` times. The code guarantees no more: on a network
  that breaks every stream nothing settles.
- *A reachable server brings a listening client up to date* (`CatchUp`), and *gRPC's
  keep-alive ends a stream over a dead connection* (`DeadConnection`;
  `grpc_connection.cc:265` sets it).
- *The watch stream is retried, its tasks run, and a connected server answers, commits and
  sends snapshots* (`Progress` of `WatchTargets`). `BusySpec` is `FairSpec` with the
  enabledness of `Progress` written out, which TLC evaluates faster; that `Busy` is it was
  checked on a smaller instance.
- *The threads of a gRPC stream run, and gRPC gives every operation of a dead call back*
  (`Worker`, `PollerEnqueues`, `call = "dead" /\ GrpcReturns`): the promise the comment of
  `FastFinishCompletionsBlocking` rests on. A live call may keep an operation for ever.
- *Timers and delayed blocks of the small apps fire* (`CountDown`, `ShowProgress`,
  `DidFinishFeedback`).
- *StoreKit delivers to a running app and the app is opened again* (`Observe`,
  `ViewDidLoad`). The store may never answer a payment.

Nothing is assumed of the person: no press, sign-in, send or log out is fair.

## 5. Proofs

Every safety property that a passing run checks, but for `SyncedIsTheSnapshot` of
`WatchTargets`, is a theorem of the specification, and so are both action properties and
the three refinements. They hold for any value of the constants that meets the named
assumptions of the models: the constants have their types, nobody is not an account, there
are finitely many documents, the server makes at least its first version, an egg takes a
second at least and a quiz has a question. Two properties of `WatchTargets` need a premise
besides, on the faults that are planned or on the limit of limbo resolutions, which the
theorem states and without which it is false or not known to be true. Each module of proofs
is laid out alike: the parts of an inductive invariant with what they say, lemmas on
sequences and sets, one lemma per action, one step in it per part that the action can
disturb, and the theorems, which take the invariant to the properties.

### CredentialHandoff

`CredentialHandoffProofs` proves, for any set of accounts and any bounds, from the one
assumption `HandoffAssumption` (the constants have their types and nobody is not an
account):

- `TypeCorrect`: `Spec => []TypeOK`;
- `OwnersToken`: `Spec => []StreamHasOwnersToken`;
- `EngineCatchesUp`: `Spec => []EngineFollowsAuth`;
- `OneRequestPerStart`: `Spec => []HandoffInStep`.

`StreamHasOwnersToken` is not inductive: nothing in it speaks of the tokens on their
way. `HandoffInv` adds what does, queue by queue:

- `ProviderTracksAuth`, `EngineTracksProvider`: the *last* notification (credential
  change) in a queue names the user at the queue's source, and if there is none the
  user at its end already is that user. `EngineFollowsAuth` is the two together.
- `RequestsArePast`, `CountersArePast`: no token under way carries a counter of the
  future, and while the stream is down its close count is strictly ahead of all of
  them, so a start gets a count of its own.
- `FetchesAreOfProvider`, `AnswersAreOfProvider`: a token with the current
  `token_counter` is of the provider's user, or a notification *ahead of it* will make
  it stale.
- `ResumesAreOfEngine`: a token with the current `close_count` on the worker queue is
  of the engine's user, or a credential change *ahead of it* will close the stream.

When `AcceptToken` moves a token from the main queue to the worker queue, the
fourth gives the provider's user, `EngineTracksProvider` the engine's or a change ahead,
and so the fifth; when `OpenStream` takes it from the head, nothing is ahead of it.
The proof has one lemma per queue (`StreamStepKeepsInv`, `WorkerStepKeepsInv`,
`AuthStepKeepsInv`, `MainStepKeepsInv`), one step per action in it, and two lemmas on
`Append` and `Tail` that all of them use. `AnnouncementsTyped` is what the initial state
needs: the last of the notifications that wait names the current user.

`OneRequestWhileStarting`, the other half of `HandoffInStep`, has an invariant of its own:
the close counts of all requests under way, on whichever queue they are, are different, so
that at most one of them is the count of the stream that starts.

### MessageStore

`StoreInv` follows a message from the mutation queue to the server and back. `QueuesInOrder`:
a queue holds messages of its account, in the order written. `PipelineIsQueuePrefix`,
`RepliesMatchPipeline`, `WireIsPipelineEnd`: pipeline, answers and wire are consecutive parts
of the current user's queue. `AnswersAreCommits`, `LogIsKnown`: an answer names the log entry
of its message. `OrphansAreKnown`, `OrphansInOrder`: the server may still execute the writes of
a broken stream, after a newer one has sent the same messages again; all earlier messages of
their author are refused, committed, or ahead of them on that same stream. Without this
`FirstCommitsInOrder` is not inductive. From it: `PipelineStaysInStep`, `CommitsAreTheOwners`,
`CacheStaysInStep`, `NothingIsLost`, `NothingIsOvertaken`; the action properties
`VersionsNeverGoBack` and `VanishesOnlyWhenRefused`; and `StoreImplementsBoard`, with one
lemma per action that says which step of `MessageBoard` it is, or that it is none.

### MessageView

`ViewInv` has three parts. `BoardInv` is the board's own. `ListenersInv` says that the view,
which the code puts together from differences, is the content of the board (`ViewIsScreen`),
that so is what every served screen shows, and when a screen waits. `NetworkInv` ties the
online state to the watch stream and the timer. The theorems: `TrackerKeepsItsAssertions`,
`ScreensShowTheBoard`, `NobodyWaitsInVain`, and `ShownMessagesDoNotFlicker`: a screen that goes
on being served loses a message only when the account it waits for is replaced, or when it
was the oldest of the outbox and the server refused it. It follows from the invariant in
both states of a step (the screen is the board's content) and from what a step of the board
may take away; that each step of the view is one of the board, or none, is a lemma.

### WatchTargets

`AggregatorStaysInStep`: the responses a target waits for are exactly those on their way, and
no `HARD_ASSERT` fails, for any set of documents, any bound on limbo resolutions and **any plan
of faults**, those with a restart amid a mismatch included, under which `watch_restart` shows
that the query's documents go wrong. The stream's bookkeeping does not depend on them.
`StreamIsInStep` is its inductive invariant `IInv`; what it says of the client's record
(`Sound`) has these parts:

- `Owed`: for each target, requests and answers under way are what it waits for; for one that
  is no longer listened to they are at most that.
- `LastWord`: nothing follows the request to watch a target that is listened to, nor its
  refusal. Without this a refused target could leave the aggregator with an answer still to
  come, and the next answer would take its count below zero.
- `Fitting`, `Resolving`: a limbo target is asked, and told, of its own document only, also by
  what was sent before it was stopped; ids are given out once (`Known`), so an old answer
  never meets a new target. Hence a limbo target never has two documents.
- `Marks`: only what a target knows is marked as modified or removed, which is what the view
  and the sync engine assert of the event. `KnownTo` is `RemoteKeys` with the documents the
  view will have; when a snapshot has been taken no target has marks (`Clean`), and so the
  view's documents may change.
- `Idle`: a mismatch is of the query, and while it is pending no request of the query's is;
  so a query is not watched again twice.
- `Closed`: a closed stream carries nothing and its aggregator is gone.

The handlers are folds over sets of targets and documents, and a fold is defined by
recursion. The library's induction theorems cannot be used (see below); `FoldStays` shows
instead that a recursive function on the subsets of a finite set stays where its steps stay,
by the smallest subset for which it would not (`LeastNumber`, from `WFMin`, whose parameters
are sets). With it there is one lemma for each function on `remote` (`RequestSound`,
`PumpSound`, `UpdateTrackedSound`, `HandleDocumentChangeSound`, `SynthesizeDeletesSound`,
`RewatchMismatchesClean`, ...), which says that it keeps the invariant, and the lemma of a
handler puts these together as the handler does (`SnapshotSound`, `RejectedSound`,
`ReceiveSound`).

`WatchQueryProofs` builds on `IInv` and says what becomes of the one query and of the
documents in limbo.

`ResumeStaysComplete`: `Spec => []ResumedIsComplete`, unless some plan both restarts the app
and lets the server forget deletions, the combination under which `watch_restart` fails.
That the query's documents are complete to its token says nothing of what is on its way, and
a snapshot makes both new, so `QInv` follows the messages. `Held` is what a sequence of
messages about the query makes of a set of documents; `Tells` says that the messages up to
a snapshot make it complete to the token this snapshot brings. `Resumes` says so of
each state a watched query can be in: its request is still to be served (`Asked`), it is
being watched anew after a mismatch and what comes before the answer does not count
(`Rewatched`), or it is being listed (`Listed`). `Kept` is about the disk: as long as the app
may be started again, the stored token is one the stored documents are complete to.
`Uncounted` is where the premise comes in: a server that forgets nothing sends no counts, so
nothing is reset in memory and not on the disk. There is one lemma per action, and one per
kind of message.

Three theorems are about limbo.

- `ResolutionsStayNeeded`: `Spec => []ResolutionsAreNeeded`, under any plan of faults, with room to
  resolve every document at once. With less room it is false: `limbo_queue` shows a document
  that leaves limbo in the queue and is looked up later. The code allows 100 resolutions. The
  invariant is `Matched`: the queue is empty, each resolution is the one registered for its
  document, and only documents in limbo have one.
- `LimboStaysResolved`: `Spec => []LimboIsResolved`, for any limit, when no target is
  refused. The invariant, `ResolvedInv`, is stronger than the property in that it does not
  ask for a current view: every document of `view.limbo` is registered or in the queue. A
  refusal breaks that: the document loses its resolution, and while the view is not current
  `UpdateLimboDocuments` leaves it in limbo. That the document is then gone before the view is
  current again depends on what the server sends, which is out of reach of this invariant;
  run `watch` checks it with a refusal.
- `ResolutionsStayMatched` puts both together: `Spec => []ResolutionsMatchLimbo`.

What tracking and removing a set of documents does to the resolutions is proved as above,
with a bound that depends on the documents handled so far (`TrackAlong`, `RemoveAlong`,
`PumpAlong`).

`SyncedHoldsAndLists`, under any plan of faults: the view holds every pending message, and a
view that says it is synced shows nothing but what it holds and what the query's target has
told it of. It follows from `InOrder`, that the limbo of a current view is what it shows
and neither holds nor knows. Every handler ends with `EmitNewSnapshots`, which computes the
limbo again, or leaves alone what it is computed from. This is half of `SyncedIsTheSnapshot`.

### GrpcStream

`StreamInv` says where each operation is: at gRPC, in the poller's hands, a task on the
worker queue, or done; that each is in one place, listed in `completions` exactly while its
callback would do something; and that each flag of the stream (`activeWrite`, the phase of
the call, the observer) is what the operations make it. `OneOperationOfEach` and
`NothingAfterTheEnd` follow, and `StreamKeepsPromise`, that the stream implements
`ByteStream`: one lemma per action.

### ChatSession

`SessionInv`: the queue of the main thread (`QueueInv`: requests are answered once, the
notification of a sign-in is ahead of its answer, the last notification names the current
user), the screens (`ScreensInv`: a chat was opened by an answer, and when it is not of the
current session a second request, a forced sign-out or a form left early is to blame), what
Firestore was told (`AnnouncedInStep`), the keychain (`SavedIsCurrent`) and the messages
(`SenderOwnsMessage`). The theorems are `NoForeignChat`, `KeychainAgrees` and
`MessagesAreTheSenders`.

### The small apps

`OneAppMoves`: a step of `MCApps` is a step of one app and leaves the variables of the others
alone, so each app has an invariant of its own.

- `TableShowsMessages` (Flash-Chat's table). While only failures wait on the main queue the
  table has a row for each message, and each cell its message or nothing. While the list
  grows, the rows are at most the messages, the messages at most those of each event that
  waits, and these in the order of the queue; so no row is missing. That an event's documents
  can be put in the order of their dates at all is `OrderExists`: each goes where the number
  of those before it says.
- `ChargesAreRemembered` (InspoQuotes), `OneAnswerForEach` (Quizzler), `EggsAreOnTime` (Egg
  Timer), `CarefulKeysMeetNoError` (Calculator), `EveryResultHasARow` (Todoey; the rows
  counted by cardinalities) and `LookupsEndWithTheLast` (Clima, ByteCoin).

### Only model-checked

- All liveness (`WaitingWriteGetsStream`, `QueuedMessageSettles`, `WaitingScreenIsDrawn`,
  `FormIsAnswered`, `TransactionsSettle`, `EveryAppGoesOn`, `EventuallyAgrees`,
  `WorkerComesBack`, `DeadCallIsNoticed`): it needs fairness and `ENABLED`, which the prover
  has no rules for.
- `SyncedIsTheSnapshot` of `WatchTargets`. `SyncedHoldsAndLists` is what is proved of it. The
  rest is that what the query knows when its view is current is the snapshot: that needs
  an invariant on which version of which document each message brings, that a count that
  agrees proves the documents equal (so it must be known that none is missing), and that the
  cache is not ahead of the snapshot through a limbo target.
- `LimboIsResolved` where targets are refused (see `LimboStaysResolved`).

## 6. What the models showed

*Findings*:

1. `calculator`: the Calculator ends with "Cannot convert display label text to a Double"
   after `.` `.` or `5` `.` `.` and any key that reads the display.
2. `lookup`: without a network the loaders of Clima and ByteCoin report the error, do not
   return, and unwrap the data that is not there.
3. `watch_restart`: after an existence-filter mismatch the resume token is cleared in memory
   and kept on the disk, while the remote keys on the disk are let go. An app restarted
   before the full update resumes with the token and without the keys.
4. `watch_own`: a message that is acknowledged, and deleted by another client before the
   watch stream listed it, stays on the screen as pending: the view waits for the stream to
   send it again, and documents with local mutations are never in limbo.
5. `limbo_queue`: a document that leaves limbo while it waits for a resolution stays in the
   queue and is looked up later, against the comment on the queue.

The third and the fourth need a second client that deletes messages, which Flash-Chat's
own screens do not offer; they are behaviour of the vendored client.

*Observations*, where nothing in the repository says otherwise. The exceptions in the
properties of `ChatSession` and the counters of `QuoteStore` are there because of them:

- Pressing Log In twice signs in twice. If the second answer comes after a log out, the
  account is signed in again while the Welcome screen is shown.
- Leaving a form does not cancel its request. Its answer changes the current user under a
  chat opened from another form, which then sends as the other account.
- The Calculator has a second `fatalError`, "The result of the calculation is nil", which `=`
  as the first key reaches; "All clear" does not clear the remembered operation, so `=` after
  `AC` computes with the number from before. `CarefulKeysAreSafe` leaves both keys out.
- In Todoey, after one write that failed, the next correct update of the table can end the
  app, and so can the drawing of a new item that was counted but not saved
  (`TablesFollowRealm`: until a write fails the tables are exact, and later never more than
  a row off while the app goes on); no item is ever left without its category.
- Overlapping lookups show the answer that comes last, whatever was asked for last.
- A forced sign-out whose keychain removal fails leaves the saved user: it is back after
  a restart, and Log Out in between does nothing, since nobody is signed in.
- A chat that was left keeps its snapshot listener, and with it the screen.
- Premium quotes are appended again by a redelivery, a restore or a second payment.
- An event without messages makes the chat scroll to row -1, and one with fewer messages
  than before leaves rows that are read past the end of the array until the reload: both
  end the app. `SafeWhileGrowing` states exactly that nothing else does. A list shrinks
  when a message is refused and when the user changes; and since listeners are never
  removed, also under a chat that was left.

## 7. Not modelled, and why

- Cells, colours and the welcome title's animation: layout.
- Parts of Firestore the app never reaches: transactions, deletes and edits by this client,
  filters, limits, bundles. The garbage collector runs only above 100 MB.
- WhatFlower: which image a late answer meets depends on versions of Vision, Alamofire and
  SDWebImage that the repository does not hold. AR-Ruler, BMI-Calculator, Tipsy: formulas in
  floating point, evaluated once per press. Destini: a constant table of six stories.
  ARDicee, SeeFood: nothing that could happen in another order.
- Transport, cryptography and storage libraries; their visible behaviour (lost, late and
  ordered messages, durable transactions) is in the models. `UserDefaults` is taken to be
  durable once set; the keychain may fail.
- Security rules and the authentication backend: external, any answer is possible.
- Static and random screens, playgrounds: no state to speak of.

## 8. Plan

Done, in this order, the most important behaviour first: `CredentialHandoff` and its
proofs, `MessageBoard`, `MessageStore`, `MessageView`, `ChatSession`, `ChatScreen`,
`QuoteStore`, `Calculator`, `ByteStream`, `GrpcStream`, `WatchTargets`, `WebLookup`,
`EggTimer`, `Quizzler`, `Todoey`.

The theorems, each from an invariant: `CredentialHandoff` first, then `MessageStore` with its
refinement, `GrpcStream` with its own, `MessageView`, `ChatSession`, the small apps and
`WatchTargets`.

`ResumeStaysComplete`, the theorems on limbo and `SyncedHoldsAndLists` came last, on top of the
invariant of `WatchTargets`.

Next: `SyncedIsTheSnapshot`. `InOrder` and `QInv` are two of its parts. To add: when the
query's target is current its documents are those of the last snapshot (`Tells`, with what
is deleted as well as what exists); a filter's count is compared with a set that lacks no
document; each document of a snapshot exists in the cache, with that version or a later one.
