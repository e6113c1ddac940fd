------------------------------ MODULE GrpcStream ------------------------------
(***************************************************************************)
(* One GrpcStream of the Firestore client (remote/grpc_stream.cc), from    *)
(* its creation by Stream to its destruction, with the two threads that    *)
(* share its completions: the worker queue, which runs the stream's code,  *)
(* and the poller of the gRPC completion queue (Datastore::PollGrpcQueue). *)
(*                                                                         *)
(* An operation given to gRPC is an entry of ops.  gRPC gives it back on   *)
(* the completion queue; the poller first fulfils its promise, then puts   *)
(* a task on the worker queue, and the task runs the operation's callback  *)
(* unless the stream has cancelled it.  To close, the worker cancels every *)
(* callback and blocks until every promise is fulfilled: only then may the *)
(* gRPC objects be destroyed.                                              *)
(***************************************************************************)
EXTENDS Naturals, Sequences, FiniteSets

CONSTANTS MaxWrites,   \* calls of GrpcStream::Write by the owner
          MaxReads     \* messages the server sends

ASSUME BoundsAssumption == MaxWrites \in Nat /\ MaxReads \in Nat

VARIABLES ops,          \* Seq of operations, in the order they were given to gRPC
          completions,  \* completions_: operations whose callback has not run
          poller,       \* the operation whose promise the poller has just fulfilled; 0 if none
          tasks,        \* callbacks on the worker queue
          worker,       \* "idle", or where the worker thread is blocked and why
          call,         \* the gRPC call: "new", "live", "dead" (ended or cancelled)
          finished,     \* is_grpc_call_finished_
          observer,     \* "set", "unset" (nullptr), or "destroyed" with the stream
          buffer,       \* buffered_writer_.queue_
          activeWrite,  \* buffered_writer_.has_active_write_
          written,      \* number of messages given to Write so far
          wire,         \* messages handed to gRPC
          delivered,    \* messages handed to the observer
          reports,      \* OnStreamFinish calls
          failed        \* a HARD_ASSERT has failed

vars == <<ops, completions, poller, tasks, worker, call, finished, observer,
          buffer, activeWrite, written, wire, delivered, reports, failed>>

Ids == 1 .. Len(ops)
Idle == [at |-> "idle", why |-> "none"]
Whys == {"close", "lost", "failed", "ended"}

TypeOK ==
    /\ ops \in Seq([type : {"Read", "Write", "Finish"}, at : {"grpc", "off"},
                    live : BOOLEAN, ok : BOOLEAN, msg : 0 .. MaxReads])
    /\ completions \subseteq Ids /\ poller \in {0} \cup Ids
    /\ tasks \in Seq(Ids)
    /\ worker \in {Idle} \cup [at : {"lastWrite", "drainOps", "drainAll"}, why : Whys]
    /\ call \in {"new", "live", "dead"} /\ observer \in {"set", "unset", "destroyed"}
    /\ {finished, activeWrite, failed} \subseteq BOOLEAN
    /\ buffer \in Seq(1 .. MaxWrites + 1) /\ wire \in Seq(1 .. MaxWrites + 1)
    /\ written \in 0 .. MaxWrites + 1 /\ delivered \in Seq(1 .. MaxReads)
    /\ reports \in {0, 1}

Init ==
    /\ ops = <<>> /\ completions = {} /\ poller = 0 /\ tasks = <<>> /\ worker = Idle
    /\ call = "new" /\ finished = FALSE /\ observer = "set"
    /\ buffer = <<>> /\ activeWrite = FALSE /\ written = 0
    /\ wire = <<>> /\ delivered = <<>> /\ reports = 0 /\ failed = FALSE

-----------------------------------------------------------------------------
(* Operations                                                              *)

\* GrpcStream::NewCompletion and the call_ method that submits it.
Issue(o, type) ==
    Append(o, [type |-> type, at |-> "grpc", live |-> TRUE, ok |-> FALSE, msg |-> 0])

\* Mutant of CancelAll: the callbacks stay.
CancelNone(o, s) == o

\* GrpcCompletion::Cancel of every completion in s: its callback becomes empty.
CancelAll(o, s) ==
    [i \in DOMAIN o |-> IF i \in s THEN [o[i] EXCEPT !.live = FALSE] ELSE o[i]]

\* GrpcCompletion::WaitUntilOffQueue returns once the promise is fulfilled.
AllOff(s) == \A i \in s : ops[i].at = "off"

\* Mutant of TryStartWrite: a write that is active is not waited for.
StartAnyWrite(o, c, q, active) ==
    /\ ops' = IF q = <<>> THEN o ELSE Issue(o, "Write")
    /\ completions' = IF q = <<>> THEN c ELSE c \cup {Len(o) + 1}
    /\ activeWrite' = (q # <<>>) /\ buffer' = <<>> /\ wire' = wire \o q

\* Mutant of TryStartWrite: the youngest message goes first.
StartYoungestWrite(o, c, q, active) ==
    IF q = <<>> \/ active
    THEN ops' = o /\ completions' = c /\ buffer' = q /\ activeWrite' = active /\ wire' = wire
    ELSE /\ ops' = Issue(o, "Write") /\ completions' = c \cup {Len(o) + 1}
         /\ activeWrite' = TRUE
         /\ buffer' = SubSeq(q, 1, Len(q) - 1) /\ wire' = Append(wire, q[Len(q)])

\* BufferedWriter::TryStartWrite on queue q, and MaybeWrite of what it returns,
\* after o and c have become the operations and the completions.
TryStartWrite(o, c, q, active) ==
    IF q = <<>> \/ active
    THEN /\ ops' = o /\ completions' = c
         /\ buffer' = q /\ activeWrite' = active /\ wire' = wire
    ELSE /\ ops' = Issue(o, "Write") /\ completions' = c \cup {Len(o) + 1}
         /\ buffer' = Tail(q) /\ activeWrite' = TRUE /\ wire' = Append(wire, Head(q))

-----------------------------------------------------------------------------
(* The owner's calls, on the worker queue                                  *)

\* Stream::ResumeStartWithCredentials calls GrpcStream::Start: the call is
\* started and the first Read is pending before the observer hears of it.
Start ==
    /\ call = "new" /\ worker = Idle /\ observer = "set"
    /\ call' = "live"
    /\ ops' = Issue(ops, "Read") /\ completions' = {Len(ops) + 1}
    /\ UNCHANGED <<poller, tasks, worker, finished, observer, buffer, activeWrite,
                   written, wire, delivered, reports, failed>>

\* Stream::Write: the stream is open as long as it has not been told otherwise,
\* so it may write to a call that has failed and is being finished.
Write ==
    /\ worker = Idle /\ call # "new" /\ observer = "set" /\ written < MaxWrites
    /\ written' = written + 1
    /\ TryStartWrite(ops, completions, Append(buffer, written'), activeWrite)
    /\ UNCHANGED <<poller, tasks, worker, call, finished, observer, delivered,
                   reports, failed>>

\* Mutant of Shutdown: the call is finished without being cancelled.
ShutdownWithoutCancel(o, c, why) ==
    /\ ops' = CancelAll(o, c) /\ completions' = c /\ call' = call
    /\ finished' = (finished \/ c # {})
    /\ worker' = [at |-> IF c # {} /\ ~finished THEN "drainOps" ELSE "drainAll", why |-> why]

\* GrpcStream::Shutdown up to the point where it blocks.  A call that has not
\* been finished is cancelled, and finished once its operations are back.
Shutdown(o, c, why) ==
    /\ ops' = CancelAll(o, c)
    /\ completions' = c
    /\ IF c # {} /\ ~finished
       THEN /\ call' = "dead" /\ finished' = TRUE
            /\ worker' = [at |-> "drainOps", why |-> why]
       ELSE /\ worker' = [at |-> "drainAll", why |-> why]
            /\ UNCHANGED <<call, finished>>

\* Stream::Stop -> Close -> TearDown -> FinishImmediately.
FinishImmediately ==
    /\ worker = Idle /\ call # "new" /\ observer = "set"
    /\ Shutdown(ops, completions, "close")
    /\ UNCHANGED <<poller, tasks, observer, buffer, activeWrite, written, wire,
                   delivered, reports, failed>>

\* WriteStream::TearDown after its handshake -> WriteAndFinish: TryLastWrite
\* waits for the last message if no other one is being written.
WriteAndFinish ==
    /\ worker = Idle /\ observer = "set" /\ delivered # <<>> /\ ~finished
    /\ written' = written + 1
    /\ TryStartWrite(ops, completions, Append(buffer, written'), activeWrite)
    /\ worker' = [at |-> "lastWrite", why |-> "close"]
    /\ UNCHANGED <<poller, tasks, call, finished, observer, delivered, reports, failed>>

\* WaitUntilOffQueue(500 ms) returns, ready or timed out, or was not called
\* because another write is active: FinishImmediately follows in each case.
LastWriteDone ==
    /\ worker.at = "lastWrite"
    /\ Shutdown(ops, completions, "close")
    /\ UNCHANGED <<poller, tasks, observer, buffer, activeWrite, written, wire,
                   delivered, reports, failed>>

\* The connectivity monitor's callback of GrpcConnection: FinishAndNotify on
\* every registered call; Shutdown unregisters, so a stream is told once.
ConnectivityChanged ==
    /\ worker = Idle /\ call # "new" /\ observer = "set"
    /\ Shutdown(ops, completions, "lost")
    /\ UNCHANGED <<poller, tasks, observer, buffer, activeWrite, written, wire,
                   delivered, reports, failed>>

-----------------------------------------------------------------------------
(* The worker thread wakes up                                              *)

\* FinishGrpcCall after its operations are off the queue: Finish is submitted.
\* OnOperationFailed leaves with a callback on it; Shutdown drains it too.
SubmitFinish ==
    /\ worker.at = "drainOps" /\ AllOff(completions)
    /\ ops' = IF worker.why = "failed" THEN Issue(ops, "Finish")
              ELSE CancelAll(Issue(ops, "Finish"), {Len(ops) + 1})
    /\ completions' = {Len(ops) + 1}
    /\ worker' = IF worker.why = "failed" THEN Idle ELSE [worker EXCEPT !.at = "drainAll"]
    /\ UNCHANGED <<poller, tasks, call, finished, observer, buffer, activeWrite,
                   written, wire, delivered, reports, failed>>

\* Shutdown returns: the observer is unset and, unless the owner closed the
\* stream, told; the owner destroys the stream (Stream::Close, step 6).
ShutdownReturns ==
    /\ worker.at = "drainAll" /\ AllOff(completions)
    /\ completions' = {}
    /\ worker' = Idle
    /\ reports' = IF worker.why # "close" /\ observer = "set" THEN reports + 1 ELSE reports
    /\ observer' = "destroyed"
    /\ UNCHANGED <<ops, poller, tasks, call, finished, buffer, activeWrite, written,
                   wire, delivered, failed>>

-----------------------------------------------------------------------------
(* The worker queue runs the callback of a completion                      *)

\* GrpcStream::OnOperationFailed -> FinishGrpcCall, with the failed operation
\* already removed from the completions.
OnOperationFailed(rest) ==
    /\ IF finished
       THEN /\ completions' = rest
            /\ UNCHANGED <<ops, worker, finished>>
       ELSE /\ completions' = rest /\ finished' = TRUE
            /\ ops' = CancelAll(ops, rest)
            /\ worker' = [at |-> "drainOps", why |-> "failed"]
    /\ UNCHANGED <<call, buffer, activeWrite, wire, delivered>>

\* Mutant of OnRead: no further message is asked for.
OnReadOnce(rest, msg) ==
    /\ delivered' = Append(delivered, msg) /\ completions' = rest
    /\ UNCHANGED <<ops, worker, call, finished, buffer, activeWrite, wire>>

\* GrpcStream::OnRead: the next Read is issued before the observer sees the
\* message; a message the owner cannot parse makes it finish the stream
\* (Stream::OnStreamRead).
OnRead(rest, msg) ==
    LET next == Issue(ops, "Read")
        all  == rest \cup {Len(ops) + 1}
    IN  /\ delivered' = Append(delivered, msg)
        /\ \/ /\ ops' = next /\ completions' = all
              /\ UNCHANGED <<worker, call, finished>>
           \/ Shutdown(next, all, "close")
        /\ UNCHANGED <<buffer, activeWrite, wire>>

\* GrpcStream::OnWrite -> BufferedWriter::DequeueNextWrite.
OnWrite(rest) ==
    /\ TryStartWrite(ops, rest, buffer, FALSE)
    /\ UNCHANGED <<worker, call, finished, delivered>>

\* The callback given to Finish by OnOperationFailed: FinishAndNotify.
OnFinish(rest) ==
    /\ Shutdown(ops, rest, "ended")
    /\ UNCHANGED <<buffer, activeWrite, wire, delivered>>

RunTask ==
    /\ worker = Idle /\ tasks # <<>>
    /\ tasks' = Tail(tasks)
    /\ LET id == Head(tasks)
           op == ops[id]
           rest == completions \ {id}
       IN  IF ~op.live
           THEN UNCHANGED <<ops, completions, worker, call, finished, buffer, activeWrite,
                            wire, delivered, failed>>
           ELSE /\ failed' = (failed \/ id \notin completions \/ observer = "destroyed")
                /\ \/ ~op.ok /\ OnOperationFailed(rest)
                   \/ op.ok /\ op.type = "Read" /\ OnRead(rest, op.msg)
                   \/ op.ok /\ op.type = "Write" /\ OnWrite(rest)
                   \/ op.ok /\ op.type = "Finish" /\ OnFinish(rest)
    /\ UNCHANGED <<poller, observer, written, reports>>

-----------------------------------------------------------------------------
(* gRPC and the poller thread                                              *)

\* The server ends the call, or the connection breaks.
CallFails ==
    /\ call = "live"
    /\ call' = "dead"
    /\ UNCHANGED <<ops, completions, poller, tasks, worker, finished, observer, buffer,
                   activeWrite, written, wire, delivered, reports, failed>>

\* Messages of the server that gRPC has handed out so far.
Sent == Cardinality({i \in Ids : ops[i].type = "Read" /\ ops[i].ok})

\* What gRPC may report of an operation: reads and writes succeed while the
\* call lives, and may still succeed when it has just died; they fail only on
\* a dead call, and Finish returns only then.
Outcome(op, ok) ==
    CASE op.type = "Finish" -> call = "dead" /\ ok
      [] op.type = "Write" -> ok \/ call = "dead"
      [] op.type = "Read" -> IF ok THEN Sent < MaxReads ELSE call = "dead"

\* Datastore::PollGrpcQueue takes a tag; GrpcCompletion::Complete fulfils the promise...
Poll(id, ok) ==
    /\ poller = 0 /\ id \in Ids /\ ops[id].at = "grpc" /\ Outcome(ops[id], ok)
    /\ ops' = [ops EXCEPT ![id].at = "off", ![id].ok = ok,
                          ![id].msg = IF ok /\ ops[id].type = "Read" THEN Sent + 1 ELSE 0]
    /\ poller' = id
    /\ UNCHANGED <<completions, tasks, worker, call, finished, observer, buffer,
                   activeWrite, written, wire, delivered, reports, failed>>

\* ... and then enqueues the callback; the worker may have woken up in between.
PollerEnqueues ==
    /\ poller # 0
    /\ tasks' = Append(tasks, poller)
    /\ poller' = 0
    /\ UNCHANGED <<ops, completions, worker, call, finished, observer, buffer,
                   activeWrite, written, wire, delivered, reports, failed>>

GrpcReturns == \E id \in Ids, ok \in BOOLEAN : Poll(id, ok)

Worker == RunTask \/ LastWriteDone \/ SubmitFinish \/ ShutdownReturns

Next == \/ Start \/ Write \/ FinishImmediately \/ WriteAndFinish \/ ConnectivityChanged
        \/ CallFails \/ GrpcReturns \/ PollerEnqueues \/ Worker

Spec == Init /\ [][Next]_vars

\* The threads run: a queued task is run, a fulfilled wait returns, the poller
\* goes on polling, and gRPC gives every operation of a dead call back, the
\* promise FastFinishCompletionsBlocking rests on.  Nothing is assumed of the
\* server, of the owner, or of operations on a live call.
FairSpec ==
    /\ Spec
    /\ WF_vars(Worker)
    /\ WF_vars(PollerEnqueues)
    /\ WF_vars(call = "dead" /\ GrpcReturns)

-----------------------------------------------------------------------------
(* Properties                                                              *)

\* gRPC allows one write and one read at a time on a call: the operations the
\* stream has given to gRPC and not got back respect that, whatever the owner
\* writes and whenever the callbacks run.
OneOfEachAtGrpc ==
    \A i, j \in Ids : (ops[i].at = "grpc" /\ ops[j].at = "grpc" /\ ops[i].type = ops[j].type)
                       => i = j

\* The same, with the types of all variables: the owner is told at most once.
OperationsInStep == TypeOK /\ OneOfEachAtGrpc

\* When the owner destroys the stream, gRPC holds none of its operations any
\* more (they point into the destroyed call and context), and no callback on
\* the worker queue, or about to be put there, will touch it.
SafeToDestroy ==
    observer = "destroyed" =>
        \A i \in Ids : ops[i].at = "off" /\ (ops[i].live => i \notin completions)
                        /\ (ops[i].live => i # poller /\ i \notin {tasks[k] : k \in DOMAIN tasks})

\* No HARD_ASSERT of the stream fails and no callback runs on a destroyed
\* stream: every live callback finds its completion listed.
NoCallbackAstray == ~failed

\* A destroyed stream has nothing left at gRPC and on no queue, and no assertion fails.
EndsClean == SafeToDestroy /\ NoCallbackAstray

\* The stream implements what grpc_stream.h promises of it.
Promise == INSTANCE ByteStream
    WITH phase <- CASE observer = "destroyed" -> "ended"
                    [] call = "new" -> "new"
                    [] OTHER -> "open"
PromiseSpec == Promise!Spec

\* The worker thread, which runs everything of Firestore, never stays blocked
\* in a shutdown.
WorkerComesBack == worker.at # "idle" ~> worker.at = "idle"

\* A call that has died is noticed: the owner hears of it, or had closed the
\* stream itself, even if it never writes again.
DeadCallIsNoticed == call = "dead" ~> observer = "destroyed"
===============================================================================
