--------------------------- MODULE GrpcStreamProofs ---------------------------
(***************************************************************************)
(* Proofs about GrpcStream, for any number of writes and of messages: gRPC *)
(* never has two operations of a kind, a destroyed stream leaves nothing   *)
(* behind, and the stream implements ByteStream.                           *)
(***************************************************************************)
EXTENDS GrpcStream, FiniteSetTheorems, TLAPS

\* An operation whose callback has neither run nor been skipped: it is at gRPC,
\* in the poller's hands or a task on the worker queue.
Queued(i) == \E k \in 1..Len(tasks) : tasks[k] = i
Pending(i) == ops[i].at = "grpc" \/ i = poller \/ Queued(i)

\* Each operation is in one of these places only.
OnePlaceEach ==
    /\ poller # 0 => ops[poller].at = "off" /\ ~Queued(poller)
    /\ \A k \in 1..Len(tasks) : ops[tasks[k]].at = "off"
    /\ \A k, l \in 1..Len(tasks) : tasks[k] = tasks[l] => k = l

\* At most one operation of each type is pending; a pending write is the
\* buffered writer's active one; Finish is given to gRPC once.
OnePendingOfEach ==
    \A i, j \in Ids : Pending(i) /\ Pending(j) /\ ops[i].type = ops[j].type => i = j

WriteIsActive == \A i \in Ids : Pending(i) /\ ops[i].type = "Write" => activeWrite

FinishIsLast == \A i \in Ids : ops[i].type = "Finish" => finished /\ worker.at # "drainOps"

\* What gRPC holds, and what still has a callback to run, is listed.
ListedWhilePending ==
    \A i \in Ids : ops[i].at = "grpc" \/ (ops[i].live /\ Pending(i)) => i \in completions

\* From the moment the worker waits for gRPC no listed operation has a callback.
SilentWhileDraining ==
    worker.at \in {"drainOps", "drainAll"} => \A i \in completions : ~ops[i].live

\* The worker blocks in the calls of a stream that is open.
Phases ==
    /\ call = "new" => /\ ops = <<>> /\ completions = {} /\ poller = 0 /\ tasks = <<>>
                       /\ worker = Idle /\ observer = "set" /\ ~finished /\ delivered = <<>>
    /\ worker # Idle => observer = "set"
    /\ worker.at = "drainOps" => finished
    /\ observer # "unset"
    /\ observer = "set" => reports = 0
    /\ observer = "destroyed" => completions = {}
    /\ written > MaxWrites => observer = "destroyed" \/ (worker # Idle /\ worker.why = "close")

\* The pending read, if its callback may still run, brings the next message.
ReadsInOrder ==
    \A i \in Ids :
        /\ ops[i].ok => ops[i].at = "off"
        /\ ops[i].type = "Read" /\ ops[i].live /\ Pending(i) =>
              /\ Sent = Len(delivered) + (IF ops[i].ok THEN 1 ELSE 0)
              /\ ops[i].ok => ops[i].msg = Len(delivered) + 1

\* The buffer continues where the wire ends.
Continues(q, n) == Len(wire) + Len(q) = n /\ \A k \in 1..Len(q) : q[k] = Len(wire) + k

WritesInOrder == Continues(buffer, written)

StreamInv ==
    /\ TypeOK
    /\ OnePlaceEach
    /\ OnePendingOfEach
    /\ WriteIsActive
    /\ FinishIsLast
    /\ ListedWhilePending
    /\ SilentWhileDraining
    /\ Phases
    /\ ReadsInOrder
    /\ WritesInOrder
    /\ NoCallbackAstray

-----------------------------------------------------------------------------
(* Operations                                                              *)

Op == [type : {"Read", "Write", "Finish"}, at : {"grpc", "off"},
       live : BOOLEAN, ok : BOOLEAN, msg : 0 .. MaxReads]

\* What NewCompletion adds: one operation at gRPC, with a callback.
LEMMA IssueFacts ==
    ASSUME NEW o \in Seq(Op), NEW type \in {"Read", "Write", "Finish"}
    PROVE  /\ Issue(o, type) \in Seq(Op)
           /\ Len(o) \in Nat /\ Len(Issue(o, type)) = Len(o) + 1
           /\ \A i \in 1..Len(o) : Issue(o, type)[i] = o[i]
           /\ Issue(o, type)[Len(o) + 1].type = type
           /\ Issue(o, type)[Len(o) + 1].at = "grpc"
           /\ Issue(o, type)[Len(o) + 1].live
           /\ ~Issue(o, type)[Len(o) + 1].ok
<1> DEFINE e == [type |-> type, at |-> "grpc", live |-> TRUE, ok |-> FALSE, msg |-> 0]
<1>1. e \in Op /\ e.type = type /\ e.at = "grpc" /\ e.live = TRUE /\ e.ok = FALSE
  BY BoundsAssumption DEF Op
<1>2. Issue(o, type) = Append(o, e)
  BY DEF Issue
<1>. HIDE DEF e
<1>. QED
  BY <1>1, <1>2

\* Cancelling takes the callback, and nothing else, from the operations in s.
LEMMA CancelFacts ==
    ASSUME NEW o \in Seq(Op), NEW s
    PROVE  /\ CancelAll(o, s) \in Seq(Op)
           /\ Len(o) \in Nat /\ Len(CancelAll(o, s)) = Len(o)
           /\ \A i \in 1..Len(o) :
                 /\ CancelAll(o, s)[i].type = o[i].type
                 /\ CancelAll(o, s)[i].at = o[i].at
                 /\ CancelAll(o, s)[i].ok = o[i].ok
                 /\ CancelAll(o, s)[i].msg = o[i].msg
                 /\ CancelAll(o, s)[i].live => o[i].live /\ i \notin s
                 /\ i \notin s => CancelAll(o, s)[i] = o[i]
<1>1. Len(o) \in Nat /\ DOMAIN o = 1..Len(o) /\ \A i \in 1..Len(o) : o[i] \in Op
  OBVIOUS
<1>2. ASSUME NEW i \in 1..Len(o)
      PROVE  /\ CancelAll(o, s)[i] = IF i \in s THEN [o[i] EXCEPT !.live = FALSE] ELSE o[i]
             /\ CancelAll(o, s)[i] \in Op
  BY <1>1 DEF CancelAll, Op
<1>3. CancelAll(o, s) = [i \in 1..Len(o) |-> CancelAll(o, s)[i]]
  BY <1>1 DEF CancelAll
<1>4. CancelAll(o, s) \in [1..Len(o) -> Op]
  BY <1>2, <1>3
<1>5. CancelAll(o, s) \in Seq(Op) /\ Len(CancelAll(o, s)) = Len(o)
  BY <1>1, <1>4
<1>. QED
  BY <1>1, <1>2, <1>5 DEF Op

\* The worker's and the owner's steps: the operations stay where they are,
\* callbacks may be cancelled, and at most one operation is added.
Same(i) ==
    /\ ops'[i].type = ops[i].type /\ ops'[i].at = ops[i].at
    /\ ops'[i].ok = ops[i].ok /\ ops'[i].msg = ops[i].msg
    /\ ops'[i].live => ops[i].live

OpsMove ==
    /\ UNCHANGED poller
    /\ \A i \in Ids : Same(i)
    /\ \/ Len(ops') = Len(ops)
       \/ /\ Len(ops') = Len(ops) + 1
          /\ ops'[Len(ops) + 1].at = "grpc" /\ ~ops'[Len(ops) + 1].ok
          /\ Len(ops) + 1 \in completions'

LEMMA OpsTyped == TypeOK => ops \in Seq(Op) /\ Len(ops) \in Nat /\ \A i \in Ids : ops[i] \in Op
<1>1. TypeOK => ops \in Seq(Op)
  BY DEF TypeOK, Op
<1>. QED
  BY <1>1 DEF Ids

LEMMA TasksTyped ==
    TypeOK => tasks \in Seq(Ids) /\ Len(tasks) \in Nat /\ \A k \in 1..Len(tasks) : tasks[k] \in Ids
<1>1. TypeOK => tasks \in Seq(Ids)
  BY DEF TypeOK
<1>. QED
  BY <1>1

\* Taking a task leaves the others, and what was pending stays so but for it.
LEMMA TaskTaken ==
    ASSUME TypeOK, OnePlaceEach, tasks # <<>>, tasks' = Tail(tasks)
    PROVE  /\ Head(tasks) \in Ids /\ ops[Head(tasks)].at = "off" /\ Head(tasks) # poller
           /\ Queued(Head(tasks))
           /\ \A i : Queued(i)' <=> (Queued(i) /\ i # Head(tasks))
           /\ \A k, l \in 1..Len(tasks') : tasks'[k] = tasks'[l] => k = l
           /\ \A k \in 1..Len(tasks') : tasks'[k] \in Ids /\ ops[tasks'[k]].at = "off"
<1>1. /\ Len(tasks) \in Nat \ {0} /\ Len(tasks') = Len(tasks) - 1
      /\ \A k \in 1..Len(tasks') : tasks'[k] = tasks[k + 1] /\ k + 1 \in 1..Len(tasks)
      /\ Head(tasks) = tasks[1] /\ 1 \in 1..Len(tasks)
      /\ \A k \in 1..Len(tasks) : tasks[k] \in Ids
  <2>1. tasks \in Seq(Ids)
    BY TasksTyped
  <2>. QED
    BY <2>1
<1>2. \A k \in 1..Len(tasks) : k # 1 => k - 1 \in 1..Len(tasks') /\ tasks'[k - 1] = tasks[k]
  BY <1>1
<1>3. Head(tasks) \in Ids /\ ops[Head(tasks)].at = "off" /\ Queued(Head(tasks)) /\ Head(tasks) # poller
  <2>1. Head(tasks) # 0
    BY <1>1 DEF Ids
  <2>. QED
    BY <1>1, <2>1 DEF OnePlaceEach, Queued
<1>4. \A k \in 1..Len(tasks') : tasks'[k] # Head(tasks)
  BY <1>1 DEF OnePlaceEach
<1>5. \A i : Queued(i)' <=> (Queued(i) /\ i # Head(tasks))
  BY <1>1, <1>2, <1>4 DEF Queued
<1>6. \A k, l \in 1..Len(tasks') : tasks'[k] = tasks'[l] => k = l
  BY <1>1 DEF OnePlaceEach
<1>7. \A k \in 1..Len(tasks') : tasks'[k] \in Ids /\ ops[tasks'[k]].at = "off"
  BY <1>1 DEF OnePlaceEach
<1>. QED
  BY <1>3, <1>5, <1>6, <1>7

\* The tasks stay, or the worker has taken the first.
TasksMove == tasks' = tasks \/ (tasks # <<>> /\ tasks' = Tail(tasks))

\* After such a step: nothing old has become pending, and every operation is
\* in one place still.
LEMMA PendingMoves ==
    ASSUME TypeOK, OnePlaceEach, OpsMove, TasksMove
    PROVE  /\ Ids \subseteq Ids'
           /\ \A i \in Ids' : i \in Ids \/ (i = Len(ops) + 1 /\ Len(ops') = Len(ops) + 1)
           /\ \A i \in Ids : Pending(i)' => Pending(i)
           /\ OnePlaceEach'
<1>1. Len(ops) \in Nat /\ Len(ops') \in Nat
  BY OpsTyped DEF OpsMove
<1>2. Ids \subseteq Ids' /\ \A i \in Ids' : i \in Ids \/ (i = Len(ops) + 1 /\ Len(ops') = Len(ops) + 1)
  BY <1>1 DEF OpsMove, Ids
<1>3. /\ \A i : Queued(i)' => Queued(i)
      /\ \A k, l \in 1..Len(tasks') : tasks'[k] = tasks'[l] => k = l
      /\ \A k \in 1..Len(tasks') : tasks'[k] \in Ids /\ ops[tasks'[k]].at = "off"
  <2>1. CASE tasks' = tasks
    BY <2>1, TasksTyped DEF OnePlaceEach, Queued
  <2>2. CASE tasks # <<>> /\ tasks' = Tail(tasks)
    BY <2>2, TaskTaken
  <2>. QED
    BY <2>1, <2>2 DEF TasksMove
<1>4. \A i \in Ids : Pending(i)' => Pending(i)
  BY <1>3 DEF Pending, OpsMove, Same
<1>5. poller # 0 => poller \in Ids
  BY DEF TypeOK
<1>6. OnePlaceEach'
  BY <1>3, <1>5 DEF OnePlaceEach, OpsMove, Same
<1>. QED
  BY <1>2, <1>4, <1>6

\* Such a step keeps one pending operation of each type, if what it adds is of
\* a type of which none is pending any more.
LEMMA OnePendingMoves ==
    ASSUME TypeOK, OnePlaceEach, OnePendingOfEach, OpsMove, TasksMove,
           Len(ops') = Len(ops) + 1 =>
              \A i \in Ids : ops[i].type = ops'[Len(ops) + 1].type => ~Pending(i)'
    PROVE  OnePendingOfEach'
<1>1. \A i \in Ids : Pending(i)' => Pending(i) /\ ops'[i].type = ops[i].type
  BY PendingMoves DEF OpsMove, Same
<1>2. ASSUME NEW i \in Ids', NEW j \in Ids', Pending(i)', Pending(j)', ops'[i].type = ops'[j].type
      PROVE  i = j
  <2>1. CASE i \in Ids /\ j \in Ids
    BY <1>1, <1>2, <2>1 DEF OnePendingOfEach
  <2>2. CASE i \in Ids /\ j \notin Ids
    BY <1>1, <1>2, <2>2, PendingMoves
  <2>3. CASE i \notin Ids /\ j \in Ids
    BY <1>1, <1>2, <2>3, PendingMoves
  <2>4. CASE i \notin Ids /\ j \notin Ids
    BY <2>4, PendingMoves
  <2>. QED
    BY <2>1, <2>2, <2>3, <2>4
<1>. QED
  BY <1>2 DEF OnePendingOfEach

\* What is pending stays listed, if the list loses only what is neither at
\* gRPC nor about to call back.
LEMMA ListedMoves ==
    ASSUME TypeOK, OnePlaceEach, ListedWhilePending, OpsMove, TasksMove,
           \A i \in completions \cap Ids :
              i \in completions' \/ (ops[i].at = "off" /\ (ops'[i].live => ~Pending(i)'))
    PROVE  ListedWhilePending'
<1>1. /\ \A i \in Ids : Pending(i)' => Pending(i)
      /\ \A i \in Ids' : i \in Ids \/ (i = Len(ops) + 1 /\ Len(ops') = Len(ops) + 1)
  BY PendingMoves
<1>2. ASSUME NEW i \in Ids', ops'[i].at = "grpc" \/ (ops'[i].live /\ Pending(i)')
      PROVE  i \in completions'
  <2>1. CASE i \in Ids
    <3>1. ops'[i].at = ops[i].at /\ (ops'[i].live => ops[i].live)
      BY <2>1 DEF OpsMove, Same
    <3>2. i \in completions
      BY <1>1, <1>2, <2>1, <3>1 DEF ListedWhilePending
    <3>3. ops[i].at # "off" \/ (ops'[i].live /\ Pending(i)')
      BY <1>2, <3>1
    <3>. QED
      BY <2>1, <3>2, <3>3
  <2>2. CASE i \notin Ids
    BY <1>1, <2>2 DEF OpsMove
  <2>. QED
    BY <2>1, <2>2
<1>. QED
  BY <1>2 DEF ListedWhilePending

\* The reads the server has answered are finitely many, and no such step
\* changes their number.
SentReads == {i \in Ids : ops[i].type = "Read" /\ ops[i].ok}

LEMMA SentFinite == TypeOK => IsFiniteSet(SentReads) /\ Sent \in Nat /\ Sent = Cardinality(SentReads)
<1> SUFFICES ASSUME TypeOK PROVE IsFiniteSet(SentReads) /\ Sent \in Nat /\ Sent = Cardinality(SentReads)
  OBVIOUS
<1>1. IsFiniteSet(Ids)
  BY OpsTyped, FS_Interval DEF Ids
<1>2. SentReads \subseteq Ids
  BY DEF SentReads
<1>3. IsFiniteSet(SentReads)
  BY <1>1, <1>2, FS_Subset
<1>. QED
  BY <1>3, FS_CardinalityType DEF Sent, SentReads

LEMMA SentStays ==
    ASSUME TypeOK, OnePlaceEach, OpsMove, TasksMove
    PROVE  Sent' = Sent
<1>1. SentReads' = SentReads
  BY PendingMoves DEF SentReads, OpsMove, Same
<1>. QED
  BY <1>1 DEF Sent, SentReads

\* The reads stay in order: the pending one is the same, or it is new and
\* every message that was sent has been delivered.
LEMMA ReadsMove ==
    ASSUME StreamInv, OpsMove, TasksMove,
           delivered' = delivered \/ \A i \in Ids : ops[i].type = "Read" => ~Pending(i)',
           Len(ops') = Len(ops) + 1 /\ ops'[Len(ops) + 1].type = "Read" => Sent = Len(delivered')
    PROVE  ReadsInOrder'
<1>1. TypeOK /\ OnePlaceEach
  BY DEF StreamInv
<1>2. /\ \A i \in Ids : Pending(i)' => Pending(i)
      /\ \A i \in Ids' : i \in Ids \/ (i = Len(ops) + 1 /\ Len(ops') = Len(ops) + 1)
      /\ Sent' = Sent
  BY <1>1, PendingMoves, SentStays
<1>3. ASSUME NEW i \in Ids'
      PROVE  /\ ops'[i].ok => ops'[i].at = "off"
             /\ ops'[i].type = "Read" /\ ops'[i].live /\ Pending(i)' =>
                  /\ Sent = Len(delivered') + (IF ops'[i].ok THEN 1 ELSE 0)
                  /\ ops'[i].ok => ops'[i].msg = Len(delivered') + 1
  <2>1. CASE i \in Ids
    <3>1. Same(i)
      BY <2>1 DEF OpsMove
    <3>2. ops[i].type = "Read" /\ Pending(i)' => delivered' = delivered /\ Pending(i)
      BY <1>2, <2>1
    <3>. QED
      BY <2>1, <3>1, <3>2 DEF StreamInv, ReadsInOrder, Same
  <2>2. CASE i = Len(ops) + 1 /\ Len(ops') = Len(ops) + 1
    <3>1. ~ops'[i].ok
      BY <2>2, OpsTyped, <1>1 DEF OpsMove
    <3>2. Sent \in Nat
      BY <1>1, SentFinite
    <3>. QED
      BY <2>2, <3>1, <3>2
  <2>. QED
    BY <1>2, <2>1, <2>2
<1>. QED
  BY <1>2, <1>3 DEF ReadsInOrder

\* TypeOK in two halves: the bookkeeping of operations, and the rest.
OpsOK == ops \in Seq(Op) /\ completions \subseteq Ids /\ poller \in {0} \cup Ids /\ tasks \in Seq(Ids)

DataOK ==
    /\ worker \in {Idle} \cup [at : {"lastWrite", "drainOps", "drainAll"}, why : Whys]
    /\ call \in {"new", "live", "dead"} /\ observer \in {"set", "unset", "destroyed"}
    /\ {finished, activeWrite, failed} \subseteq BOOLEAN
    /\ buffer \in Seq(1 .. MaxWrites + 1) /\ wire \in Seq(1 .. MaxWrites + 1)
    /\ written \in 0 .. MaxWrites + 1 /\ delivered \in Seq(1 .. MaxReads)
    /\ reports \in {0, 1}

LEMMA TypeSplits == (TypeOK <=> OpsOK /\ DataOK) /\ (TypeOK' <=> OpsOK' /\ DataOK')
<1>1. TypeOK <=> OpsOK /\ DataOK
  BY DEF TypeOK, OpsOK, DataOK, Op
<1>2. TypeOK' <=> OpsOK' /\ DataOK'
  BY DEF TypeOK, OpsOK, DataOK, Op
<1>. QED
  BY <1>1, <1>2

\* The operations stay well typed in such a step.
LEMMA OpsTypeMoves ==
    ASSUME TypeOK, OnePlaceEach, OpsMove, TasksMove, ops' \in Seq(Op), completions' \subseteq Ids'
    PROVE  OpsOK'
<1>1. Ids \subseteq Ids'
  BY PendingMoves
<1>2. tasks' \in Seq(Ids)
  BY TasksTyped DEF TasksMove
<1>3. tasks' \in Seq(Ids')
  <2>1. Len(tasks') \in Nat /\ \A k \in 1..Len(tasks') : tasks'[k] \in Ids
    BY <1>2
  <2>2. tasks' = [k \in 1..Len(tasks') |-> tasks'[k]]
    BY <1>2
  <2>3. tasks' \in [1..Len(tasks') -> Ids']
    BY <1>1, <2>1, <2>2
  <2>. QED
    BY <2>1, <2>3
<1>4. poller' \in {0} \cup Ids'
  BY <1>1 DEF TypeOK, OpsMove
<1>. QED
  BY <1>3, <1>4 DEF OpsOK

\* What taking the head off a queue does: every other element moves up by one.
LEMMA TailFacts ==
    ASSUME NEW S, NEW q \in Seq(S), q # <<>>
    PROVE  /\ Tail(q) \in Seq(S)
           /\ Len(q) \in Nat \ {0}
           /\ Len(Tail(q)) = Len(q) - 1
           /\ \A i \in 1..Len(Tail(q)) : Tail(q)[i] = q[i + 1] /\ i + 1 \in 1..Len(q)
           /\ Head(q) = q[1] /\ q[1] \in S
OBVIOUS

LEMMA OneOver ==
    /\ \A a, b, x \in Nat : x = a + 1 => a + (b + 1) = x + b
    /\ \A a \in Nat, b \in Nat \ {0} : \A x, y : x = a + 1 /\ y = b - 1 => x + y = a + b
OBVIOUS

\* TryStartWrite: at most one write is added, and it carries the number that
\* the wire lacks.
LEMMA WriteMoves ==
    ASSUME StreamInv, UNCHANGED poller, TasksMove,
           NEW c \in SUBSET Ids, NEW q \in Seq(1..MaxWrites + 1), NEW active \in BOOLEAN,
           TryStartWrite(ops, c, q, active),
           active = activeWrite \/ \A i \in Ids : ops[i].type = "Write" => ~Pending(i)',
           Continues(q, written')
    PROVE  /\ OpsMove /\ OpsOK' /\ c \subseteq completions'
           /\ completions' \subseteq c \cup {Len(ops) + 1}
           /\ \A i \in Ids : ops'[i] = ops[i]
           /\ Len(ops') = Len(ops) + 1 => ops'[Len(ops) + 1].type = "Write"
           /\ OnePendingOfEach' /\ WriteIsActive' /\ WritesInOrder'
           /\ activeWrite' \in BOOLEAN
           /\ buffer' \in Seq(1 .. MaxWrites + 1) /\ wire' \in Seq(1 .. MaxWrites + 1)
           /\ wire' = wire \/ wire' = Append(wire, Len(wire) + 1)
<1>1. TypeOK /\ OnePlaceEach /\ OnePendingOfEach /\ WriteIsActive /\ ops \in Seq(Op) /\ Len(ops) \in Nat
  BY OpsTyped DEF StreamInv
<1>2. wire \in Seq(1..MaxWrites + 1) /\ Len(wire) \in Nat /\ Len(q) \in Nat
  BY <1>1 DEF TypeOK
<1>3. CASE q = <<>> \/ active
  <2>1. /\ ops' = ops /\ completions' = c /\ buffer' = q /\ activeWrite' = active /\ wire' = wire
    BY <1>3 DEF TryStartWrite
  <2>2. OpsMove
    BY <2>1 DEF OpsMove, Same
  <2>3. OpsOK'
    BY <1>1, <2>1, <2>2, OpsTypeMoves DEF Ids
  <2>4. OnePendingOfEach'
    BY <1>1, <2>1, <2>2, OnePendingMoves
  <2>5. WriteIsActive'
    BY <1>1, <2>1, <2>2, PendingMoves DEF WriteIsActive, Ids
  <2>6. WritesInOrder'
    <3>1. wire' = wire /\ buffer' = q
      BY <2>1
    <3>. QED
      BY <3>1 DEF WritesInOrder, Continues
  <2>. QED
    BY <1>1, <1>2, <2>1, <2>2, <2>3, <2>4, <2>5, <2>6
<1>4. CASE q # <<>> /\ ~active
  <2>1. /\ ops' = Issue(ops, "Write") /\ completions' = c \cup {Len(ops) + 1}
        /\ buffer' = Tail(q) /\ activeWrite' = TRUE /\ wire' = Append(wire, Head(q))
    BY <1>4 DEF TryStartWrite
  <2>2. /\ ops' \in Seq(Op) /\ Len(ops') = Len(ops) + 1
        /\ \A i \in Ids : ops'[i] = ops[i]
        /\ ops'[Len(ops) + 1].type = "Write" /\ ops'[Len(ops) + 1].at = "grpc"
        /\ ~ops'[Len(ops) + 1].ok
    BY <1>1, <2>1, IssueFacts DEF Ids
  <2>3. OpsMove
    BY <2>1, <2>2 DEF OpsMove, Same
  <2>4. completions' \subseteq Ids'
    <3>1. \A i \in c : i \in 1..Len(ops)
      BY DEF Ids
    <3>2. \A i \in 1..Len(ops) : i \in 1..Len(ops')
      BY <1>1, <2>2
    <3>3. Len(ops) + 1 \in 1..Len(ops')
      BY <1>1, <2>2
    <3>. QED
      BY <2>1, <3>1, <3>2, <3>3 DEF Ids
  <2>5. OpsOK'
    BY <1>1, <2>2, <2>3, <2>4, OpsTypeMoves
  <2>6. \A i \in Ids : ops[i].type = "Write" => ~Pending(i)'
    BY <1>1, <1>4, <2>3, PendingMoves DEF WriteIsActive
  <2>7. OnePendingOfEach'
    BY <1>1, <2>2, <2>3, <2>6, OnePendingMoves
  <2>8. WriteIsActive'
    BY <2>1 DEF WriteIsActive
  <2>9. Len(q) \in Nat \ {0} /\ Head(q) = Len(wire) + 1 /\ Head(q) \in 1..MaxWrites + 1
    <3>1. Len(q) \in Nat \ {0} /\ Head(q) = q[1] /\ q[1] \in 1..MaxWrites + 1
      BY <1>4, TailFacts
    <3>2. 1 \in 1..Len(q)
      BY <3>1
    <3>. QED
      BY <3>1, <3>2 DEF Continues
  <2>10. wire' \in Seq(1..MaxWrites + 1) /\ Len(wire') = Len(wire) + 1
    BY <1>2, <2>1, <2>9
  <2>11. /\ buffer' \in Seq(1..MaxWrites + 1) /\ Len(buffer') = Len(q) - 1
         /\ \A k \in 1..Len(buffer') : buffer'[k] = q[k + 1] /\ k + 1 \in 1..Len(q)
    BY <1>4, <2>1, TailFacts
  <2>12. WritesInOrder'
    <3> DEFINE lw == Len(wire)
               lq == Len(q)
               lx == Len(wire')
               lb == Len(buffer')
    <3>1. \A k \in 1..lb : buffer'[k] = lw + (k + 1) /\ k \in Nat
      BY <2>11 DEF Continues
    <3>4. lw \in Nat /\ lq \in Nat \ {0} /\ lx = lw + 1 /\ lb = lq - 1
      BY <1>2, <2>9, <2>10, <2>11
    <3>. HIDE DEF lw, lq, lx, lb
    <3>2. \A k \in 1..lb : buffer'[k] = lx + k
      BY <3>1, <3>4, OneOver
    <3>3. lx + lb = lw + lq
      BY <3>4, OneOver
    <3>. QED
      BY <3>2, <3>3 DEF WritesInOrder, Continues, lw, lq, lx, lb
  <2>. QED
    BY <2>1, <2>2, <2>3, <2>5, <2>7, <2>8, <2>9, <2>10, <2>11, <2>12
<1>. QED
  BY <1>3, <1>4

\* Shutdown cancels what it is given, and leaves the worker waiting: for a
\* call that had not been finished, for its operations first.
LEMMA ShutdownFacts ==
    ASSUME TypeOK, NEW o \in Seq(Op), NEW c, NEW why \in Whys, Shutdown(o, c, why)
    PROVE  /\ ops' \in Seq(Op) /\ Len(o) \in Nat /\ Len(ops') = Len(o) /\ completions' = c
           /\ \A i \in 1..Len(o) :
                 /\ ops'[i].type = o[i].type /\ ops'[i].at = o[i].at
                 /\ ops'[i].ok = o[i].ok /\ ops'[i].msg = o[i].msg
                 /\ ops'[i].live => o[i].live /\ i \notin c
           /\ worker' \in [at : {"drainOps", "drainAll"}, why : Whys]
           /\ worker'.why = why /\ worker' # Idle
           /\ worker'.at = "drainOps" => ~finished /\ finished'
           /\ finished' \in BOOLEAN /\ (finished => finished')
           /\ call' \in {"live", "dead"} \/ call' = call
<1>1. ops' = CancelAll(o, c) /\ completions' = c
  BY DEF Shutdown
<1>2. finished \in BOOLEAN
  BY DEF TypeOK
<1>3. CASE c # {} /\ ~finished
  <2>1. call' = "dead" /\ finished' = TRUE /\ worker' = [at |-> "drainOps", why |-> why]
    BY <1>3 DEF Shutdown
  <2>. QED
    BY <1>1, <1>3, <2>1, CancelFacts DEF Idle
<1>4. CASE ~(c # {} /\ ~finished)
  <2>1. UNCHANGED <<call, finished>> /\ worker' = [at |-> "drainAll", why |-> why]
    BY <1>4 DEF Shutdown
  <2>. QED
    BY <1>1, <1>2, <2>1, CancelFacts DEF Idle
<1>. QED
  BY <1>3, <1>4

\* A stop by the owner, by the connectivity monitor or by the end of the call.
LEMMA StopKeepsInv ==
    ASSUME StreamInv, observer = "set", call # "new", TasksMove,
           NEW c \in SUBSET Ids, NEW why \in Whys, Shutdown(ops, c, why),
           UNCHANGED <<poller, observer, buffer, activeWrite, written, wire, delivered,
                       reports, failed>>,
           \A i \in completions \cap Ids : i \in c \/ (ops[i].at = "off" /\ ~Pending(i)'),
           written > MaxWrites => why = "close"
    PROVE  StreamInv'
<1> USE DEF StreamInv
<1>1. TypeOK /\ OnePlaceEach /\ ops \in Seq(Op)
  BY OpsTyped
<1>2. /\ ops' \in Seq(Op) /\ Len(ops') = Len(ops) /\ completions' = c
      /\ \A i \in Ids : Same(i) /\ (ops'[i].live => i \notin c)
      /\ worker' \in [at : {"drainOps", "drainAll"}, why : Whys]
      /\ worker'.why = why /\ worker' # Idle
      /\ worker'.at = "drainOps" => ~finished /\ finished'
      /\ finished' \in BOOLEAN /\ (finished => finished')
      /\ call' \in {"live", "dead"} \/ call' = call
  BY <1>1, ShutdownFacts DEF Same, Ids
<1>3. OpsMove /\ Ids' = Ids
  BY <1>2 DEF OpsMove, Ids
<1>4. OpsOK'
  BY <1>1, <1>2, <1>3, OpsTypeMoves
<1>5. DataOK'
  BY <1>1, <1>2 DEF TypeOK, DataOK
<1>6. OnePlaceEach' /\ \A i \in Ids : Pending(i)' => Pending(i)
  BY <1>1, <1>3, PendingMoves
<1>7. OnePendingOfEach'
  BY <1>1, <1>2, <1>3, OnePendingMoves DEF OpsMove, Ids
<1>8. WriteIsActive'
  BY <1>3, <1>6 DEF WriteIsActive, OpsMove, Same
<1>9. FinishIsLast'
  BY <1>2, <1>3 DEF FinishIsLast, Same
<1>10. ListedWhilePending'
  BY <1>1, <1>2, <1>3, ListedMoves
<1>11. SilentWhileDraining'
  BY <1>2 DEF SilentWhileDraining
<1>12. Phases'
  BY <1>2 DEF Phases
<1>13. ReadsInOrder'
  <2>1. ~(Len(ops') = Len(ops) + 1)
    BY <1>1, <1>2, OpsTyped
  <2>. QED
    BY <1>3, <2>1, ReadsMove
<1>14. WritesInOrder' /\ NoCallbackAstray'
  BY DEF WritesInOrder, Continues, NoCallbackAstray
<1>. QED
  BY <1>4, <1>5, <1>6, <1>7, <1>8, <1>9, <1>10, <1>11, <1>12, <1>13, <1>14, TypeSplits

LEMMA OwnerStopsKeepInv ==
    ASSUME StreamInv, FinishImmediately \/ LastWriteDone \/ ConnectivityChanged
    PROVE  StreamInv'
<1> USE DEF StreamInv
<1>1. completions \in SUBSET Ids /\ TasksMove
  BY DEF TypeOK, FinishImmediately, LastWriteDone, ConnectivityChanged, TasksMove
<1>2. CASE FinishImmediately
  BY <1>1, <1>2, StopKeepsInv DEF FinishImmediately, Whys
<1>3. CASE LastWriteDone
  <2>1. worker # Idle
    BY <1>3 DEF LastWriteDone, Idle
  <2>2. observer = "set" /\ call # "new"
    BY <2>1 DEF Phases
  <2>. QED
    BY <1>1, <1>3, <2>2, StopKeepsInv DEF LastWriteDone, Whys
<1>4. CASE ConnectivityChanged
  <2>1. ~(written > MaxWrites)
    BY <1>4 DEF ConnectivityChanged, Phases
  <2>. QED
    BY <1>1, <1>4, <2>1, StopKeepsInv DEF ConnectivityChanged, Whys
<1>. QED
  BY <1>2, <1>3, <1>4

\* The first read is the first operation.
LEMMA StartKeepsInv ==
    ASSUME StreamInv, Start
    PROVE  StreamInv'
<1> USE DEF StreamInv
<1>1. TypeOK /\ OnePlaceEach /\ ops \in Seq(Op)
  BY OpsTyped
<1>2. /\ ops = <<>> /\ completions = {} /\ poller = 0 /\ tasks = <<>>
      /\ worker = Idle /\ observer = "set" /\ ~finished /\ delivered = <<>>
  BY DEF Start, Phases
<1>3. Len(ops) = 0 /\ Ids = {}
  BY <1>2 DEF Ids
<1>4. /\ ops' \in Seq(Op) /\ Len(ops') = Len(ops) + 1
      /\ ops'[1].type = "Read" /\ ops'[1].at = "grpc" /\ ops'[1].live /\ ~ops'[1].ok
      /\ completions' = {1} /\ call' = "live"
      /\ UNCHANGED <<poller, tasks, worker, finished, observer, buffer, activeWrite,
                     written, wire, delivered, reports, failed>>
  <2>1. /\ ops' = Issue(ops, "Read") /\ completions' = {Len(ops) + 1} /\ call' = "live"
        /\ UNCHANGED <<poller, tasks, worker, finished, observer, buffer, activeWrite,
                       written, wire, delivered, reports, failed>>
    BY DEF Start
  <2>2. /\ ops' \in Seq(Op) /\ Len(ops') = Len(ops) + 1
        /\ ops'[Len(ops) + 1].type = "Read" /\ ops'[Len(ops) + 1].at = "grpc"
        /\ ops'[Len(ops) + 1].live /\ ~ops'[Len(ops) + 1].ok
    BY <1>1, <2>1, IssueFacts
  <2>3. Len(ops) + 1 = 1
    BY <1>3
  <2>. QED
    BY <2>1, <2>2, <2>3
<1>5. OpsMove /\ TasksMove /\ Ids' = {1}
  BY <1>3, <1>4 DEF OpsMove, Ids, TasksMove
<1>6. OpsOK'
  BY <1>1, <1>4, <1>5, OpsTypeMoves
<1>7. DataOK'
  BY <1>1, <1>4 DEF TypeOK, DataOK
<1>8. OnePlaceEach' /\ OnePendingOfEach'
  BY <1>1, <1>3, <1>5, PendingMoves, OnePendingMoves
<1>9. WriteIsActive' /\ FinishIsLast' /\ ListedWhilePending'
  BY <1>4, <1>5 DEF WriteIsActive, FinishIsLast, ListedWhilePending
<1>10. SilentWhileDraining' /\ Phases'
  BY <1>2, <1>4 DEF SilentWhileDraining, Phases, Idle
<1>11. ReadsInOrder'
  <2>1. Sent = 0 /\ Len(delivered) = 0
    <3>1. SentReads = {}
      BY <1>3 DEF SentReads
    <3>. QED
      BY <1>1, <1>2, <3>1, SentFinite, FS_EmptySet
  <2>. QED
    BY <1>4, <1>5, <2>1, ReadsMove
<1>12. WritesInOrder' /\ NoCallbackAstray'
  BY <1>4 DEF WritesInOrder, Continues, NoCallbackAstray
<1>. QED
  BY <1>6, <1>7, <1>8, <1>9, <1>10, <1>11, <1>12, TypeSplits

\* A write of the owner, the last one before it closes the stream included.
LEMMA WriteKeepsInv ==
    ASSUME StreamInv, Write \/ WriteAndFinish
    PROVE  StreamInv' /\ (wire' = wire \/ wire' = Append(wire, Len(wire) + 1))
<1> USE DEF StreamInv
<1> DEFINE q == Append(buffer, written')
<1>1. TypeOK /\ OnePlaceEach
  OBVIOUS
<1>2. /\ worker = Idle /\ observer = "set" /\ call # "new" /\ written <= MaxWrites
      /\ written' = written + 1
      /\ TryStartWrite(ops, completions, q, activeWrite)
      /\ UNCHANGED <<poller, tasks, call, finished, observer, delivered, reports, failed>>
      /\ worker' = Idle => written' <= MaxWrites
      /\ worker' \in {Idle, [at |-> "lastWrite", why |-> "close"]}
  <2>1. CASE Write
    BY <1>1, <2>1, BoundsAssumption DEF Write, TypeOK
  <2>2. CASE WriteAndFinish
    <3>1. worker = Idle /\ observer = "set" /\ delivered # <<>>
      BY <2>2 DEF WriteAndFinish
    <3>2. call # "new"
      BY <3>1 DEF Phases
    <3>3. ~(written > MaxWrites)
      BY <3>1 DEF Phases
    <3>4. written <= MaxWrites
      BY <1>1, <3>3, BoundsAssumption DEF TypeOK
    <3>. QED
      BY <2>2, <3>1, <3>2, <3>4 DEF WriteAndFinish, Idle
  <2>. QED
    BY <2>1, <2>2
<1>3. written' \in 1..MaxWrites + 1 /\ MaxWrites \in Nat /\ written \in Nat
  BY <1>1, <1>2, BoundsAssumption DEF TypeOK
<1>4. /\ q \in Seq(1..MaxWrites + 1) /\ Len(buffer) \in Nat /\ Len(q) = Len(buffer) + 1
      /\ \A k \in 1..Len(buffer) : q[k] = buffer[k]
      /\ q[Len(buffer) + 1] = written'
  BY <1>1, <1>3 DEF TypeOK
<1>5. Continues(q, written')
  <2> DEFINE lw == Len(wire)
             lb == Len(buffer)
             lq == Len(q)
  <2>1. lw + lb = written /\ \A k \in 1..lb : q[k] = lw + k
    BY <1>4 DEF WritesInOrder, Continues
  <2>2. lw \in Nat /\ lb \in Nat /\ lq = lb + 1 /\ q[lb + 1] = written'
    BY <1>1, <1>4 DEF TypeOK
  <2>. HIDE DEF lw, lb, lq, q
  <2>3. written' = lw + lq
    BY <1>2, <2>1, <2>2
  <2>4. \A k \in 1..lq : k \in 1..lb \/ k = lb + 1
    BY <2>2
  <2>5. q[lb + 1] = lw + (lb + 1)
    BY <1>2, <2>1, <2>2
  <2>. QED
    BY <2>1, <2>3, <2>4, <2>5 DEF Continues, lw, lb, lq
<1>. HIDE DEF q
<1>6. TasksMove /\ completions \in SUBSET Ids /\ activeWrite \in BOOLEAN /\ UNCHANGED poller
  BY <1>1, <1>2 DEF TasksMove, TypeOK
<1>7. /\ OpsMove /\ OpsOK' /\ completions \subseteq completions'
      /\ completions' \subseteq completions \cup {Len(ops) + 1}
      /\ \A i \in Ids : ops'[i] = ops[i]
      /\ Len(ops') = Len(ops) + 1 => ops'[Len(ops) + 1].type = "Write"
      /\ OnePendingOfEach' /\ WriteIsActive' /\ WritesInOrder'
      /\ activeWrite' \in BOOLEAN
      /\ buffer' \in Seq(1 .. MaxWrites + 1) /\ wire' \in Seq(1 .. MaxWrites + 1)
      /\ wire' = wire \/ wire' = Append(wire, Len(wire) + 1)
  <2>. HIDE DEF StreamInv
  <2>. QED
    BY <1>2, <1>4, <1>5, <1>6, WriteMoves
<1>8. DataOK'
  BY <1>1, <1>2, <1>3, <1>7 DEF TypeOK, DataOK, Whys
<1>9. /\ OnePlaceEach' /\ \A i \in Ids : Pending(i)' => Pending(i)
      /\ \A i \in Ids' : i \in Ids \/ (i = Len(ops) + 1 /\ Len(ops') = Len(ops) + 1)
  BY <1>1, <1>6, <1>7, PendingMoves
<1>10. worker'.at \notin {"drainOps", "drainAll"}
  BY <1>2 DEF Idle
<1>11. FinishIsLast'
  BY <1>2, <1>7, <1>9, <1>10 DEF FinishIsLast
<1>12. ListedWhilePending'
  BY <1>1, <1>6, <1>7, ListedMoves
<1>13. SilentWhileDraining'
  BY <1>10 DEF SilentWhileDraining
<1>14. Phases'
  <2>1. written' > MaxWrites => worker' # Idle /\ worker'.why = "close"
    BY <1>2, <1>3 DEF Idle
  <2>. QED
    BY <1>2, <1>10, <2>1 DEF Phases
<1>15. ReadsInOrder'
  BY <1>2, <1>6, <1>7, ReadsMove
<1>16. NoCallbackAstray'
  BY <1>2 DEF NoCallbackAstray
<1>. QED
  BY <1>7, <1>8, <1>9, <1>11, <1>12, <1>13, <1>14, <1>15, <1>16, TypeSplits

\* Finish goes to gRPC when everything else has come back, and only once.
LEMMA SubmitKeepsInv ==
    ASSUME StreamInv, SubmitFinish
    PROVE  StreamInv'
<1> USE DEF StreamInv
<1>1. TypeOK /\ OnePlaceEach /\ ops \in Seq(Op) /\ Len(ops) \in Nat
  BY OpsTyped
<1> DEFINE n == Len(ops) + 1
<1>2. /\ worker.at = "drainOps" /\ worker # Idle /\ AllOff(completions)
      /\ completions' = {n}
      /\ UNCHANGED <<poller, tasks, call, finished, observer, buffer, activeWrite,
                     written, wire, delivered, reports, failed>>
  BY DEF SubmitFinish, Idle
<1>3. worker \in [at : {"lastWrite", "drainOps", "drainAll"}, why : Whys]
  BY <1>1, <1>2 DEF TypeOK
<1>4. /\ worker.why = "failed" => worker' = Idle
      /\ worker.why # "failed" => worker' = [at |-> "drainAll", why |-> worker.why]
  BY <1>3 DEF SubmitFinish
<1>5. /\ ops' \in Seq(Op) /\ Len(ops') = n
      /\ \A i \in Ids : Same(i)
      /\ ops'[n].type = "Finish" /\ ops'[n].at = "grpc" /\ ~ops'[n].ok
      /\ worker.why # "failed" => ~ops'[n].live
  <2> DEFINE o == Issue(ops, "Finish")
  <2>1. /\ o \in Seq(Op) /\ Len(o) = n
        /\ \A i \in Ids : o[i] = ops[i]
        /\ o[n].type = "Finish" /\ o[n].at = "grpc" /\ ~o[n].ok
    BY <1>1, IssueFacts DEF Ids
  <2>2. ops' = o \/ (ops' = CancelAll(o, {n}) /\ worker.why # "failed")
    BY DEF SubmitFinish
  <2>3. ops' = o => worker.why = "failed" \/ ops' = CancelAll(o, {n})
    BY DEF SubmitFinish
  <2>. HIDE DEF o
  <2>4. CASE ops' = o /\ worker.why = "failed"
    BY <2>1, <2>4 DEF Same
  <2>5. CASE ops' = CancelAll(o, {n})
    <3>1. n \in 1..Len(o) /\ n \in {n} /\ \A i \in Ids : i \in 1..Len(o)
      BY <1>1, <2>1 DEF Ids
    <3>. HIDE DEF n
    <3>. QED
      BY <2>1, <2>5, <3>1, CancelFacts DEF Same
  <2>. QED
    BY <2>2, <2>3, <2>4, <2>5
<1>6. OpsMove /\ TasksMove
  BY <1>2, <1>5 DEF OpsMove, TasksMove
<1>7. completions' \subseteq Ids' /\ n \in Ids'
  BY <1>1, <1>2, <1>5 DEF Ids
<1>8. OpsOK'
  BY <1>1, <1>5, <1>6, <1>7, OpsTypeMoves
<1>9. worker' \in {Idle} \cup [at : {"drainAll"}, why : Whys]
  BY <1>3, <1>4
<1>10. DataOK'
  BY <1>1, <1>2, <1>9 DEF TypeOK, DataOK
<1>11. \A i \in Ids : ops[i].type # "Finish"
  BY <1>2 DEF FinishIsLast
<1>12. /\ OnePlaceEach' /\ \A i \in Ids : Pending(i)' => Pending(i)
       /\ \A i \in Ids' : i \in Ids \/ i = n
  BY <1>1, <1>6, PendingMoves
<1>13. OnePendingOfEach'
  BY <1>1, <1>5, <1>6, <1>11, OnePendingMoves
<1>14. WriteIsActive'
  BY <1>2, <1>5, <1>12 DEF WriteIsActive, Same
<1>15. finished
  BY <1>2 DEF Phases
<1>16. FinishIsLast'
  BY <1>2, <1>9, <1>15 DEF FinishIsLast, Idle
<1>17. \A i \in completions \cap Ids : ops[i].at = "off" /\ ~ops'[i].live
  BY <1>2, <1>5 DEF AllOff, SilentWhileDraining, Same
<1>18. ListedWhilePending'
  BY <1>1, <1>6, <1>17, ListedMoves
<1>19. SilentWhileDraining'
  BY <1>2, <1>4, <1>5 DEF SilentWhileDraining, Idle
<1>20. Phases'
  BY <1>2, <1>3, <1>4, <1>15 DEF Phases, Idle
<1>21. ReadsInOrder'
  BY <1>2, <1>5, <1>6, ReadsMove
<1>22. WritesInOrder' /\ NoCallbackAstray'
  BY <1>2 DEF WritesInOrder, Continues, NoCallbackAstray
<1>. QED
  BY <1>8, <1>10, <1>12, <1>13, <1>14, <1>16, <1>18, <1>19, <1>20, <1>21, <1>22, TypeSplits

\* Shutdown returns when gRPC holds nothing: the list may be forgotten.
LEMMA ReturnKeepsInv ==
    ASSUME StreamInv, ShutdownReturns
    PROVE  StreamInv'
<1> USE DEF StreamInv
<1>1. TypeOK /\ OnePlaceEach /\ ops \in Seq(Op) /\ Len(ops) \in Nat
  BY OpsTyped
<1>2. /\ worker.at = "drainAll" /\ worker # Idle /\ AllOff(completions)
      /\ completions' = {} /\ worker' = Idle /\ observer' = "destroyed"
      /\ UNCHANGED <<ops, poller, tasks, call, finished, buffer, activeWrite, written,
                     wire, delivered, failed>>
  BY DEF ShutdownReturns, Idle
<1>3. observer = "set" /\ reports = 0 /\ call # "new"
  BY <1>2 DEF Phases
<1>4. reports' \in {0, 1}
  BY <1>3 DEF ShutdownReturns
<1>5. OpsMove /\ TasksMove /\ Ids' = Ids
  BY <1>2 DEF OpsMove, TasksMove, Same, Ids
<1>6. OpsOK'
  BY <1>1, <1>2, <1>5, OpsTypeMoves
<1>7. DataOK'
  BY <1>1, <1>2, <1>4 DEF TypeOK, DataOK
<1>8. OnePlaceEach' /\ \A i \in Ids : Pending(i)' => Pending(i)
  BY <1>1, <1>5, PendingMoves
<1>9. OnePendingOfEach'
  BY <1>1, <1>2, <1>5, OnePendingMoves
<1>10. WriteIsActive'
  BY <1>2, <1>5, <1>8 DEF WriteIsActive
<1>11. FinishIsLast'
  BY <1>2, <1>5 DEF FinishIsLast, Idle
<1>12. \A i \in completions \cap Ids : ops[i].at = "off" /\ ~ops'[i].live
  BY <1>2 DEF AllOff, SilentWhileDraining
<1>13. ListedWhilePending'
  BY <1>1, <1>5, <1>12, ListedMoves
<1>14. SilentWhileDraining' /\ Phases'
  BY <1>2, <1>3 DEF SilentWhileDraining, Phases, Idle
<1>15. ReadsInOrder'
  BY <1>1, <1>2, <1>5, ReadsMove
<1>16. WritesInOrder' /\ NoCallbackAstray'
  BY <1>2 DEF WritesInOrder, Continues, NoCallbackAstray
<1>. QED
  BY <1>6, <1>7, <1>8, <1>9, <1>10, <1>11, <1>13, <1>14, <1>15, <1>16, TypeSplits

LEMMA CallFailsKeepsInv ==
    ASSUME StreamInv, CallFails
    PROVE  StreamInv'
<1> USE DEF StreamInv
<1>1. TypeOK /\ OnePlaceEach /\ ops \in Seq(Op) /\ Len(ops) \in Nat
  BY OpsTyped
<1>2. /\ call' = "dead"
      /\ UNCHANGED <<ops, completions, poller, tasks, worker, finished, observer, buffer,
                     activeWrite, written, wire, delivered, reports, failed>>
  BY DEF CallFails
<1>3. OpsMove /\ TasksMove /\ Ids' = Ids
  BY <1>2 DEF OpsMove, TasksMove, Same, Ids
<1>4. OpsOK' /\ DataOK'
  BY <1>1, <1>2, <1>3, OpsTypeMoves DEF TypeOK, DataOK
<1>5. OnePlaceEach' /\ OnePendingOfEach' /\ \A i \in Ids : Pending(i)' => Pending(i)
  BY <1>1, <1>2, <1>3, PendingMoves, OnePendingMoves
<1>6. WriteIsActive' /\ FinishIsLast' /\ SilentWhileDraining'
  BY <1>2, <1>3, <1>5 DEF WriteIsActive, FinishIsLast, SilentWhileDraining
<1>7. ListedWhilePending'
  BY <1>1, <1>2, <1>3, ListedMoves
<1>8. Phases'
  BY <1>2 DEF Phases
<1>9. ReadsInOrder'
  BY <1>1, <1>2, <1>3, ReadsMove
<1>10. WritesInOrder' /\ NoCallbackAstray'
  BY <1>2 DEF WritesInOrder, Continues, NoCallbackAstray
<1>. QED
  BY <1>4, <1>5, <1>6, <1>7, <1>8, <1>9, <1>10, TypeSplits

\* The poller hands its operation on: it stays pending.
LEMMA EnqueueKeepsInv ==
    ASSUME StreamInv, PollerEnqueues
    PROVE  StreamInv'
<1> USE DEF StreamInv
<1>1. TypeOK /\ OnePlaceEach /\ tasks \in Seq(Ids) /\ poller \in Ids /\ poller # 0
  BY DEF PollerEnqueues, TypeOK
<1>2. /\ poller' = 0 /\ tasks' = Append(tasks, poller)
      /\ UNCHANGED <<ops, completions, worker, call, finished, observer, buffer,
                     activeWrite, written, wire, delivered, reports, failed>>
  BY DEF PollerEnqueues
<1>3. /\ Len(tasks) \in Nat /\ Len(tasks') = Len(tasks) + 1 /\ tasks' \in Seq(Ids)
      /\ \A k \in 1..Len(tasks) : tasks'[k] = tasks[k] /\ tasks[k] \in Ids
      /\ tasks'[Len(tasks) + 1] = poller
  BY <1>1, <1>2
<1>4. /\ \A k \in 1..Len(tasks') : k \in 1..Len(tasks) \/ k = Len(tasks) + 1
      /\ \A k \in 1..Len(tasks) : k \in 1..Len(tasks')
      /\ Len(tasks) + 1 \in 1..Len(tasks')
  BY <1>3
<1>5. \A i : Queued(i)' <=> (Queued(i) \/ i = poller)
  BY <1>3, <1>4 DEF Queued
<1>6. Ids' = Ids /\ 0 \notin Ids
  BY <1>2 DEF Ids
<1>7. \A i \in Ids : Pending(i)' <=> Pending(i)
  BY <1>2, <1>5, <1>6 DEF Pending
<1>8. OnePlaceEach'
  <2>1. ops[poller].at = "off" /\ \A k \in 1..Len(tasks) : tasks[k] # poller
    BY <1>1 DEF OnePlaceEach, Queued
  <2>2. \A k \in 1..Len(tasks') : ops[tasks'[k]].at = "off"
    BY <1>3, <1>4, <2>1 DEF OnePlaceEach
  <2>3. \A k, l \in 1..Len(tasks') : tasks'[k] = tasks'[l] => k = l
    BY <1>3, <1>4, <2>1 DEF OnePlaceEach
  <2>. QED
    BY <1>2, <2>2, <2>3 DEF OnePlaceEach
<1>9. OpsOK' /\ DataOK'
  BY <1>1, <1>2, <1>3, <1>6, OpsTyped DEF TypeOK, OpsOK, DataOK
<1>10. OnePendingOfEach' /\ WriteIsActive' /\ FinishIsLast' /\ ListedWhilePending' /\ SilentWhileDraining'
  BY <1>2, <1>6, <1>7
  DEF OnePendingOfEach, WriteIsActive, FinishIsLast, ListedWhilePending, SilentWhileDraining
<1>11. Phases'
  BY <1>1, <1>2 DEF Phases
<1>12. Sent' = Sent
  BY <1>2, <1>6 DEF Sent
<1>13. ReadsInOrder'
  BY <1>2, <1>6, <1>7, <1>12 DEF ReadsInOrder
<1>14. WritesInOrder' /\ NoCallbackAstray'
  BY <1>2 DEF WritesInOrder, Continues, NoCallbackAstray
<1>. QED
  BY <1>8, <1>9, <1>10, <1>11, <1>13, <1>14, TypeSplits

\* gRPC gives an operation back: it stays pending, and a read that succeeds
\* brings the message after all those sent before.
LEMMA PollKeepsInv ==
    ASSUME StreamInv, NEW id \in Ids, NEW ok \in BOOLEAN, Poll(id, ok)
    PROVE  StreamInv'
<1> USE DEF StreamInv
<1> DEFINE read == ok /\ ops[id].type = "Read"
           m    == IF read THEN Sent + 1 ELSE 0
<1>1. TypeOK /\ OnePlaceEach /\ ops \in Seq(Op) /\ Len(ops) \in Nat /\ ops[id] \in Op
  BY OpsTyped
<1>2. /\ poller = 0 /\ poller' = id /\ ops[id].at = "grpc" /\ Outcome(ops[id], ok)
      /\ ops' = [ops EXCEPT ![id] = [ops[id] EXCEPT !.at = "off", !.ok = ok, !.msg = m]]
      /\ UNCHANGED <<completions, tasks, worker, call, finished, observer, buffer,
                     activeWrite, written, wire, delivered, reports, failed>>
  BY <1>1 DEF Poll
<1>3. Sent \in Nat /\ (read => Sent < MaxReads)
  BY <1>1, <1>2, SentFinite DEF Outcome
<1>4. m \in 0..MaxReads
  BY <1>3, BoundsAssumption
<1>. HIDE DEF m
<1> DEFINE new == [ops[id] EXCEPT !.at = "off", !.ok = ok, !.msg = m]
<1>5. /\ new \in Op /\ new.at = "off" /\ new.ok = ok /\ new.msg = m
      /\ new.type = ops[id].type /\ new.live = ops[id].live
  BY <1>1, <1>4 DEF Op
<1>. HIDE DEF new
<1>6. /\ ops' \in Seq(Op) /\ Len(ops') = Len(ops) /\ Ids' = Ids /\ ops'[id] = new
      /\ \A i \in Ids : i # id => ops'[i] = ops[i]
  <2>1. ops' = [ops EXCEPT ![id] = new]
    BY <1>2 DEF new
  <2>. QED
    BY <1>1, <1>5, <2>1 DEF Ids
<1>7. /\ \A i \in Ids : ops'[i].type = ops[i].type /\ ops'[i].live = ops[i].live
      /\ \A i \in Ids : ops'[i].at = "grpc" => ops[i].at = "grpc"
  BY <1>5, <1>6
<1>8. ~Queued(id)
  BY <1>2 DEF OnePlaceEach, Queued
<1>9. \A i \in Ids : Pending(i)' <=> Pending(i)
  <2>1. \A i \in Ids : i # 0
    BY DEF Ids
  <2>. QED
    BY <1>2, <1>5, <1>6, <2>1 DEF Pending, Queued
<1>10. OnePlaceEach'
  <2>1. \A k \in 1..Len(tasks) : tasks[k] \in Ids
    BY <1>1, TasksTyped
  <2>2. \A k \in 1..Len(tasks) : ops'[tasks[k]].at = "off"
    BY <1>1, <1>5, <1>6, <2>1 DEF OnePlaceEach
  <2>. QED
    BY <1>2, <1>5, <1>6, <1>8, <2>2 DEF OnePlaceEach, Queued
<1>11. OpsOK' /\ DataOK'
  BY <1>1, <1>2, <1>6 DEF TypeOK, OpsOK, DataOK
<1>12. OnePendingOfEach' /\ WriteIsActive' /\ FinishIsLast' /\ ListedWhilePending' /\ SilentWhileDraining'
  BY <1>2, <1>6, <1>7, <1>9
  DEF OnePendingOfEach, WriteIsActive, FinishIsLast, ListedWhilePending, SilentWhileDraining
<1>13. Phases'
  <2>1. call # "new"
    <3>1. id \in 1..Len(ops)
      BY DEF Ids
    <3>2. ops # <<>>
      BY <3>1
    <3>. QED
      BY <3>2 DEF Phases
  <2>. QED
    BY <1>2, <2>1 DEF Phases
<1>14. ~ops[id].ok
  BY <1>2 DEF ReadsInOrder
<1>15. Sent' = Sent + (IF read THEN 1 ELSE 0)
  <2>1. CASE read
    <3>1. SentReads' = SentReads \cup {id} /\ id \notin SentReads
      BY <1>5, <1>6, <1>14, <2>1 DEF SentReads
    <3>2. Cardinality(SentReads') = Cardinality(SentReads) + 1
      BY <1>1, <3>1, SentFinite, FS_AddElement
    <3>. QED
      BY <2>1, <3>2 DEF Sent, SentReads
  <2>2. CASE ~read
    <3>1. SentReads' = SentReads
      BY <1>5, <1>6, <1>14, <2>2 DEF SentReads
    <3>2. Sent' = Sent
      BY <3>1 DEF Sent, SentReads
    <3>. QED
      BY <1>3, <2>2, <3>2
  <2>. QED
    BY <2>1, <2>2
<1>16. ReadsInOrder'
  <2>1. ASSUME NEW i \in Ids
        PROVE  /\ ops'[i].ok => ops'[i].at = "off"
               /\ ops'[i].type = "Read" /\ ops'[i].live /\ Pending(i) =>
                    /\ Sent' = Len(delivered) + (IF ops'[i].ok THEN 1 ELSE 0)
                    /\ ops'[i].ok => ops'[i].msg = Len(delivered) + 1
    <3>1. CASE i = id
      <4>1. ops[i].type = "Read" /\ ops[i].live => Sent = Len(delivered) /\ Len(delivered) \in Nat
        BY <1>1, <1>2, <1>14, <3>1 DEF ReadsInOrder, Pending, TypeOK
      <4>. QED
        BY <1>3, <1>5, <1>6, <1>15, <3>1, <4>1 DEF m
    <3>2. CASE i # id
      <4>1. ops[i].type = "Read" /\ Pending(i) => ~read
        BY <1>2, <3>2 DEF OnePendingOfEach, Pending
      <4>. QED
        BY <1>3, <1>6, <1>15, <3>2, <4>1 DEF ReadsInOrder
    <3>. QED
      BY <3>1, <3>2
  <2>. QED
    BY <1>2, <1>6, <1>9, <2>1 DEF ReadsInOrder
<1>17. WritesInOrder' /\ NoCallbackAstray'
  BY <1>2 DEF WritesInOrder, Continues, NoCallbackAstray
<1>. QED
  BY <1>10, <1>11, <1>12, <1>13, <1>16, <1>17, TypeSplits

\* The worker takes the task of operation id off its queue.
TakesTask(id) ==
    /\ worker = Idle /\ tasks # <<>> /\ id = Head(tasks) /\ tasks' = Tail(tasks)
    /\ UNCHANGED <<poller, observer, written, reports>>

\* A callback that runs is that of a listed operation of an open stream.
LEMMA LiveTask ==
    ASSUME StreamInv, NEW id, TakesTask(id)
    PROVE  /\ id \in Ids /\ Pending(id) /\ ops[id].at = "off" /\ TasksMove /\ UNCHANGED poller
           /\ ops'[id].at = "off" => ~Pending(id)'
           /\ call # "new"
           /\ ops[id].live => id \in completions /\ observer = "set"
           /\ written > MaxWrites => observer = "destroyed"
<1> USE DEF StreamInv
<1>1. TypeOK /\ OnePlaceEach
  OBVIOUS
<1>2. /\ id \in Ids /\ ops[id].at = "off" /\ id # poller /\ Queued(id)
      /\ ~Queued(id)'
  BY <1>1, TaskTaken DEF TakesTask
<1>3. Pending(id) /\ TasksMove /\ UNCHANGED poller
  BY <1>2 DEF Pending, TasksMove, TakesTask
<1>4. ops'[id].at = "off" => ~Pending(id)'
  BY <1>2, <1>3 DEF Pending
<1>5. call # "new" /\ observer # "unset"
  BY DEF TakesTask, Phases
<1>6. ops[id].live => id \in completions
  BY <1>2, <1>3 DEF ListedWhilePending
<1>7. observer = "destroyed" => completions = {}
  BY DEF Phases
<1>8. observer \in {"set", "destroyed"}
  BY <1>1, <1>5 DEF TypeOK
<1>9. written > MaxWrites => observer = "destroyed"
  BY DEF Phases, TakesTask
<1>. QED
  BY <1>2, <1>3, <1>4, <1>5, <1>6, <1>7, <1>8, <1>9

\* The task of a cancelled operation does nothing.
LEMMA DeadTaskKeepsInv ==
    ASSUME StreamInv, NEW id, TakesTask(id), ~ops[id].live,
           UNCHANGED <<ops, completions, worker, call, finished, buffer, activeWrite,
                       wire, delivered, failed>>
    PROVE  StreamInv'
<1> USE DEF StreamInv
<1>1. TypeOK /\ OnePlaceEach /\ ops \in Seq(Op) /\ Len(ops) \in Nat
  BY OpsTyped
<1>2. OpsMove /\ TasksMove /\ Ids' = Ids /\ UNCHANGED <<poller, observer, written, reports>>
  BY DEF OpsMove, TasksMove, Same, Ids, TakesTask
<1>4. OpsOK' /\ DataOK'
  BY <1>1, <1>2, OpsTypeMoves DEF TypeOK, DataOK
<1>5. OnePlaceEach' /\ OnePendingOfEach' /\ \A i \in Ids : Pending(i)' => Pending(i)
  BY <1>1, <1>2, PendingMoves, OnePendingMoves
<1>6. WriteIsActive' /\ FinishIsLast' /\ SilentWhileDraining'
  BY <1>2, <1>5 DEF WriteIsActive, FinishIsLast, SilentWhileDraining
<1>7. ListedWhilePending'
  BY <1>1, <1>2, ListedMoves
<1>8. Phases'
  BY <1>2 DEF Phases, TakesTask
<1>9. ReadsInOrder'
  BY <1>1, <1>2, ReadsMove
<1>10. WritesInOrder' /\ NoCallbackAstray'
  BY <1>2 DEF WritesInOrder, Continues, NoCallbackAstray
<1>. QED
  BY <1>4, <1>5, <1>6, <1>7, <1>8, <1>9, <1>10, TypeSplits

\* An operation failed: it is off the list, and the others are cancelled.
LEMMA FailedTaskKeepsInv ==
    ASSUME StreamInv, NEW id, TakesTask(id), ops[id].live, UNCHANGED failed,
           OnOperationFailed(completions \ {id})
    PROVE  StreamInv'
<1> USE DEF StreamInv
<1> DEFINE rest == completions \ {id}
<1>1. TypeOK /\ OnePlaceEach /\ ops \in Seq(Op) /\ Len(ops) \in Nat
  BY OpsTyped
<1>2. /\ id \in Ids /\ ops[id].at = "off" /\ TasksMove /\ UNCHANGED poller
      /\ ops'[id].at = "off" => ~Pending(id)'
      /\ call # "new" /\ id \in completions /\ observer = "set"
      /\ ~(written > MaxWrites)
  BY LiveTask
<1>3. /\ completions' = rest
      /\ UNCHANGED <<call, buffer, activeWrite, wire, delivered, failed, observer, written, reports>>
      /\ \/ finished /\ UNCHANGED <<ops, worker, finished>>
         \/ /\ ~finished /\ finished' = TRUE /\ ops' = CancelAll(ops, rest)
            /\ worker' = [at |-> "drainOps", why |-> "failed"]
  BY DEF OnOperationFailed, TakesTask
<1>4. /\ ops' \in Seq(Op) /\ Len(ops') = Len(ops)
      /\ \A i \in Ids : Same(i)
      /\ \/ finished /\ UNCHANGED <<ops, worker, finished>> /\ worker' = Idle
         \/ /\ ~finished /\ finished' = TRUE /\ \A i \in rest \cap Ids : ~ops'[i].live
            /\ worker' = [at |-> "drainOps", why |-> "failed"]
  <2>1. worker = Idle
    BY DEF TakesTask
  <2>2. CASE finished /\ UNCHANGED <<ops, worker, finished>>
    BY <1>1, <2>1, <2>2 DEF Same
  <2>3. CASE /\ ~finished /\ finished' = TRUE /\ ops' = CancelAll(ops, rest)
             /\ worker' = [at |-> "drainOps", why |-> "failed"]
    <3>. HIDE DEF rest
    <3>1. /\ ops' \in Seq(Op) /\ Len(ops') = Len(ops)
          /\ \A i \in Ids : Same(i) /\ (ops'[i].live => i \notin rest)
      BY <1>1, <2>3, CancelFacts DEF Same, Ids
    <3>. QED
      BY <2>3, <3>1
  <2>. QED
    BY <1>3, <2>2, <2>3
<1>5. OpsMove /\ Ids' = Ids
  BY <1>2, <1>4 DEF OpsMove, Ids
<1>6. completions' \subseteq Ids'
  BY <1>1, <1>3, <1>5 DEF TypeOK
<1>7. OpsOK'
  BY <1>1, <1>2, <1>4, <1>5, <1>6, OpsTypeMoves
<1>8. DataOK'
  <2>1. worker' \in {Idle} \cup [at : {"lastWrite", "drainOps", "drainAll"}, why : Whys] /\ finished' \in BOOLEAN
    <3>1. [at |-> "drainOps", why |-> "failed"]
            \in [at : {"lastWrite", "drainOps", "drainAll"}, why : Whys]
      BY DEF Whys
    <3>2. worker' = Idle \/ worker' = [at |-> "drainOps", why |-> "failed"]
      BY <1>4
    <3>3. finished' \in BOOLEAN
      BY <1>1, <1>4 DEF TypeOK
    <3>. QED
      BY <3>1, <3>2, <3>3
  <2>. QED
    BY <1>1, <1>3, <2>1 DEF TypeOK, DataOK
<1>9. OnePlaceEach' /\ \A i \in Ids : Pending(i)' => Pending(i)
  BY <1>1, <1>2, <1>5, PendingMoves
<1>10. OnePendingOfEach'
  BY <1>1, <1>2, <1>4, <1>5, OnePendingMoves
<1>11. WriteIsActive'
  BY <1>3, <1>4, <1>5, <1>9 DEF WriteIsActive, Same
<1>12. FinishIsLast'
  BY <1>4, <1>5 DEF FinishIsLast, Same, Idle
<1>13. ~Pending(id)'
  BY <1>2, <1>4 DEF Same
<1>14. ListedWhilePending'
  BY <1>1, <1>2, <1>3, <1>5, <1>13, ListedMoves
<1>15. SilentWhileDraining'
  <2>1. rest \subseteq Ids
    BY <1>1 DEF TypeOK
  <2>. QED
    BY <1>3, <1>4, <2>1 DEF SilentWhileDraining, Idle
<1>16. Phases'
  BY <1>2, <1>3, <1>4 DEF Phases, Idle
<1>17. ReadsInOrder'
  BY <1>1, <1>2, <1>3, <1>4, <1>5, ReadsMove
<1>18. WritesInOrder' /\ NoCallbackAstray'
  BY <1>3 DEF WritesInOrder, Continues, NoCallbackAstray
<1>. QED
  BY <1>7, <1>8, <1>9, <1>10, <1>11, <1>12, <1>14, <1>15, <1>16, <1>17, <1>18, TypeSplits

\* Finish has returned: the stream shuts down.
LEMMA FinishTaskKeepsInv ==
    ASSUME StreamInv, NEW id, TakesTask(id), ops[id].live, UNCHANGED failed,
           OnFinish(completions \ {id})
    PROVE  StreamInv'
<1>1. /\ id \in Ids /\ ops[id].at = "off" /\ TasksMove
      /\ ops'[id].at = "off" => ~Pending(id)'
      /\ call # "new" /\ observer = "set" /\ ~(written > MaxWrites)
  BY LiveTask
<1>2. TypeOK /\ ops \in Seq(Op)
  BY OpsTyped DEF StreamInv
<1>3. Shutdown(ops, completions \ {id}, "ended") /\ "ended" \in Whys
  BY DEF OnFinish, Whys
<1>4. ~Pending(id)'
  BY <1>1, <1>2, <1>3, ShutdownFacts DEF Ids
<1>5. completions \ {id} \in SUBSET Ids
  BY <1>2 DEF TypeOK
<1>. QED
  BY <1>1, <1>3, <1>4, <1>5, StopKeepsInv DEF OnFinish, TakesTask

\* A message was written: the next one of the buffer goes out.
LEMMA WriteTaskKeepsInv ==
    ASSUME StreamInv, NEW id, TakesTask(id), ops[id].live, UNCHANGED failed,
           ops[id].type = "Write", OnWrite(completions \ {id})
    PROVE  StreamInv' /\ (wire' = wire \/ wire' = Append(wire, Len(wire) + 1))
<1> USE DEF StreamInv
<1> DEFINE rest == completions \ {id}
<1>1. TypeOK /\ OnePlaceEach /\ ops \in Seq(Op) /\ Len(ops) \in Nat
  BY OpsTyped
<1>2. /\ id \in Ids /\ Pending(id) /\ ops[id].at = "off" /\ TasksMove /\ UNCHANGED poller
      /\ ops'[id].at = "off" => ~Pending(id)'
      /\ call # "new" /\ id \in completions /\ observer = "set"
      /\ ~(written > MaxWrites)
  BY LiveTask
<1>3. /\ TryStartWrite(ops, rest, buffer, FALSE)
      /\ UNCHANGED <<worker, call, finished, delivered, failed, observer, written, reports>>
      /\ worker = Idle
  BY DEF OnWrite, TakesTask
<1>. HIDE DEF rest
<1>4. rest \in SUBSET Ids /\ rest = completions \ {id}
  BY <1>1 DEF TypeOK, rest
<1>5. \A i \in Ids : ops'[i] = ops[i]
  <2>1. CASE ops' = ops
    BY <2>1
  <2>2. CASE ops' = Issue(ops, "Write")
    <3>1. \A i \in 1..Len(ops) : Issue(ops, "Write")[i] = ops[i]
      BY <1>1, IssueFacts
    <3>. QED
      BY <2>2, <3>1 DEF Ids
  <2>. QED
    BY <1>3, <2>1, <2>2 DEF TryStartWrite
<1>6. ~Pending(id)'
  BY <1>2, <1>5
<1>7. \A i \in Ids : ops[i].type = "Write" /\ i # id => ~Pending(i)
  BY <1>2 DEF OnePendingOfEach
<1>8. \A i \in Ids : ops[i].type = "Write" => ~Pending(i)'
  <2>1. ASSUME NEW i \in Ids, i # id, ~Pending(i) PROVE ~Pending(i)'
    <3>1. ops'[i].at = ops[i].at
      BY <1>5
    <3>2. Queued(i)' => Queued(i)
      BY <1>1, TaskTaken DEF TakesTask
    <3>. QED
      BY <1>2, <2>1, <3>1, <3>2 DEF Pending
  <2>. QED
    BY <1>6, <1>7, <2>1
<1>9. Continues(buffer, written') /\ buffer \in Seq(1..MaxWrites + 1)
  BY <1>1, <1>3 DEF WritesInOrder, Continues, TypeOK
<1>10. /\ OpsMove /\ OpsOK' /\ rest \subseteq completions'
       /\ \A i \in Ids : ops'[i] = ops[i]
       /\ Len(ops') = Len(ops) + 1 => ops'[Len(ops) + 1].type = "Write"
       /\ OnePendingOfEach' /\ WriteIsActive' /\ WritesInOrder'
       /\ activeWrite' \in BOOLEAN
       /\ buffer' \in Seq(1 .. MaxWrites + 1) /\ wire' \in Seq(1 .. MaxWrites + 1)
       /\ wire' = wire \/ wire' = Append(wire, Len(wire) + 1)
  <2>. HIDE DEF StreamInv
  <2>. QED
    BY <1>2, <1>3, <1>4, <1>8, <1>9, WriteMoves
<1>11. DataOK'
  BY <1>1, <1>3, <1>10 DEF TypeOK, DataOK
<1>12. /\ OnePlaceEach'
       /\ \A i \in Ids' : i \in Ids \/ (i = Len(ops) + 1 /\ Len(ops') = Len(ops) + 1)
  BY <1>1, <1>2, <1>10, PendingMoves
<1>13. FinishIsLast'
  BY <1>3, <1>10, <1>12 DEF FinishIsLast
<1>14. ListedWhilePending'
  BY <1>1, <1>2, <1>4, <1>6, <1>10, ListedMoves
<1>15. SilentWhileDraining'
  BY <1>3 DEF SilentWhileDraining, Idle
<1>16. Phases'
  BY <1>2, <1>3 DEF Phases, Idle
<1>17. ReadsInOrder'
  BY <1>1, <1>2, <1>3, <1>10, ReadsMove
<1>18. NoCallbackAstray'
  BY <1>3 DEF NoCallbackAstray
<1>. QED
  BY <1>10, <1>11, <1>12, <1>13, <1>14, <1>15, <1>16, <1>17, <1>18, TypeSplits

\* A message arrives: the next read is at gRPC before the observer sees it,
\* and the observer may then finish the stream.
LEMMA ReadTaskKeepsInv ==
    ASSUME StreamInv, NEW id, TakesTask(id), ops[id].live, UNCHANGED failed,
           ops[id].ok, ops[id].type = "Read", OnRead(completions \ {id}, ops[id].msg)
    PROVE  StreamInv' /\ delivered' = Append(delivered, Len(delivered) + 1)
<1> USE DEF StreamInv
<1> DEFINE n    == Len(ops) + 1
           next == Issue(ops, "Read")
           all  == (completions \ {id}) \cup {n}
<1>1. TypeOK /\ OnePlaceEach /\ ops \in Seq(Op) /\ Len(ops) \in Nat
  BY OpsTyped
<1>2. /\ id \in Ids /\ Pending(id) /\ ops[id].at = "off" /\ TasksMove /\ UNCHANGED poller
      /\ ops'[id].at = "off" => ~Pending(id)'
      /\ call # "new" /\ id \in completions /\ observer = "set"
      /\ ~(written > MaxWrites)
  BY LiveTask
<1>3. /\ delivered' = Append(delivered, ops[id].msg)
      /\ \/ ops' = next /\ completions' = all /\ UNCHANGED <<worker, call, finished>>
         \/ Shutdown(next, all, "close")
      /\ UNCHANGED <<buffer, activeWrite, wire, failed, observer, written, reports>>
      /\ worker = Idle
  BY DEF OnRead, TakesTask
<1>4. ops[id].msg = Len(delivered) + 1 /\ Sent = Len(delivered) + 1
  BY <1>2 DEF ReadsInOrder
<1>5. ops[id].msg \in 0..MaxReads
  BY <1>1, <1>2, OpsTyped DEF Op
<1>6. /\ delivered' \in Seq(1..MaxReads) /\ Len(delivered') = Len(delivered) + 1
      /\ delivered' = Append(delivered, Len(delivered) + 1)
  <2>1. delivered \in Seq(1..MaxReads) /\ Len(delivered) \in Nat
    BY <1>1 DEF TypeOK
  <2>2. ops[id].msg \in 1..MaxReads
    BY <1>4, <1>5, <2>1
  <2>. QED
    BY <1>3, <1>4, <2>1, <2>2
<1>7. /\ next \in Seq(Op) /\ Len(next) = n
      /\ \A i \in Ids : next[i] = ops[i]
      /\ next[n].type = "Read" /\ next[n].at = "grpc" /\ ~next[n].ok
  BY <1>1, IssueFacts DEF Ids
<1>8. 1..Len(next) = Ids \cup {n}
  BY <1>1, <1>7 DEF Ids
<1>9. /\ ops' \in Seq(Op) /\ Len(ops') = n /\ completions' = all
      /\ \A i \in Ids : Same(i)
      /\ ops'[n].type = "Read" /\ ops'[n].at = "grpc" /\ ~ops'[n].ok
      /\ \/ UNCHANGED <<worker, call, finished>>
         \/ /\ \A i \in all \cap (Ids \cup {n}) : ~ops'[i].live
            /\ worker' \in [at : {"drainOps", "drainAll"}, why : Whys]
            /\ worker'.why = "close" /\ worker' # Idle
            /\ worker'.at = "drainOps" => ~finished /\ finished'
            /\ finished' \in BOOLEAN /\ (finished => finished')
            /\ call' \in {"live", "dead"} \/ call' = call
  <2>. HIDE DEF next, n, all
  <2>1. CASE ops' = next /\ completions' = all /\ UNCHANGED <<worker, call, finished>>
    BY <1>7, <2>1 DEF Same
  <2>2. CASE Shutdown(next, all, "close")
    <3>1. "close" \in Whys
      BY DEF Whys
    <3>2. n \in Ids \cup {n} /\ Ids \subseteq Ids \cup {n}
      OBVIOUS
    <3>. QED
      BY <1>1, <1>7, <1>8, <2>2, <3>1, <3>2, ShutdownFacts DEF Same
  <2>. QED
    BY <1>3, <2>1, <2>2
<1>. HIDE DEF next
<1>10. OpsMove
  BY <1>2, <1>9 DEF OpsMove
<1>11. Ids' = Ids \cup {n} /\ completions' \subseteq Ids'
  <2>1. Ids' = 1..n /\ completions' = all /\ completions \subseteq Ids
    BY <1>1, <1>9 DEF Ids, TypeOK
  <2>2. 1..n = Ids \cup {n}
    BY <1>1 DEF Ids
  <2>. HIDE DEF n
  <2>. QED
    BY <2>1, <2>2
<1>12. OpsOK'
  BY <1>1, <1>2, <1>9, <1>10, <1>11, OpsTypeMoves
<1>13. DataOK'
  <2>1. /\ worker' \in {Idle} \cup [at : {"lastWrite", "drainOps", "drainAll"}, why : Whys]
        /\ call' \in {"new", "live", "dead"} /\ finished' \in BOOLEAN
    BY <1>1, <1>9 DEF TypeOK
  <2>. QED
    BY <1>1, <1>3, <1>6, <2>1 DEF TypeOK, DataOK
<1>14. OnePlaceEach' /\ \A i \in Ids : Pending(i)' => Pending(i)
  BY <1>1, <1>2, <1>10, PendingMoves
<1>15. ~Pending(id)'
  BY <1>2, <1>9 DEF Same
<1>16. \A i \in Ids : ops[i].type = "Read" => ~Pending(i)'
  BY <1>2, <1>14, <1>15 DEF OnePendingOfEach
<1>17. OnePendingOfEach'
  BY <1>1, <1>2, <1>9, <1>10, <1>16, OnePendingMoves
<1>18. WriteIsActive'
  BY <1>3, <1>9, <1>11, <1>14 DEF WriteIsActive, Same
<1>19. FinishIsLast'
  BY <1>3, <1>9, <1>11 DEF FinishIsLast, Same
<1>20. ListedWhilePending'
  BY <1>1, <1>2, <1>9, <1>10, <1>15, ListedMoves
<1>21. SilentWhileDraining'
  <2>1. all \subseteq Ids \cup {n}
    BY <1>1 DEF TypeOK
  <2>. QED
    BY <1>3, <1>9, <2>1 DEF SilentWhileDraining, Idle
<1>22. Phases'
  BY <1>2, <1>3, <1>9 DEF Phases, Idle
<1>23. ReadsInOrder'
  BY <1>4, <1>2, <1>6, <1>10, <1>16, ReadsMove
<1>24. WritesInOrder' /\ NoCallbackAstray'
  BY <1>3 DEF WritesInOrder, Continues, NoCallbackAstray
<1>. QED
  BY <1>6, <1>12, <1>13, <1>14, <1>17, <1>18, <1>19, <1>20, <1>21, <1>22, <1>23, <1>24, TypeSplits

-----------------------------------------------------------------------------
(* Every step                                                              *)

\* What the owner of the stream sees of a step, and the phase it sees it in.
Seen == [Promise!Next]_Promise!vars

Phase == CASE observer = "destroyed" -> "ended" [] call = "new" -> "new" [] OTHER -> "open"

LEMMA PhaseSeen ==
    ASSUME StreamInv
    PROVE  /\ observer = "destroyed" => Phase = "ended"
           /\ call = "new" => Phase = "new"
           /\ observer # "destroyed" /\ call # "new" => Phase = "open"
<1>1. call = "new" => observer # "destroyed"
  BY DEF StreamInv, Phases
<1>2. CASE observer = "destroyed"
  BY <1>1, <1>2 DEF Phase
<1>3. CASE call = "new"
  BY <1>1, <1>3 DEF Phase
<1>4. CASE observer # "destroyed" /\ call # "new"
  BY <1>4 DEF Phase
<1>. QED
  BY <1>2, <1>3, <1>4

LEMMA PhaseSeenNext ==
    StreamInv' => (/\ observer = "destroyed" => Phase = "ended"
                   /\ call = "new" => Phase = "new"
                   /\ observer # "destroyed" /\ call # "new" => Phase = "open")'
<1>1. StreamInv => /\ observer = "destroyed" => Phase = "ended"
                   /\ call = "new" => Phase = "new"
                   /\ observer # "destroyed" /\ call # "new" => Phase = "open"
  BY PhaseSeen
<1>. QED
  BY <1>1, PTL

\* A step that moves nothing the owner sees.
LEMMA NothingSeen ==
    ASSUME StreamInv, StreamInv', UNCHANGED <<observer, wire, delivered, reports>>,
           call' = call \/ (call # "new" /\ call' # "new")
    PROVE  Seen
<1>1. Phase' = Phase
  BY PhaseSeen, PhaseSeenNext
<1>. QED
  BY <1>1 DEF Seen, Phase, Promise!vars

LEMMA SendSeen ==
    ASSUME StreamInv, StreamInv', UNCHANGED <<observer, call, delivered, reports>>,
           observer = "set", call # "new",
           wire' = wire \/ wire' = Append(wire, Len(wire) + 1)
    PROVE  Seen
<1>1. Phase' = Phase /\ Phase = "open"
  BY PhaseSeen, PhaseSeenNext
<1>. QED
  BY <1>1 DEF Seen, Phase, Promise!vars, Promise!Next, Promise!Send

LEMMA DeliverSeen ==
    ASSUME StreamInv, StreamInv', UNCHANGED <<observer, wire, reports>>,
           observer = "set", call # "new", call' # "new",
           delivered' = Append(delivered, Len(delivered) + 1)
    PROVE  Seen
<1>1. Phase' = Phase /\ Phase = "open"
  BY PhaseSeen, PhaseSeenNext
<1>. QED
  BY <1>1 DEF Seen, Phase, Promise!vars, Promise!Next, Promise!Deliver

LEMMA InitStreamInv == Init => StreamInv /\ Promise!Init
<1> SUFFICES ASSUME Init PROVE StreamInv /\ Promise!Init
  OBVIOUS
<1>1. Ids = {} /\ Len(tasks) = 0 /\ Len(buffer) = 0 /\ Len(wire) = 0
  BY DEF Init, Ids
<1>2. OpsOK
  BY DEF Init, OpsOK
<1>7. DataOK
  <2>1. 0 \in 0 .. MaxWrites + 1
    BY BoundsAssumption
  <2>2. \A S : <<>> \in Seq(S)
    OBVIOUS
  <2>3. buffer \in Seq(1 .. MaxWrites + 1) /\ wire \in Seq(1 .. MaxWrites + 1)
    BY <2>2, Zenon DEF Init
  <2>4. delivered \in Seq(1 .. MaxReads)
    BY <2>2, Zenon DEF Init
  <2>5. written \in 0 .. MaxWrites + 1
    BY <2>1, Zenon DEF Init
  <2>. QED
    BY <2>3, <2>4, <2>5 DEF Init, DataOK
<1>3. OnePlaceEach /\ OnePendingOfEach /\ WriteIsActive /\ FinishIsLast /\ ListedWhilePending
  BY <1>1 DEF Init, OnePlaceEach, OnePendingOfEach, WriteIsActive, FinishIsLast, ListedWhilePending
<1>4. SilentWhileDraining /\ Phases /\ ReadsInOrder /\ WritesInOrder /\ NoCallbackAstray
  BY <1>1, BoundsAssumption DEF Init, SilentWhileDraining, Phases, ReadsInOrder, WritesInOrder,
     Continues, NoCallbackAstray, Idle
<1>5. StreamInv
  BY <1>2, <1>3, <1>4, <1>7, TypeSplits DEF StreamInv
<1>6. Phase = "new"
  BY <1>5, PhaseSeen DEF Init
<1>. QED
  BY <1>5, <1>6 DEF Init, Phase, Promise!Init

LEMMA RunTaskKeepsInv ==
    ASSUME StreamInv, RunTask
    PROVE  StreamInv' /\ Seen
<1>1. PICK id : TakesTask(id)
  BY DEF RunTask, TakesTask
<1>2. /\ ops[id].live => id \in completions /\ observer = "set"
      /\ call # "new"
  BY <1>1, LiveTask
<1>3. CASE ~ops[id].live
  <2>1. UNCHANGED <<ops, completions, worker, call, finished, buffer, activeWrite,
                    wire, delivered, failed>>
    BY <1>1, <1>3 DEF RunTask, TakesTask
  <2>2. StreamInv'
    BY <1>1, <1>3, <2>1, DeadTaskKeepsInv
  <2>. QED
    BY <1>1, <2>1, <2>2, NothingSeen DEF TakesTask
<1>4. CASE ops[id].live
  <2>1. /\ failed' = (failed \/ id \notin completions \/ observer = "destroyed")
        /\ \/ ~ops[id].ok /\ OnOperationFailed(completions \ {id})
           \/ ops[id].ok /\ ops[id].type = "Read" /\ OnRead(completions \ {id}, ops[id].msg)
           \/ ops[id].ok /\ ops[id].type = "Write" /\ OnWrite(completions \ {id})
           \/ ops[id].ok /\ ops[id].type = "Finish" /\ OnFinish(completions \ {id})
    BY <1>1, <1>4 DEF RunTask, TakesTask
  <2>2. UNCHANGED failed
    <3>1. failed = FALSE
      BY DEF StreamInv, NoCallbackAstray, TypeOK
    <3>. QED
      BY <1>2, <1>4, <2>1, <3>1
  <2>3. CASE OnOperationFailed(completions \ {id})
    <3>1. StreamInv'
      BY <1>1, <1>4, <2>2, <2>3, FailedTaskKeepsInv
    <3>. QED
      BY <1>1, <2>3, <3>1, NothingSeen DEF TakesTask, OnOperationFailed
  <2>4. CASE ops[id].ok /\ ops[id].type = "Read" /\ OnRead(completions \ {id}, ops[id].msg)
    <3>1. StreamInv' /\ delivered' = Append(delivered, Len(delivered) + 1)
      BY <1>1, <1>4, <2>2, <2>4, ReadTaskKeepsInv
    <3>2. call' # "new"
      BY <1>2, <2>4 DEF OnRead, Shutdown
    <3>. QED
      BY <1>1, <1>2, <1>4, <2>4, <3>1, <3>2, DeliverSeen DEF TakesTask, OnRead
  <2>5. CASE ops[id].type = "Write" /\ OnWrite(completions \ {id})
    <3>1. StreamInv' /\ (wire' = wire \/ wire' = Append(wire, Len(wire) + 1))
      BY <1>1, <1>4, <2>2, <2>5, WriteTaskKeepsInv
    <3>. QED
      BY <1>1, <1>2, <1>4, <2>5, <3>1, SendSeen DEF TakesTask, OnWrite
  <2>6. CASE OnFinish(completions \ {id})
    <3>1. StreamInv'
      BY <1>1, <1>4, <2>2, <2>6, FinishTaskKeepsInv
    <3>2. call' = call \/ call' # "new"
      BY <2>6 DEF OnFinish, Shutdown
    <3>. QED
      BY <1>1, <1>2, <2>6, <3>1, <3>2, NothingSeen DEF TakesTask, OnFinish
  <2>. QED
    BY <2>1, <2>3, <2>4, <2>5, <2>6
<1>. QED
  BY <1>3, <1>4

LEMMA NextStreamInv == StreamInv /\ [Next]_vars => StreamInv' /\ Seen
<1> SUFFICES ASSUME StreamInv, [Next]_vars PROVE StreamInv' /\ Seen
  OBVIOUS
<1>1. CASE Start
  <2>1. StreamInv'
    BY <1>1, StartKeepsInv
  <2>2. Phase = "new" /\ Phase' = "open"
    BY <1>1, <2>1, PhaseSeen, PhaseSeenNext DEF Start
  <2>. QED
    BY <1>1, <2>1, <2>2 DEF Start, Seen, Phase, Promise!vars, Promise!Next, Promise!Open
<1>2. CASE Write \/ WriteAndFinish
  <2>1. StreamInv' /\ (wire' = wire \/ wire' = Append(wire, Len(wire) + 1))
    BY <1>2, WriteKeepsInv
  <2>2. observer = "set" /\ call # "new"
    BY <1>2 DEF Write, WriteAndFinish, StreamInv, Phases
  <2>. QED
    BY <1>2, <2>1, <2>2, SendSeen DEF Write, WriteAndFinish
<1>3. CASE FinishImmediately \/ LastWriteDone \/ ConnectivityChanged
  <2>1. StreamInv'
    BY <1>3, OwnerStopsKeepInv
  <2>2. call' = call \/ (call # "new" /\ call' # "new")
    <3>1. call # "new"
      BY <1>3 DEF FinishImmediately, LastWriteDone, ConnectivityChanged, StreamInv, Phases, Idle
    <3>2. call' = call \/ call' = "dead"
      BY <1>3 DEF FinishImmediately, LastWriteDone, ConnectivityChanged, Shutdown
    <3>. QED
      BY <3>1, <3>2
  <2>. QED
    BY <1>3, <2>1, <2>2, NothingSeen DEF FinishImmediately, LastWriteDone, ConnectivityChanged
<1>4. CASE SubmitFinish
  BY <1>4, SubmitKeepsInv, NothingSeen DEF SubmitFinish
<1>5. CASE ShutdownReturns
  <2>1. StreamInv' /\ worker # Idle
    BY <1>5, ReturnKeepsInv DEF ShutdownReturns, Idle
  <2>2. observer = "set" /\ call # "new" /\ observer' = "destroyed" /\ UNCHANGED <<wire, delivered>>
    BY <1>5, <2>1 DEF StreamInv, Phases, ShutdownReturns
  <2>3. Phase = "open" /\ Phase' = "ended"
    BY <2>1, <2>2, PhaseSeen, PhaseSeenNext
  <2>4. reports' \in {0, 1}
    BY <2>1 DEF StreamInv, TypeOK
  <2>. QED
    BY <2>1, <2>2, <2>3, <2>4 DEF Seen, Phase, Promise!vars, Promise!Next, Promise!End
<1>6. CASE CallFails
  BY <1>6, CallFailsKeepsInv, NothingSeen DEF CallFails
<1>7. CASE PollerEnqueues
  BY <1>7, EnqueueKeepsInv, NothingSeen DEF PollerEnqueues
<1>8. CASE GrpcReturns
  <2>1. PICK id \in Ids, ok \in BOOLEAN : Poll(id, ok)
    BY <1>8 DEF GrpcReturns
  <2>. QED
    BY <2>1, PollKeepsInv, NothingSeen DEF Poll
<1>9. CASE RunTask
  BY <1>9, RunTaskKeepsInv
<1>10. CASE UNCHANGED vars
  <2>1. StreamInv'
    <3>1. TypeOK' /\ OnePlaceEach' /\ OnePendingOfEach' /\ WriteIsActive' /\ FinishIsLast'
      BY <1>10 DEF StreamInv, vars, TypeOK, OnePlaceEach, OnePendingOfEach, WriteIsActive,
         FinishIsLast, Ids, Pending, Queued
    <3>2. ListedWhilePending' /\ SilentWhileDraining' /\ Phases'
      BY <1>10 DEF StreamInv, vars, ListedWhilePending, SilentWhileDraining, Phases,
         Ids, Pending, Queued
    <3>3. ReadsInOrder' /\ WritesInOrder' /\ NoCallbackAstray'
      BY <1>10 DEF StreamInv, vars, ReadsInOrder, WritesInOrder, Continues, NoCallbackAstray,
         Ids, Pending, Queued, Sent
    <3>. QED
      BY <3>1, <3>2, <3>3 DEF StreamInv
  <2>. QED
    BY <1>10, <2>1, NothingSeen DEF vars
<1>. QED
  BY <1>1, <1>2, <1>3, <1>4, <1>5, <1>6, <1>7, <1>8, <1>9, <1>10 DEF Next, Worker

-----------------------------------------------------------------------------
(* Theorems                                                                *)

\* The invariant holds of every behaviour, whatever the owner and the server do.
THEOREM StreamInvariance == Spec => []StreamInv
<1>1. StreamInv /\ [Next]_vars => StreamInv'
  BY NextStreamInv
<1>. QED
  BY InitStreamInv, <1>1, PTL DEF Spec

\* gRPC never has two reads, two writes or two Finish of a stream at once,
\* however many messages are written and read.
THEOREM OneOperationOfEach == Spec => []OperationsInStep
<1>1. StreamInv => OperationsInStep
  BY DEF StreamInv, OnePendingOfEach, Pending, OperationsInStep, OneOfEachAtGrpc
<1>. QED
  BY <1>1, StreamInvariance, PTL

\* Whenever the owner destroys the stream, the wait in Shutdown was enough: gRPC
\* has given everything back, and no callback that is left will touch it.
THEOREM NothingAfterTheEnd == Spec => []EndsClean
<1>1. StreamInv => EndsClean
  <2> SUFFICES ASSUME StreamInv PROVE EndsClean
    OBVIOUS
  <2>1. ASSUME observer = "destroyed", NEW i \in Ids
        PROVE  /\ ops[i].at = "off"
               /\ ops[i].live => i \notin completions
               /\ ops[i].live => i # poller /\ i \notin {tasks[k] : k \in DOMAIN tasks}
    <3>1. completions = {}
      BY <2>1 DEF StreamInv, Phases
    <3>2. ops[i].at = "off"
      BY <3>1, <2>1, OpsTyped DEF StreamInv, ListedWhilePending, Op
    <3>3. ops[i].live => ~Pending(i)
      BY <3>1, <2>1 DEF StreamInv, ListedWhilePending
    <3>4. DOMAIN tasks = 1..Len(tasks)
      BY TasksTyped DEF StreamInv
    <3>. QED
      BY <3>1, <3>2, <3>3, <3>4 DEF Pending, Queued
  <2>. QED
    BY <2>1 DEF EndsClean, SafeToDestroy, StreamInv
<1>. QED
  BY <1>1, StreamInvariance, PTL

\* The stream implements the class comment of grpc_stream.h: messages go out and
\* come in one by one and in order, and an interruption is reported at most once.
THEOREM StreamKeepsPromise == Spec => PromiseSpec
<1>1. Init => Promise!Init
  BY InitStreamInv
<1>2. StreamInv /\ [Next]_vars => [Promise!Next]_Promise!vars
  BY NextStreamInv DEF Seen
<1>. QED
  BY <1>1, <1>2, StreamInvariance, PTL DEF Spec, PromiseSpec, Promise!Spec

===============================================================================
