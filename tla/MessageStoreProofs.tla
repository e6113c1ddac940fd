-------------------------- MODULE MessageStoreProofs --------------------------
(***************************************************************************)
(* Proofs about MessageStore, for any set of accounts and any bounds: the  *)
(* write pipeline, the cache and the server's log stay in step, no message *)
(* is lost or overtaken, and the store implements MessageBoard.            *)
(***************************************************************************)
EXTENDS MessageStore, SequenceTheorems, WellFoundedInduction, TLAPS

\* The messages of s exist and were written by u.
OwnedBy(s, u) == \A i \in 1..Len(s) : s[i] \in 1..Written /\ owner[s[i]] = u

Increasing(s) == \A i, j \in 1..Len(s) : i < j => s[i] < s[j]

Committed(m) == \E j \in 1..Len(log) : log[j].msg = m

Settled(m) == m \in rejected \/ Committed(m)

\* A queue holds messages of its account only, in the order they were written.
QueuesInOrder == \A u \in Accounts : OwnedBy(queue[u], u) /\ Increasing(queue[u])

\* What the server has not executed is the end of the pipeline, after the
\* writes it has answered; a stream that is not open carries nothing.
WireIsPipelineEnd ==
    /\ Len(wire) + Len(replies) <= Len(pipeline)
    /\ \A i \in 1..Len(wire) : wire[i] = pipeline[Len(pipeline) - Len(wire) + i]
    /\ stream # "open" => wire = <<>> /\ replies = <<>>

\* An acknowledgment on its way names the commit it is for.
AnswersAreCommits ==
    \A i \in 1..Len(replies) :
        replies[i].version > 0 =>
            /\ replies[i].version <= Len(log)
            /\ log[replies[i].version].msg = replies[i].msg

LogIsKnown == \A i \in 1..Len(log) : log[i].msg \in 1..Written

\* An ended stream carried messages of its user only.
OrphansAreKnown == \A o \in late : o.msgs # <<>> /\ OwnedBy(o.msgs, o.user)

\* Whatever its author wrote before a write of an ended stream is settled, or
\* is carried by that stream ahead of it.
OrphansInOrder ==
    \A o \in late : \A k \in 1..Len(o.msgs), m \in 1..Written :
        (m < o.msgs[k] /\ owner[m] = o.user) =>
            Settled(m) \/ \E j \in 1..(k - 1) : o.msgs[j] = m

StoreInv ==
    /\ TypeOK
    /\ QueuesInOrder
    /\ PipelineIsQueuePrefix
    /\ RepliesMatchPipeline
    /\ WireIsPipelineEnd
    /\ AnswersAreCommits
    /\ LogIsKnown
    /\ CommittedUnderOwner
    /\ CacheInStep
    /\ NoMessageLost
    /\ OrphansAreKnown
    /\ OrphansInOrder
    /\ FirstCommitsInOrder

-----------------------------------------------------------------------------
(* Sequences                                                               *)

\* p is the beginning of q.
Begins(p, q) == Len(p) <= Len(q) /\ \A i \in 1..Len(p) : p[i] = q[i]

Positive(q) == \A i \in 1..Len(q) : q[i] > 0

\* What taking the head off a sequence does: every other element moves up by one.
LEMMA TailFacts ==
    ASSUME NEW S, NEW q \in Seq(S), q # <<>>
    PROVE  /\ Tail(q) \in Seq(S)
           /\ Len(q) \in Nat \ {0}
           /\ Len(Tail(q)) = Len(q) - 1
           /\ \A i \in 1..Len(Tail(q)) : Tail(q)[i] = q[i + 1]
           /\ Head(q) = q[1]
           /\ q[1] \in S
OBVIOUS

\* What concatenation does to the elements of both sequences.
LEMMA ConcatFacts ==
    ASSUME NEW S, NEW s \in Seq(S), NEW t \in Seq(S)
    PROVE  /\ s \o t \in Seq(S)
           /\ Len(s) \in Nat /\ Len(t) \in Nat
           /\ Len(s \o t) = Len(s) + Len(t)
           /\ \A i \in 1..Len(s) : (s \o t)[i] = s[i]
           /\ \A i \in 1..Len(t) : (s \o t)[Len(s) + i] = t[i]
<1>1. /\ s \o t \in Seq(S)
      /\ Len(s \o t) = Len(s) + Len(t)
      /\ \A i \in 1..Len(s) + Len(t) : (s \o t)[i] = IF i <= Len(s) THEN s[i] ELSE t[i - Len(s)]
  BY ConcatProperties
<1>2. Len(s) \in Nat /\ Len(t) \in Nat
  BY LenProperties
<1>. QED
  BY <1>1, <1>2

\* GetNextMutationBatch finds the place after the part of an ordered queue that
\* is in the pipeline already.
LEMMA PlaceAfterPipeline ==
    ASSUME NEW q \in Seq(Nat), Increasing(q), Positive(q),
           NEW p \in Seq(Nat), Begins(p, q)
    PROVE  PlaceAfter(q, IF p = <<>> THEN 0 ELSE p[Len(p)]) = Len(p) + 1
<1> DEFINE last == IF p = <<>> THEN 0 ELSE p[Len(p)]
           IsPlace(i) == /\ \A j \in 1..(i - 1) : q[j] <= last
                         /\ i <= Len(q) => q[i] > last
<1>1. /\ Len(p) \in Nat /\ Len(q) \in Nat /\ Len(p) <= Len(q)
      /\ \A i \in 1..Len(q) : q[i] \in Nat
      /\ p # <<>> => Len(p) > 0
  BY EmptySeq, LenProperties, ElementOfSeq DEF Begins
<1>2. last = IF Len(p) = 0 THEN 0 ELSE q[Len(p)]
  BY <1>1, EmptySeq DEF Begins
<1>3. Len(p) + 1 \in 1..(Len(q) + 1) /\ IsPlace(Len(p) + 1)
  <2>1. \A j \in 1..Len(p) : q[j] <= last
    BY <1>1, <1>2 DEF Increasing
  <2>2. Len(p) + 1 <= Len(q) => q[Len(p) + 1] > last
    BY <1>1, <1>2 DEF Increasing, Positive
  <2>. QED
    BY <1>1, <2>1, <2>2
<1>4. ASSUME NEW i \in 1..(Len(q) + 1), IsPlace(i)
      PROVE  i = Len(p) + 1
  <2>1. CASE i <= Len(p)
    <3>1. q[i] > last
      BY <1>1, <1>4, <2>1
    <3>2. q[i] <= last
      BY <1>1, <1>3, <2>1
    <3>. QED
      BY <1>1, <1>2, <3>1, <3>2, <2>1
  <2>2. CASE i > Len(p) + 1
    <3>1. q[Len(p) + 1] <= last
      BY <1>1, <1>4, <2>2
    <3>2. q[Len(p) + 1] > last
      BY <1>1, <1>3, <1>4, <2>2
    <3>. QED
      BY <1>1, <1>2, <3>1, <3>2, <1>4, <2>2
  <2>. QED
    BY <1>1, <2>1, <2>2
<1>5. PlaceAfter(q, last) = CHOOSE i \in 1..(Len(q) + 1) : IsPlace(i)
  BY DEF PlaceAfter
<1>. HIDE DEF IsPlace, last
<1>6. (CHOOSE i \in 1..(Len(q) + 1) : IsPlace(i)) = Len(p) + 1
  BY <1>3, <1>4
<1>. QED
  BY <1>5, <1>6 DEF last

\* FillWritePipeline leaves a pipeline that begins the queue, beginning the
\* queue, and no longer than kMaxPendingWrites.
LEMMA RefillExtends ==
    ASSUME NEW q \in Seq(Nat), Increasing(q), Positive(q),
           NEW p \in Seq(Nat), Begins(p, q), Len(p) <= MaxPendingWrites
    PROVE  /\ Refill(p, q) \in Seq(Nat)
           /\ p \o Refill(p, q) \in Seq(Nat)
           /\ Begins(p \o Refill(p, q), q)
           /\ Len(p \o Refill(p, q)) <= MaxPendingWrites
           /\ Len(p \o Refill(p, q)) = Len(p) + Len(Refill(p, q))
<1> DEFINE final == Len(p) + 1 + MaxPendingWrites - Len(p) - 1
           end   == IF final < Len(q) THEN final ELSE Len(q)
<1>1. /\ Len(p) \in Nat /\ Len(q) \in Nat /\ MaxPendingWrites \in Nat \ {0}
      /\ Len(p) <= Len(q)
      /\ \A i \in 1..Len(q) : q[i] \in Nat
  BY StoreAssumption, LenProperties, ElementOfSeq DEF Begins
<1>2. Refill(p, q) = SubSeq(q, Len(p) + 1, end)
  BY PlaceAfterPipeline DEF Refill
<1>3. end \in Int /\ end <= Len(q) /\ end <= MaxPendingWrites /\ Len(p) <= end
  BY <1>1
<1>. HIDE DEF end, final
<1>4. /\ Refill(p, q) \in Seq(Nat)
      /\ Len(Refill(p, q)) = IF Len(p) + 1 <= end THEN end - (Len(p) + 1) + 1 ELSE 0
      /\ \A i \in 1..(end - (Len(p) + 1) + 1) : Refill(p, q)[i] = q[Len(p) + 1 + i - 1]
  <2>1. Len(p) + 1 \in Int /\ \A i \in (Len(p) + 1)..end : q[i] \in Nat
    BY <1>1, <1>3
  <2>. QED
    BY <1>2, <1>3, <2>1, SubSeqProperties
<1>5. Len(Refill(p, q)) = end - Len(p)
  BY <1>1, <1>3, <1>4
<1>6. \A i \in 1..Len(Refill(p, q)) : Refill(p, q)[i] = q[Len(p) + i]
  BY <1>1, <1>3, <1>4, <1>5
<1>7. /\ p \o Refill(p, q) \in Seq(Nat)
      /\ Len(p \o Refill(p, q)) = Len(p) + Len(Refill(p, q))
      /\ \A i \in 1..Len(p) : (p \o Refill(p, q))[i] = p[i]
      /\ \A i \in 1..Len(Refill(p, q)) : (p \o Refill(p, q))[Len(p) + i] = Refill(p, q)[i]
  <2> DEFINE more == Refill(p, q)
  <2>1. more \in Seq(Nat)
    BY <1>4
  <2>. HIDE DEF more
  <2>2. /\ p \o more \in Seq(Nat)
        /\ Len(p \o more) = Len(p) + Len(more)
        /\ \A i \in 1..Len(p) : (p \o more)[i] = p[i]
        /\ \A i \in 1..Len(more) : (p \o more)[Len(p) + i] = more[i]
    BY <2>1, ConcatFacts
  <2>. QED
    BY <2>2 DEF more
<1>8. Begins(p \o Refill(p, q), q)
  <2>1. ASSUME NEW i \in 1..Len(p \o Refill(p, q))
        PROVE  (p \o Refill(p, q))[i] = q[i]
    <3>1. CASE i <= Len(p)
      BY <1>1, <1>7, <3>1 DEF Begins
    <3>2. CASE i > Len(p)
      <4>1. i - Len(p) \in 1..Len(Refill(p, q)) /\ i = Len(p) + (i - Len(p))
        BY <1>1, <1>3, <1>5, <1>7, <3>2
      <4>. QED
        BY <4>1, <1>6, <1>7
    <3>. QED
      BY <1>1, <1>3, <1>5, <1>7, <3>1, <3>2
  <2>. QED
    BY <1>1, <1>3, <1>5, <1>7, <2>1 DEF Begins
<1>. QED
  BY <1>1, <1>3, <1>4, <1>5, <1>7, <1>8

\* RemoveMutationBatch of the first batch of an ordered queue drops the head.
LEMMA WithoutHead ==
    ASSUME NEW q \in Seq(Nat), Increasing(q), q # <<>>
    PROVE  Without(q, q[1]) = Tail(q)
<1>1. Len(q) \in Nat \ {0} /\ \A i \in 1..Len(q) : q[i] \in Nat
  BY TailFacts, ElementOfSeq
<1>2. \A j \in 1..Len(q) : q[j] = q[1] => j = 1
  BY <1>1 DEF Increasing
<1>3. (CHOOSE j \in 1..Len(q) : q[j] = q[1]) = 1
  BY <1>1, <1>2
<1>4. Without(q, q[1]) = SubSeq(q, 1, 0) \o SubSeq(q, 2, Len(q))
  <2>1. Without(q, q[1]) = SubSeq(q, 1, 1 - 1) \o SubSeq(q, 1 + 1, Len(q))
    BY <1>3, Zenon DEF Without
  <2>2. 1 - 1 = 0 /\ 1 + 1 = 2
    OBVIOUS
  <2>. QED
    BY <2>1, <2>2
<1>5. SubSeq(q, 1, 0) = <<>>
  BY SubSeqEmpty
<1>6. SubSeq(q, 2, Len(q)) = Tail(q) /\ Tail(q) \in Seq(Nat)
  BY TailIsSubSeq, TailFacts
<1>. QED
  BY <1>4, <1>5, <1>6, ConcatEmptySeq

\* A non-empty set of positions of the commit log has a last one.
LEMMA LastPosition ==
    ASSUME NEW n \in Nat, NEW P \in SUBSET (1..n), P # {}
    PROVE  \E i \in P : \A j \in P : j <= i
<1> DEFINE T == {n - i : i \in P}
<1>1. T \subseteq Nat /\ T # {}
  <2>1. \A i \in P : i \in 1..n
    OBVIOUS
  <2>2. \A i \in P : n - i \in Nat
    BY <2>1
  <2>. QED
    BY <2>2
<1>2. PICK x \in T : \A y \in T : ~(<<y, x>> \in OpToRel(<, Nat))
  BY <1>1, NatLessThanWellFounded, WFMin
<1>3. \A y \in T : ~(y < x)
  BY <1>1, <1>2 DEF OpToRel
<1>4. PICK i \in P : x = n - i
  OBVIOUS
<1>5. ASSUME NEW j \in P PROVE j <= i
  <2>1. n - j \in T /\ i \in 1..n /\ j \in 1..n
    OBVIOUS
  <2>2. ~(n - j < n - i)
    BY <1>3, <1>4, <2>1
  <2>. QED
    BY <2>1, <2>2
<1>. QED
  BY <1>5

-----------------------------------------------------------------------------
(* What the invariant says of a state                                      *)

\* The basic facts about the sequences of a state that the steps keep using.
LEMMA StateFacts ==
    ASSUME StoreInv
    PROVE  /\ Written \in Nat
           /\ \A m \in 1..Written : owner[m] \in Users \cup {Elsewhere}
           /\ \A m \in 1..Written : cache[m] \in Nat
           /\ Len(cache) = Written
           /\ Len(pipeline) \in Nat /\ Len(wire) \in Nat
           /\ Len(replies) \in Nat /\ Len(log) \in Nat
           /\ \A i \in 1..Len(pipeline) : pipeline[i] \in Nat
           /\ \A i \in 1..Len(wire) : wire[i] \in Nat
           /\ \A i \in 1..Len(replies) : replies[i] \in Reply
           /\ \A i \in 1..Len(log) : log[i] \in Commit
<1>1. TypeOK
  BY DEF StoreInv
<1>. QED
  BY <1>1, LenProperties, ElementOfSeq DEF TypeOK, Written

\* A queue is an ordered sequence of messages of its account; nobody has none.
LEMMA QueueFacts ==
    ASSUME StoreInv, NEW u \in Accounts
    PROVE  /\ queue[u] \in Seq(Nat)
           /\ Len(queue[u]) \in Nat
           /\ Increasing(queue[u])
           /\ Positive(queue[u])
           /\ OwnedBy(queue[u], u)
           /\ \A i \in 1..Len(queue[u]) : u \in Users
<1>1. queue[u] \in Seq(Nat)
  BY DEF StoreInv, TypeOK
<1>2. OwnedBy(queue[u], u) /\ Increasing(queue[u])
  BY DEF StoreInv, QueuesInOrder
<1>3. Len(queue[u]) \in Nat
  BY <1>1, LenProperties
<1>4. Positive(queue[u])
  <2>1. \A i \in 1..Len(queue[u]) : queue[u][i] \in 1..Written
    BY <1>2 DEF OwnedBy
  <2>2. Written \in Nat
    BY StateFacts
  <2>. QED
    BY <2>1, <2>2 DEF Positive
<1>5. \A i \in 1..Len(queue[u]) : u \in Users
  BY <1>2, StateFacts, StoreAssumption DEF OwnedBy, Accounts
<1>. QED
  BY <1>1, <1>2, <1>3, <1>4, <1>5

\* The pipeline holds messages of the current user, in order, and so does the
\* wire.
LEMMA PipelineFacts ==
    ASSUME StoreInv
    PROVE  /\ engineUser \in Accounts
           /\ pipeline \in Seq(Nat) /\ wire \in Seq(Nat)
           /\ replies \in Seq(Reply) /\ log \in Seq(Commit)
           /\ Begins(pipeline, queue[engineUser])
           /\ Len(pipeline) <= MaxPendingWrites
           /\ OwnedBy(pipeline, engineUser)
           /\ OwnedBy(wire, engineUser)
           /\ wire # <<>> => engineUser \in Users /\ stream = "open"
<1>1. TypeOK /\ PipelineIsQueuePrefix /\ WireIsPipelineEnd
  BY DEF StoreInv
<1>2. Begins(pipeline, queue[engineUser]) /\ Len(pipeline) <= MaxPendingWrites
  BY <1>1 DEF PipelineIsQueuePrefix, Begins
<1>3. OwnedBy(pipeline, engineUser)
  <2>1. engineUser \in Accounts
    BY <1>1 DEF TypeOK
  <2>2. OwnedBy(queue[engineUser], engineUser) /\ Len(queue[engineUser]) \in Nat
    BY <2>1, QueueFacts
  <2>3. Len(pipeline) \in Nat
    BY StateFacts
  <2>. QED
    BY <1>2, <2>2, <2>3 DEF OwnedBy, Begins
<1>4. OwnedBy(wire, engineUser)
  <2>1. ASSUME NEW i \in 1..Len(wire)
        PROVE  wire[i] = pipeline[Len(pipeline) - Len(wire) + i]
               /\ Len(pipeline) - Len(wire) + i \in 1..Len(pipeline)
    BY <1>1, StateFacts DEF WireIsPipelineEnd
  <2>. QED
    BY <1>3, <2>1 DEF OwnedBy
<1>5. wire # <<>> => engineUser \in Users /\ stream = "open"
  <2>1. SUFFICES ASSUME wire # <<>> PROVE engineUser \in Users /\ stream = "open"
    OBVIOUS
  <2>2. 1 \in 1..Len(wire) /\ engineUser \in Accounts
    BY <1>1, <2>1, EmptySeq DEF TypeOK
  <2>3. owner[wire[1]] = engineUser /\ wire[1] \in 1..Written
    BY <1>4, <2>2 DEF OwnedBy
  <2>4. engineUser # NoUser
    BY <2>3, StateFacts, StoreAssumption
  <2>. QED
    BY <1>1, <2>1, <2>2, <2>4 DEF WireIsPipelineEnd, Accounts
<1>. QED
  BY <1>1, <1>2, <1>3, <1>4, <1>5 DEF TypeOK

\* What FillWritePipeline makes of a pipeline p that begins the queue q.
LEMMA FillFacts ==
    ASSUME NEW q \in Seq(Nat), Increasing(q), Positive(q),
           NEW p \in Seq(Nat), Begins(p, q), Len(p) <= MaxPendingWrites,
           NEW state \in {"stopped", "starting", "open"},
           FillWritePipeline(p, q, state)
    PROVE  /\ pipeline' \in Seq(Nat)
           /\ Begins(pipeline', q)
           /\ Len(pipeline') <= MaxPendingWrites
           /\ Refill(p, q) \in Seq(Nat)
           /\ pipeline' = p \o Refill(p, q)
           /\ Len(pipeline') = Len(p) + Len(Refill(p, q))
           /\ stream' \in {"stopped", "starting", "open"}
           /\ stream' = "open" <=> state = "open"
<1>1. pipeline' = p \o Refill(p, q)
  BY DEF FillWritePipeline
<1>2. /\ stream' \in {"stopped", "starting", "open"}
      /\ stream' = "open" <=> state = "open"
  BY DEF FillWritePipeline
<1>. QED
  BY <1>1, <1>2, RefillExtends

\* Whatever the current user wrote before the k-th write of the wire is settled,
\* or is on the wire ahead of it: it left the queue, or it is in the queue
\* ahead, so in the pipeline ahead, and answered unless it is on the wire.
LEMMA WireInOrder ==
    ASSUME StoreInv, ~Refused, NEW k \in 1..Len(wire),
           NEW m \in 1..Written, m < wire[k], owner[m] = engineUser
    PROVE  Settled(m) \/ \E j \in 1..(k - 1) : wire[j] = m
<1>1. /\ wire # <<>>
      /\ Len(wire) \in Nat /\ Len(replies) \in Nat /\ Len(pipeline) \in Nat
  BY StateFacts, EmptySeq
<1>2. engineUser \in Users /\ stream = "open"
  BY <1>1, PipelineFacts
<1>3. CASE cache[m] > 0
  BY <1>3, StateFacts DEF StoreInv, CacheInStep, CacheIsCommitted, Settled, Committed
<1>4. CASE m \in rejected
  BY <1>4 DEF Settled
<1>5. CASE \E i \in 1..Len(queue[engineUser]) : queue[engineUser][i] = m
  <2>1. PICK i \in 1..Len(queue[engineUser]) : queue[engineUser][i] = m
    BY <1>5
  <2>2. /\ Len(replies) + Len(wire) = Len(pipeline)
        /\ wire[k] = pipeline[Len(replies) + k]
    BY <1>2 DEF StoreInv, RepliesMatchPipeline
  <2>3. /\ Len(queue[engineUser]) \in Nat /\ Increasing(queue[engineUser])
        /\ Len(pipeline) <= Len(queue[engineUser])
        /\ \A j \in 1..Len(pipeline) : pipeline[j] = queue[engineUser][j]
        /\ wire[k] \in Nat
    BY QueueFacts, PipelineFacts, StateFacts DEF Begins
  <2>4. i < Len(replies) + k
    <3>1. Len(replies) + k \in 1..Len(pipeline)
      BY <1>1, <2>2
    <3>2. queue[engineUser][Len(replies) + k] = wire[k] /\ m \in Nat
      BY <3>1, <2>2, <2>3, StateFacts
    <3>3. ~(Len(replies) + k < i)
      BY <1>1, <2>1, <2>3, <3>1, <3>2 DEF Increasing
    <3>4. Len(replies) + k # i
      BY <2>1, <2>3, <3>2
    <3>. QED
      BY <1>1, <2>3, <3>3, <3>4
  <2>5. pipeline[i] = m
    BY <1>1, <2>1, <2>2, <2>3, <2>4
  <2>6. CASE i <= Len(replies)
    <3>1. i \in 1..Len(replies)
      BY <2>6, <1>1
    <3>2. replies[i].msg = m
      BY <2>5, <3>1 DEF StoreInv, RepliesMatchPipeline
    <3>3. replies[i].version > 0
      BY <3>1, StateFacts DEF Refused, Reply
    <3>4. replies[i].version \in 1..Len(log) /\ log[replies[i].version].msg = m
      BY <3>1, <3>2, <3>3, StateFacts DEF StoreInv, AnswersAreCommits, Reply
    <3>. QED
      BY <3>4 DEF Settled, Committed
  <2>7. CASE i > Len(replies)
    <3>1. i - Len(replies) \in 1..(k - 1) /\ i = Len(replies) + (i - Len(replies))
      BY <1>1, <2>4, <2>7
    <3>2. wire[i - Len(replies)] = pipeline[i]
      <4>1. \A j \in 1..Len(wire) : wire[j] = pipeline[Len(replies) + j]
        BY <1>2 DEF StoreInv, RepliesMatchPipeline
      <4>2. i - Len(replies) \in 1..Len(wire)
        BY <1>1, <3>1
      <4>. QED
        BY <3>1, <4>1, <4>2
    <3>. QED
      BY <3>1, <3>2, <2>5
  <2>. QED
    BY <1>1, <2>6, <2>7
<1>6. owner[m] # Elsewhere
  BY <1>2, StoreAssumption
<1>. QED
  BY <1>3, <1>4, <1>5, <1>6 DEF StoreInv, NoMessageLost

-----------------------------------------------------------------------------
(* The initial states                                                      *)

LEMMA InitInv == Init => StoreInv
<1> SUFFICES ASSUME Init PROVE StoreInv
  OBVIOUS
<1>1. Len(<<>>) = 0 /\ Written = 0 /\ Written \in Nat
  BY DEF Init, Written
<1>2. TypeOK
  BY <1>1 DEF Init, TypeOK
<1>3. QueuesInOrder
  BY <1>1 DEF Init, QueuesInOrder, OwnedBy, Increasing
<1>4. PipelineIsQueuePrefix /\ RepliesMatchPipeline /\ WireIsPipelineEnd
  BY <1>1, StoreAssumption DEF Init, PipelineIsQueuePrefix, RepliesMatchPipeline, WireIsPipelineEnd
<1>5. AnswersAreCommits /\ LogIsKnown /\ CommittedUnderOwner /\ CacheInStep
  BY <1>1 DEF Init, AnswersAreCommits, LogIsKnown, CommittedUnderOwner, CacheInStep,
              CacheIsCommitted, ResumeTokenIsCached
<1>6. NoMessageLost /\ OrphansAreKnown /\ OrphansInOrder /\ FirstCommitsInOrder
  BY <1>1 DEF Init, NoMessageLost, OrphansAreKnown, OrphansInOrder, FirstCommitsInOrder
<1>. QED
  BY <1>2, <1>3, <1>4, <1>5, <1>6 DEF StoreInv

-----------------------------------------------------------------------------
(* Pipeline, answers and wire                                              *)

\* Answers r are for the first writes of pipeline p, wire w is its end.
InStep(p, r, w) ==
    /\ Len(w) + Len(r) <= Len(p)
    /\ \A i \in 1..Len(r) : r[i].msg = p[i]
    /\ \A i \in 1..Len(w) : w[i] = p[Len(p) - Len(w) + i]

\* The state's pipeline, answers and wire are in step, and complete while the
\* stream is open and nothing was refused.
LEMMA StateInStep ==
    ASSUME StoreInv
    PROVE  /\ InStep(pipeline, replies, wire)
           /\ (stream = "open" /\ ~Refused) => Len(replies) + Len(wire) = Len(pipeline)
           /\ stream # "open" => wire = <<>> /\ replies = <<>>
BY DEF StoreInv, RepliesMatchPipeline, WireIsPipelineEnd, InStep

\* Adding the same writes to the pipeline and to the wire keeps them in step.
LEMMA RefillKeepsInStep ==
    ASSUME NEW p \in Seq(Nat), NEW r \in Seq(Reply), NEW w \in Seq(Nat),
           NEW more \in Seq(Nat), InStep(p, r, w)
    PROVE  /\ InStep(p \o more, r, w \o more)
           /\ Len(r) + Len(w) = Len(p) => Len(r) + Len(w \o more) = Len(p \o more)
<1> DEFINE p2 == p \o more
           w2 == w \o more
<1>1. /\ Len(p2) = Len(p) + Len(more)
      /\ \A i \in 1..Len(p) : p2[i] = p[i]
      /\ \A i \in 1..Len(more) : p2[Len(p) + i] = more[i]
  BY ConcatFacts
<1>2. /\ Len(w2) = Len(w) + Len(more)
      /\ \A i \in 1..Len(w) : w2[i] = w[i]
      /\ \A i \in 1..Len(more) : w2[Len(w) + i] = more[i]
  BY ConcatFacts
<1>. HIDE DEF p2, w2
<1>3. Len(p) \in Nat /\ Len(w) \in Nat /\ Len(r) \in Nat /\ Len(more) \in Nat
  BY LenProperties
<1>4. Len(w2) + Len(r) <= Len(p2)
  BY <1>1, <1>2, <1>3 DEF InStep
<1>5. \A i \in 1..Len(r) : r[i].msg = p2[i]
  <2>1. \A i \in 1..Len(r) : i \in 1..Len(p)
    BY <1>3 DEF InStep
  <2>. QED
    BY <2>1, <1>1 DEF InStep
<1>6. ASSUME NEW i \in 1..Len(w2)
      PROVE  w2[i] = p2[Len(p2) - Len(w2) + i]
  <2>1. Len(p2) - Len(w2) + i = Len(p) - Len(w) + i
    BY <1>1, <1>2, <1>3
  <2>2. CASE i <= Len(w)
    <3>1. i \in 1..Len(w) /\ Len(p) - Len(w) + i \in 1..Len(p)
      BY <1>2, <1>3, <2>2 DEF InStep
    <3>. QED
      BY <3>1, <2>1, <1>1, <1>2 DEF InStep
  <2>3. CASE i > Len(w)
    <3> DEFINE j == i - Len(w)
    <3>1. j \in 1..Len(more) /\ i = Len(w) + j /\ Len(p) - Len(w) + i = Len(p) + j
      BY <1>2, <1>3, <2>3
    <3>. HIDE DEF j
    <3>2. w2[Len(w) + j] = more[j] /\ p2[Len(p) + j] = more[j]
      BY <3>1, <1>1, <1>2
    <3>. QED
      BY <2>1, <3>1, <3>2
  <2>4. Len(w) \in Nat /\ i \in Nat
    BY <1>2, <1>3
  <2>. QED
    BY <2>2, <2>3, <2>4
<1>7. Len(r) + Len(w) = Len(p) => Len(r) + Len(w2) = Len(p2)
  <2> DEFINE lr == Len(r)
             lw == Len(w)
             lp == Len(p)
             lm == Len(more)
  <2>1. Len(w2) = lw + lm /\ Len(p2) = lp + lm
    BY <1>1, <1>2
  <2>2. lr \in Nat /\ lw \in Nat /\ lp \in Nat /\ lm \in Nat
    BY <1>3
  <2>. HIDE DEF lr, lw, lp, lm
  <2>3. lr + lw = lp => lr + Len(w2) = Len(p2)
    BY <2>1, <2>2
  <2>. QED
    BY <2>3 DEF lr, lw, lp
<1>. QED
  BY <1>4, <1>5, <1>6, <1>7 DEF InStep, p2, w2

\* When the first write is answered, both it and its answer leave.
LEMMA TailsInStep ==
    ASSUME NEW p \in Seq(Nat), NEW r \in Seq(Reply), NEW w \in Seq(Nat),
           r # <<>>, InStep(p, r, w)
    PROVE  /\ p # <<>>
           /\ Head(r).msg = Head(p)
           /\ InStep(Tail(p), Tail(r), w)
           /\ Len(r) + Len(w) = Len(p) => Len(Tail(r)) + Len(w) = Len(Tail(p))
<1>1. /\ Len(r) \in Nat \ {0} /\ Len(Tail(r)) = Len(r) - 1 /\ Head(r) = r[1]
      /\ \A i \in 1..Len(Tail(r)) : Tail(r)[i] = r[i + 1]
  BY TailFacts
<1>2. Len(p) \in Nat /\ Len(w) \in Nat
  BY LenProperties
<1>3. Len(p) > 0
  BY <1>1, <1>2 DEF InStep
<1>4. p # <<>>
  BY <1>3, EmptySeq
<1>5. /\ Len(Tail(p)) = Len(p) - 1 /\ Head(p) = p[1]
      /\ \A i \in 1..Len(Tail(p)) : Tail(p)[i] = p[i + 1]
  BY <1>4, TailFacts
<1>6. Head(r).msg = Head(p)
  BY <1>1, <1>5 DEF InStep
<1>7. Len(w) + Len(Tail(r)) <= Len(Tail(p))
  BY <1>1, <1>2, <1>5 DEF InStep
<1>8. \A i \in 1..Len(Tail(r)) : Tail(r)[i].msg = Tail(p)[i]
  <2>1. ASSUME NEW i \in 1..Len(Tail(r)) PROVE Tail(r)[i].msg = Tail(p)[i]
    <3>1. i + 1 \in 1..Len(r) /\ i \in 1..Len(Tail(p))
      BY <1>1, <1>2, <1>5, <1>7
    <3>. QED
      BY <3>1, <1>1, <1>5 DEF InStep
  <2>. QED
    BY <2>1
<1>9. \A i \in 1..Len(w) : w[i] = Tail(p)[Len(Tail(p)) - Len(w) + i]
  <2>1. ASSUME NEW i \in 1..Len(w) PROVE w[i] = Tail(p)[Len(Tail(p)) - Len(w) + i]
    <3>1. /\ Len(Tail(p)) - Len(w) + i \in 1..Len(Tail(p))
          /\ Len(Tail(p)) - Len(w) + i + 1 = Len(p) - Len(w) + i
      BY <1>1, <1>2, <1>5, <1>7
    <3>2. Tail(p)[Len(Tail(p)) - Len(w) + i] = p[Len(p) - Len(w) + i]
      BY <3>1, <1>5
    <3>. QED
      BY <3>2 DEF InStep
  <2>. QED
    BY <2>1
<1>10. Len(r) + Len(w) = Len(p) => Len(Tail(r)) + Len(w) = Len(Tail(p))
  <2> DEFINE r1 == Tail(r)
             p1 == Tail(p)
             lr == Len(r)
             lw == Len(w)
             lp == Len(p)
  <2>1. Len(r1) = lr - 1 /\ Len(p1) = lp - 1
    BY <1>1, <1>5
  <2>2. lr \in Nat /\ lw \in Nat /\ lp \in Nat
    BY <1>1, <1>2
  <2>. HIDE DEF r1, p1, lr, lw, lp
  <2>3. lr + lw = lp => Len(r1) + lw = Len(p1)
    BY <2>1, <2>2
  <2>. QED
    BY <2>3 DEF r1, p1, lr, lw, lp
<1>11. InStep(Tail(p), Tail(r), w)
  BY <1>7, <1>8, <1>9 DEF InStep
<1>. QED
  BY <1>4, <1>6, <1>10, <1>11

-----------------------------------------------------------------------------
(* A new message, and a new commit                                         *)

\* What a new message of author a changes: the others keep author and cache.
LEMMA NewMessageFacts ==
    ASSUME StoreInv, NEW a \in Users \cup {Elsewhere},
           owner' = Append(owner, a), cache' = Append(cache, 0)
    PROVE  /\ owner' \in Seq(Users \cup {Elsewhere}) /\ cache' \in Seq(Nat)
           /\ Written \in Nat /\ Written' = Written + 1 /\ Len(cache') = Written'
           /\ \A m \in 1..Written : owner'[m] = owner[m] /\ cache'[m] = cache[m]
           /\ owner'[Written + 1] = a /\ cache'[Written + 1] = 0
<1>1. /\ owner \in Seq(Users \cup {Elsewhere}) /\ cache \in Seq(Nat)
      /\ Len(cache) = Written /\ Written \in Nat
  BY StateFacts DEF StoreInv, TypeOK
<1>2. /\ owner' \in Seq(Users \cup {Elsewhere})
      /\ Len(owner') = Len(owner) + 1
      /\ \A m \in 1..Len(owner) : owner'[m] = owner[m]
      /\ owner'[Len(owner) + 1] = a
  BY <1>1, AppendProperties
<1>3. /\ cache' \in Seq(Nat)
      /\ Len(cache') = Len(cache) + 1
      /\ \A m \in 1..Len(cache) : cache'[m] = cache[m]
      /\ cache'[Len(cache) + 1] = 0
  BY <1>1, AppendProperties
<1>. QED
  BY <1>1, <1>2, <1>3 DEF Written

\* What a commit changes: the log grows, and what was committed stays.
LEMMA NewCommitFacts ==
    ASSUME StoreInv, NEW c \in Commit, log' = Append(log, c)
    PROVE  /\ log' \in Seq(Commit)
           /\ Len(log) \in Nat /\ Len(log') = Len(log) + 1
           /\ \A i \in 1..Len(log) : log'[i] = log[i]
           /\ log'[Len(log) + 1] = c
           /\ \A m : Committed(m) => Committed(m)'
           /\ Committed(c.msg)'
<1>1. log \in Seq(Commit)
  BY DEF StoreInv, TypeOK
<1>2. /\ log' \in Seq(Commit)
      /\ Len(log) \in Nat /\ Len(log') = Len(log) + 1
      /\ \A i \in 1..Len(log) : log'[i] = log[i]
      /\ log'[Len(log) + 1] = c
  BY <1>1, AppendProperties, LenProperties
<1>3. ASSUME NEW m, Committed(m) PROVE Committed(m)'
  BY <1>2, <1>3 DEF Committed
<1>4. Committed(c.msg)'
  BY <1>2 DEF Committed
<1>. QED
  BY <1>2, <1>3, <1>4

-----------------------------------------------------------------------------
(* The steps of the client                                                 *)

\* A written message goes to the end of its author's queue, and to the end of
\* pipeline and wire if there is room.
LEMMA WriteKeepsInv == StoreInv /\ WriteMutations => StoreInv'
<1> SUFFICES ASSUME StoreInv, WriteMutations PROVE StoreInv'
  OBVIOUS
<1> DEFINE n == Written + 1
           q == queue[engineUser]
           added == Append(q, n)
           more == Refill(pipeline, added)
<1>1. /\ engineUser \in Users /\ engineUser \in Accounts
      /\ owner' = Append(owner, engineUser) /\ cache' = Append(cache, 0)
      /\ queue' = [queue EXCEPT ![engineUser] = Append(@, n)]
      /\ UNCHANGED <<engineUser, rejected, replies, late, log, watched, restarts>>
  BY DEF WriteMutations, Accounts
<1>2. /\ owner' \in Seq(Users \cup {Elsewhere}) /\ cache' \in Seq(Nat)
      /\ Written \in Nat /\ Written' = n /\ Len(cache') = Written'
      /\ \A m \in 1..Written : owner'[m] = owner[m] /\ cache'[m] = cache[m]
      /\ owner'[n] = engineUser /\ cache'[n] = 0
  BY <1>1, NewMessageFacts
<1>3. /\ queue \in [Accounts -> Seq(Nat)]
      /\ queue'[engineUser] = added
      /\ \A u \in Accounts : u # engineUser => queue'[u] = queue[u]
  BY <1>1 DEF StoreInv, TypeOK
<1>4. /\ q \in Seq(Nat) /\ Len(q) \in Nat /\ Increasing(q) /\ Positive(q)
      /\ \A i \in 1..Len(q) : q[i] \in 1..Written /\ owner[q[i]] = engineUser
  BY <1>1, QueueFacts DEF OwnedBy
<1>5. /\ added \in Seq(Nat) /\ Len(added) = Len(q) + 1
      /\ \A i \in 1..Len(q) : added[i] = q[i]
      /\ added[Len(q) + 1] = n
  BY <1>2, <1>4, AppendProperties
<1>6. queue' \in [Accounts -> Seq(Nat)]
  BY <1>1, <1>2, <1>3, <1>5
<1>. HIDE DEF n, q, added
<1>23. \A i \in 1..Len(added) : i \in 1..Len(q) \/ i = Len(q) + 1
  BY <1>4, <1>5
<1>7. Increasing(added) /\ Positive(added)
  <2>1. ASSUME NEW i \in 1..Len(added), NEW j \in 1..Len(added), i < j
        PROVE  added[i] < added[j]
    <3>1. i \in 1..Len(q) /\ added[i] = q[i]
      BY <2>1, <1>4, <1>5
    <3>2. CASE j \in 1..Len(q)
      BY <3>1, <3>2, <2>1, <1>4, <1>5 DEF Increasing
    <3>3. CASE j = Len(q) + 1
      <4>1. q[i] \in 1..Written
        BY <3>1, <1>4
      <4>. QED
        BY <3>1, <3>3, <4>1, <1>2, <1>5 DEF n
    <3>. QED
      BY <3>2, <3>3, <1>23
  <2>2. ASSUME NEW i \in 1..Len(added) PROVE added[i] > 0
    <3>1. CASE i \in 1..Len(q)
      BY <3>1, <1>4, <1>5 DEF Positive
    <3>2. CASE i = Len(q) + 1
      BY <3>2, <1>2, <1>5 DEF n
    <3>. QED
      BY <3>1, <3>2, <1>4, <1>5
  <2>. QED
    BY <2>1, <2>2 DEF Increasing, Positive
<1>8. Begins(pipeline, added)
  <2>1. Begins(pipeline, q) /\ Len(pipeline) \in Nat
    BY PipelineFacts, StateFacts DEF q
  <2>. QED
    BY <2>1, <1>4, <1>5 DEF Begins
<1>9. /\ FillWritePipeline(pipeline, added, stream)
      /\ wire' = IF stream = "open" THEN wire \o more ELSE wire
  <2>1. /\ FillWritePipeline(pipeline, queue'[engineUser], stream)
        /\ wire' = IF stream = "open" THEN wire \o Refill(pipeline, queue'[engineUser]) ELSE wire
    BY DEF WriteMutations
  <2>. QED
    BY <2>1, <1>3, Zenon
<1>10. /\ pipeline \in Seq(Nat) /\ wire \in Seq(Nat) /\ replies \in Seq(Reply)
       /\ Len(pipeline) <= MaxPendingWrites
       /\ stream \in {"stopped", "starting", "open"}
  BY PipelineFacts DEF StoreInv, TypeOK
<1>11. /\ pipeline' \in Seq(Nat) /\ Begins(pipeline', added)
       /\ Len(pipeline') <= MaxPendingWrites
       /\ more \in Seq(Nat) /\ pipeline' = pipeline \o more
       /\ stream' \in {"stopped", "starting", "open"}
       /\ stream' = "open" <=> stream = "open"
  BY <1>5, <1>7, <1>8, <1>9, <1>10, FillFacts
<1>. HIDE DEF more
<1>12. TypeOK'
  <2>1. wire' \in Seq(Nat)
    BY <1>9, <1>10, <1>11, ConcatProperties
  <2>2. rejected \subseteq 1..Written'
    BY <1>2 DEF StoreInv, TypeOK, n
  <2>. QED
    BY <1>1, <1>2, <1>6, <1>11, <2>1, <2>2 DEF StoreInv, TypeOK
<1>13. QueuesInOrder'
  <2>1. ASSUME NEW u \in Accounts
        PROVE  /\ Increasing(queue'[u])
               /\ \A i \in 1..Len(queue'[u]) : queue'[u][i] \in 1..Written' /\ owner'[queue'[u][i]] = u
    <3>1. CASE u = engineUser
      <4>1. ASSUME NEW i \in 1..Len(added)
            PROVE  added[i] \in 1..Written' /\ owner'[added[i]] = u
        <5>1. CASE i \in 1..Len(q)
          <6>1. added[i] \in 1..Written /\ owner[added[i]] = engineUser
            BY <5>1, <1>4, <1>5
          <6>. QED
            BY <6>1, <3>1, <1>2 DEF n
        <5>2. CASE i = Len(q) + 1
          BY <5>2, <3>1, <1>2, <1>5 DEF n
        <5>. QED
          BY <5>1, <5>2, <1>23
      <4>. QED
        BY <3>1, <4>1, <1>3, <1>7
    <3>2. CASE u # engineUser
      <4>1. /\ queue'[u] = queue[u] /\ Increasing(queue[u])
            /\ \A i \in 1..Len(queue[u]) : queue[u][i] \in 1..Written /\ owner[queue[u][i]] = u
        BY <3>2, <1>3, QueueFacts DEF OwnedBy
      <4>2. \A m \in 1..Written : m \in 1..Written' /\ owner'[m] = owner[m]
        BY <1>2 DEF n
      <4>. QED
        BY <4>1, <4>2
    <3>. QED
      BY <3>1, <3>2
  <2>. QED
    BY <2>1 DEF QueuesInOrder, OwnedBy, Increasing
<1>14. PipelineIsQueuePrefix'
  BY <1>1, <1>3, <1>11 DEF PipelineIsQueuePrefix, Begins
<1>15. RepliesMatchPipeline' /\ WireIsPipelineEnd'
  <2>1. /\ InStep(pipeline, replies, wire)
        /\ (stream = "open" /\ ~Refused) => Len(replies) + Len(wire) = Len(pipeline)
        /\ stream # "open" => wire = <<>> /\ replies = <<>>
    BY StateInStep
  <2>2. CASE stream = "open"
    <3>1. /\ InStep(pipeline', replies, wire')
          /\ ~Refused => Len(replies) + Len(wire') = Len(pipeline')
      BY <1>9, <1>10, <1>11, <2>1, <2>2, RefillKeepsInStep
    <3>2. Refused' = Refused
      BY <1>1 DEF Refused
    <3>3. ~Refused => \A i \in 1..Len(wire') : wire'[i] = pipeline'[Len(replies) + i]
      <4>1. Len(replies) \in Nat /\ Len(wire') \in Nat /\ Len(pipeline') \in Nat
        BY <1>9, <1>10, <1>11, <1>12, LenProperties DEF TypeOK
      <4>2. Len(replies) + Len(wire') = Len(pipeline') => Len(pipeline') - Len(wire') = Len(replies)
        BY <4>1
      <4>. QED
        BY <3>1, <4>2 DEF InStep
    <3>4. replies' = replies /\ stream' = "open" /\ Len(replies) <= Len(pipeline')
      <4>1. /\ Len(replies) \in Nat /\ Len(wire') \in Nat /\ Len(pipeline') \in Nat
            /\ Len(wire') + Len(replies) <= Len(pipeline')
        BY <3>1, <1>9, <1>10, <1>11, <1>12, LenProperties DEF TypeOK, InStep
      <4>. QED
        BY <4>1, <1>1, <1>11, <2>2
    <3>5. WireIsPipelineEnd'
      BY <3>1, <3>4 DEF WireIsPipelineEnd, InStep
    <3>. QED
      BY <3>1, <3>2, <3>3, <3>4, <3>5 DEF RepliesMatchPipeline, InStep
  <2>3. CASE stream # "open"
    <3>1. wire' = <<>> /\ replies' = <<>> /\ stream' # "open" /\ Len(pipeline') \in Nat
      BY <1>1, <1>9, <1>11, <2>1, <2>3, LenProperties
    <3>2. Len(wire') = 0 /\ Len(replies') = 0
      BY <3>1, EmptySeq
    <3>. QED
      BY <3>1, <3>2 DEF RepliesMatchPipeline, WireIsPipelineEnd
  <2>. QED
    BY <2>2, <2>3
<1>16. AnswersAreCommits'
  BY <1>1 DEF StoreInv, AnswersAreCommits
<1>17. LogIsKnown' /\ CommittedUnderOwner'
  <2>1. \A i \in 1..Len(log) : log[i].msg \in 1..Written /\ log[i].user = owner[log[i].msg]
    BY DEF StoreInv, LogIsKnown, CommittedUnderOwner
  <2>2. \A m \in 1..Written : m \in 1..Written' /\ owner'[m] = owner[m]
    BY <1>2 DEF n
  <2>. QED
    BY <2>1, <2>2, <1>1 DEF LogIsKnown, CommittedUnderOwner
<1>18. CacheInStep'
  <2>1. /\ \A m \in 1..Written : cache[m] > 0 => cache[m] <= Len(log) /\ log[cache[m]].msg = m
        /\ \A i \in 1..watched : cache[log[i].msg] >= i
        /\ watched \in 0..Len(log) /\ Len(log) \in Nat
    BY StateFacts DEF StoreInv, CacheInStep, CacheIsCommitted, ResumeTokenIsCached, TypeOK
  <2>2. \A i \in 1..watched : log[i].msg \in 1..Written
    BY <2>1 DEF StoreInv, LogIsKnown
  <2>3. ResumeTokenIsCached'
    BY <2>1, <2>2, <1>1, <1>2 DEF ResumeTokenIsCached
  <2>4. ASSUME NEW m \in 1..Written', cache'[m] > 0
        PROVE  cache'[m] <= Len(log') /\ log'[cache'[m]].msg = m
    <3>1. m \in 1..Written
      BY <1>2, <2>4 DEF n
    <3>. QED
      BY <3>1, <2>1, <2>4, <1>1, <1>2
  <2>. QED
    BY <2>3, <2>4 DEF CacheInStep, CacheIsCommitted
<1>19. NoMessageLost'
  <2>1. ASSUME NEW m \in 1..Written', owner'[m] # Elsewhere
        PROVE  \/ \E i \in 1..Len(queue'[owner'[m]]) : queue'[owner'[m]][i] = m
               \/ cache'[m] > 0
               \/ m \in rejected'
    <3>1. CASE m = n
      <4>1. Len(q) + 1 \in 1..Len(added)
        BY <1>4, <1>5
      <4>. QED
        BY <3>1, <4>1, <1>2, <1>3, <1>5
    <3>2. CASE m \in 1..Written
      <4>1. /\ owner'[m] = owner[m] /\ cache'[m] = cache[m] /\ rejected' = rejected
            /\ owner[m] \in Accounts
        BY <3>2, <2>1, <1>1, <1>2, StateFacts DEF Accounts
      <4>2. CASE \E i \in 1..Len(queue[owner[m]]) : queue[owner[m]][i] = m
        <5>1. PICK i \in 1..Len(queue[owner[m]]) : queue[owner[m]][i] = m
          BY <4>2
        <5>2. i \in 1..Len(queue'[owner[m]]) /\ queue'[owner[m]][i] = queue[owner[m]][i]
          <6>1. CASE owner[m] = engineUser
            <7>1. i \in 1..Len(q) /\ queue[owner[m]] = q /\ queue'[owner[m]] = added
              BY <6>1, <1>3 DEF q
            <7>. QED
              BY <7>1, <1>4, <1>5
          <6>2. CASE owner[m] # engineUser
            BY <6>2, <4>1, <1>3
          <6>. QED
            BY <6>1, <6>2
        <5>. QED
          BY <4>1, <5>1, <5>2
      <4>3. CASE cache[m] > 0 \/ m \in rejected
        BY <4>1, <4>3
      <4>. QED
        BY <3>2, <4>1, <4>2, <4>3, <2>1 DEF StoreInv, NoMessageLost
    <3>. QED
      BY <3>1, <3>2, <2>1, <1>2 DEF n
  <2>. QED
    BY <2>1 DEF NoMessageLost
<1>20. OrphansAreKnown'
  <2>1. \A o \in late : o.msgs # <<>> /\ \A i \in 1..Len(o.msgs) : o.msgs[i] \in 1..Written /\ owner[o.msgs[i]] = o.user
    BY DEF StoreInv, OrphansAreKnown, OwnedBy
  <2>2. \A m \in 1..Written : m \in 1..Written' /\ owner'[m] = owner[m]
    BY <1>2 DEF n
  <2>. QED
    BY <2>1, <2>2, <1>1 DEF OrphansAreKnown, OwnedBy
<1>21. OrphansInOrder'
  <2>1. ASSUME NEW o \in late', NEW k \in 1..Len(o.msgs), NEW m \in 1..Written',
               m < o.msgs[k], owner'[m] = o.user
        PROVE  Settled(m)' \/ \E j \in 1..(k - 1) : o.msgs[j] = m
    <3>1. o \in late /\ o.msgs[k] \in 1..Written
      BY <1>1 DEF StoreInv, OrphansAreKnown, OwnedBy
    <3>2. m \in 1..Written /\ owner[m] = o.user
      BY <3>1, <2>1, <1>2 DEF n
    <3>3. Settled(m) \/ \E j \in 1..(k - 1) : o.msgs[j] = m
      BY <3>1, <3>2, <2>1 DEF StoreInv, OrphansInOrder
    <3>. QED
      BY <3>3, <1>1 DEF Settled, Committed
  <2>. QED
    BY <2>1 DEF OrphansInOrder
<1>22. FirstCommitsInOrder'
  <2>1. ASSUME NEW i \in 1..Len(log'), NEW m \in 1..Written',
               m < log'[i].msg, owner'[m] = owner'[log'[i].msg], owner'[m] # Elsewhere
        PROVE  m \in rejected' \/ \E j \in 1..i : log'[j].msg = m
    <3>1. log[i].msg \in 1..Written /\ log' = log
      BY <1>1 DEF StoreInv, LogIsKnown
    <3>2. m \in 1..Written /\ owner[m] = owner[log[i].msg] /\ owner[m] # Elsewhere
      BY <3>1, <2>1, <1>2 DEF n
    <3>3. m \in rejected \/ \E j \in 1..i : log[j].msg = m
      BY <3>1, <3>2, <2>1 DEF StoreInv, FirstCommitsInOrder
    <3>. QED
      BY <3>1, <3>3, <1>1
  <2>. QED
    BY <2>1 DEF FirstCommitsInOrder
<1>. QED
  BY <1>12, <1>13, <1>14, <1>15, <1>16, <1>17, <1>18, <1>19, <1>20, <1>21, <1>22 DEF StoreInv

\* A step that touches neither authors nor the log, and takes back no refusal,
\* keeps what is true of the log, and of the streams that ended before.
LEMMA LogUntouched ==
    ASSUME StoreInv, owner' = owner, log' = log, rejected \subseteq rejected'
    PROVE  /\ LogIsKnown' /\ CommittedUnderOwner' /\ FirstCommitsInOrder'
           /\ late' = late => OrphansAreKnown' /\ OrphansInOrder'
<1>1. Written' = Written
  BY DEF Written
<1>2. LogIsKnown' /\ CommittedUnderOwner'
  BY <1>1 DEF StoreInv, LogIsKnown, CommittedUnderOwner
<1>3. FirstCommitsInOrder'
  <2>1. FirstCommitsInOrder
    BY DEF StoreInv
  <2>. QED
    BY <1>1, <2>1 DEF FirstCommitsInOrder
<1>4. ASSUME late' = late PROVE OrphansAreKnown' /\ OrphansInOrder'
  <2>1. OrphansAreKnown'
    BY <1>1, <1>4 DEF StoreInv, OrphansAreKnown, OwnedBy
  <2>2. \A m : Settled(m) => Settled(m)'
    BY DEF Settled, Committed
  <2>3. OrphansInOrder
    BY DEF StoreInv
  <2>. QED
    BY <1>1, <1>4, <2>1, <2>2, <2>3 DEF OrphansInOrder
<1>. QED
  BY <1>2, <1>3, <1>4

\* A stream that ends leaves its writes behind in order.
LEMMA AbandonedInOrder ==
    ASSUME StoreInv, owner' = owner, log' = log, rejected' = rejected,
           late' = IF Refused THEN late ELSE late \cup Abandoned
    PROVE  late' \subseteq Orphan /\ OrphansAreKnown' /\ OrphansInOrder'
<1>1. /\ Written' = Written
      /\ \A m : Settled(m)' <=> Settled(m)
  BY DEF Written, Settled, Committed
<1>2. /\ late \subseteq Orphan /\ restarts \in Nat
      /\ OrphansAreKnown /\ OrphansInOrder
  BY DEF StoreInv, TypeOK
<1>3. ASSUME NEW o \in late'
      PROVE  \/ o \in late
             \/ /\ ~Refused /\ wire # <<>> /\ engineUser \in Users
                /\ o = [user |-> engineUser, msgs |-> wire, restart |-> restarts]
  BY <1>3, PipelineFacts DEF Abandoned
<1>4. late' \subseteq Orphan
  BY <1>2, <1>3, PipelineFacts DEF Orphan
<1>5. OrphansAreKnown'
  <2>1. ASSUME NEW o \in late'
        PROVE  o.msgs # <<>> /\ \A i \in 1..Len(o.msgs) : o.msgs[i] \in 1..Written /\ owner[o.msgs[i]] = o.user
    BY <1>2, <1>3, PipelineFacts DEF OrphansAreKnown, OwnedBy
  <2>. QED
    BY <2>1, <1>1 DEF OrphansAreKnown, OwnedBy
<1>6. OrphansInOrder'
  <2>1. ASSUME NEW o \in late', NEW k \in 1..Len(o.msgs), NEW m \in 1..Written,
               m < o.msgs[k], owner[m] = o.user
        PROVE  Settled(m) \/ \E j \in 1..(k - 1) : o.msgs[j] = m
    <3>1. CASE o \in late
      BY <3>1, <2>1, <1>2 DEF OrphansInOrder
    <3>2. CASE o \notin late
      <4>1. ~Refused /\ o.msgs = wire /\ o.user = engineUser
        BY <3>2, <1>3
      <4>. QED
        BY <4>1, <2>1, WireInOrder
    <3>. QED
      BY <3>1, <3>2
  <2>. QED
    BY <2>1, <1>1 DEF OrphansInOrder
<1>. QED
  BY <1>4, <1>5, <1>6

\* A stream that is not open carries nothing, whatever the pipeline is.
LEMMA EmptyStream ==
    ASSUME replies' = <<>>, wire' = <<>>, stream' # "open", pipeline' \in Seq(Nat)
    PROVE  RepliesMatchPipeline' /\ WireIsPipelineEnd' /\ AnswersAreCommits'
<1>1. Len(<<>>) = 0 /\ Len(pipeline') \in Nat
  BY EmptySeq, LenProperties
<1>. QED
  BY <1>1 DEF RepliesMatchPipeline, WireIsPipelineEnd, AnswersAreCommits

\* After the handshake the whole pipeline is on the wire.
LEMMA HandshakeKeepsInv == StoreInv /\ OnWriteStreamHandshakeComplete => StoreInv'
<1> SUFFICES ASSUME StoreInv, OnWriteStreamHandshakeComplete PROVE StoreInv'
  OBVIOUS
<1>1. /\ stream = "starting" /\ stream' = "open" /\ wire' = pipeline
      /\ UNCHANGED <<clientVars, owner, replies, late, log, restarts>>
  BY DEF OnWriteStreamHandshakeComplete
<1>2. replies' = <<>> /\ pipeline \in Seq(Nat) /\ Len(pipeline) \in Nat /\ Len(<<>>) = 0
  BY <1>1, StateInStep, PipelineFacts, LenProperties, EmptySeq
<1>3. TypeOK' /\ QueuesInOrder' /\ PipelineIsQueuePrefix'
  BY <1>1, <1>2 DEF StoreInv, TypeOK, QueuesInOrder, OwnedBy, Increasing, PipelineIsQueuePrefix,
                    clientVars, Written
<1>4. RepliesMatchPipeline' /\ WireIsPipelineEnd' /\ AnswersAreCommits'
  BY <1>1, <1>2 DEF RepliesMatchPipeline, WireIsPipelineEnd, AnswersAreCommits, clientVars
<1>5. CacheInStep' /\ NoMessageLost'
  BY <1>1 DEF StoreInv, CacheInStep, CacheIsCommitted, ResumeTokenIsCached, NoMessageLost,
              clientVars, Written
<1>6. LogIsKnown' /\ CommittedUnderOwner' /\ FirstCommitsInOrder' /\ OrphansAreKnown' /\ OrphansInOrder'
  BY <1>1, LogUntouched DEF clientVars
<1>. QED
  BY <1>3, <1>4, <1>5, <1>6 DEF StoreInv

\* A stream that breaks keeps the pipeline, and its writes may still arrive.
LEMMA CloseKeepsInv == StoreInv /\ OnWriteStreamClose => StoreInv'
<1> SUFFICES ASSUME StoreInv, OnWriteStreamClose PROVE StoreInv'
  OBVIOUS
<1>1. /\ stream' \in {"starting", "stopped"} /\ restarts' = restarts + 1
      /\ late' = IF Refused THEN late ELSE late \cup Abandoned
      /\ wire' = <<>> /\ replies' = <<>>
      /\ UNCHANGED <<clientVars, owner, log>>
  BY DEF OnWriteStreamClose
<1>2. late' \subseteq Orphan /\ OrphansAreKnown' /\ OrphansInOrder'
  BY <1>1, AbandonedInOrder DEF clientVars
<1>3. TypeOK' /\ QueuesInOrder' /\ PipelineIsQueuePrefix'
  BY <1>1, <1>2 DEF StoreInv, TypeOK, QueuesInOrder, OwnedBy, Increasing, PipelineIsQueuePrefix,
                    clientVars, Written
<1>4. RepliesMatchPipeline' /\ WireIsPipelineEnd' /\ AnswersAreCommits'
  BY <1>1, <1>3, EmptyStream DEF TypeOK
<1>5. CacheInStep' /\ NoMessageLost'
  BY <1>1 DEF StoreInv, CacheInStep, CacheIsCommitted, ResumeTokenIsCached, NoMessageLost,
              clientVars, Written
<1>6. LogIsKnown' /\ CommittedUnderOwner' /\ FirstCommitsInOrder'
  BY <1>1, LogUntouched DEF clientVars
<1>. QED
  BY <1>2, <1>3, <1>4, <1>5, <1>6 DEF StoreInv

\* Another user's pipeline is built from that user's queue.
LEMMA CredentialChangeKeepsInv ==
    ASSUME StoreInv, NEW u \in Accounts, HandleCredentialChange(u)
    PROVE  StoreInv'
<1>1. /\ engineUser' = u /\ restarts' = restarts + 1
      /\ late' = IF Refused THEN late ELSE late \cup Abandoned
      /\ FillWritePipeline(<<>>, queue[u], "stopped")
      /\ wire' = <<>> /\ replies' = <<>>
      /\ UNCHANGED <<queue, cache, rejected, watched, owner, log>>
  BY DEF HandleCredentialChange, RestartNetwork
<1>2. late' \subseteq Orphan /\ OrphansAreKnown' /\ OrphansInOrder'
  BY <1>1, AbandonedInOrder
<1>3. /\ pipeline' \in Seq(Nat) /\ Begins(pipeline', queue[u])
      /\ Len(pipeline') <= MaxPendingWrites
      /\ stream' \in {"stopped", "starting", "open"} /\ stream' # "open"
  <2>1. <<>> \in Seq(Nat) /\ Begins(<<>>, queue[u]) /\ Len(<<>>) <= MaxPendingWrites
    BY EmptySeq, QueueFacts, StoreAssumption DEF Begins
  <2>2. /\ queue[u] \in Seq(Nat) /\ Increasing(queue[u]) /\ Positive(queue[u])
        /\ "stopped" \in {"stopped", "starting", "open"} /\ "stopped" # "open"
    BY QueueFacts
  <2>. QED
    BY <2>1, <2>2, <1>1, FillFacts
<1>4. TypeOK'
  BY <1>1, <1>2, <1>3 DEF StoreInv, TypeOK, Written
<1>5. QueuesInOrder' /\ PipelineIsQueuePrefix'
  BY <1>1, <1>3 DEF StoreInv, QueuesInOrder, OwnedBy, Increasing, PipelineIsQueuePrefix, Begins, Written
<1>6. RepliesMatchPipeline' /\ WireIsPipelineEnd' /\ AnswersAreCommits'
  BY <1>1, <1>3, EmptyStream
<1>7. CacheInStep' /\ NoMessageLost'
  BY <1>1 DEF StoreInv, CacheInStep, CacheIsCommitted, ResumeTokenIsCached, NoMessageLost, Written
<1>8. LogIsKnown' /\ CommittedUnderOwner' /\ FirstCommitsInOrder'
  BY <1>1, LogUntouched
<1>. QED
  BY <1>2, <1>4, <1>5, <1>6, <1>7, <1>8 DEF StoreInv

\* When the first write of the pipeline is settled, it is the head of the
\* user's queue that leaves, and the pipeline is filled from what is left.
LEMMA SettleHead ==
    ASSUME StoreInv, replies # <<>>,
           queue' = [queue EXCEPT ![engineUser] = Without(@, Head(pipeline))],
           owner' = owner, engineUser' = engineUser,
           NEW state \in {"stopped", "starting", "open"},
           FillWritePipeline(Tail(pipeline), queue'[engineUser], state)
    PROVE  /\ pipeline # <<>>
           /\ queue[engineUser] # <<>>
           /\ Head(pipeline) = queue[engineUser][1]
           /\ Head(pipeline) \in 1..Written
           /\ queue' = [queue EXCEPT ![engineUser] = Tail(@)]
           /\ queue' \in [Accounts -> Seq(Nat)]
           /\ QueuesInOrder' /\ PipelineIsQueuePrefix'
           /\ pipeline' \in Seq(Nat)
           /\ Refill(Tail(pipeline), queue'[engineUser]) \in Seq(Nat)
           /\ pipeline' = Tail(pipeline) \o Refill(Tail(pipeline), queue'[engineUser])
           /\ stream' \in {"stopped", "starting", "open"}
           /\ stream' = "open" <=> state = "open"
           /\ \A u \in Accounts : \A i \in 1..Len(queue[u]) :
                 queue[u][i] # Head(pipeline) =>
                     \E j \in 1..Len(queue'[u]) : queue'[u][j] = queue[u][i]
<1> DEFINE q == queue[engineUser]
           rest == Tail(q)
<1>1. /\ engineUser \in Accounts /\ pipeline \in Seq(Nat) /\ wire \in Seq(Nat)
      /\ replies \in Seq(Reply) /\ Begins(pipeline, q) /\ Len(pipeline) <= MaxPendingWrites
  BY PipelineFacts
<1>2. pipeline # <<>>
  BY <1>1, StateInStep, TailsInStep
<1>3. /\ q \in Seq(Nat) /\ Len(q) \in Nat /\ Increasing(q) /\ Positive(q)
      /\ \A i \in 1..Len(q) : q[i] \in 1..Written /\ owner[q[i]] = engineUser
  BY <1>1, QueueFacts DEF OwnedBy
<1>4. /\ Len(pipeline) \in Nat \ {0} /\ Head(pipeline) = pipeline[1]
      /\ Tail(pipeline) \in Seq(Nat) /\ Len(Tail(pipeline)) = Len(pipeline) - 1
      /\ \A i \in 1..Len(Tail(pipeline)) : Tail(pipeline)[i] = pipeline[i + 1]
  BY <1>1, <1>2, TailFacts
<1>5. q # <<>> /\ Head(pipeline) = q[1]
  <2>1. 1 \in 1..Len(pipeline) /\ Len(q) > 0
    BY <1>1, <1>3, <1>4 DEF Begins
  <2>. QED
    BY <2>1, <1>1, <1>4, EmptySeq DEF Begins
<1>6. /\ rest \in Seq(Nat) /\ Len(q) \in Nat \ {0} /\ Len(rest) = Len(q) - 1
      /\ \A i \in 1..Len(rest) : rest[i] = q[i + 1]
  BY <1>3, <1>5, TailFacts
<1>7. queue \in [Accounts -> Seq(Nat)]
  BY DEF StoreInv, TypeOK
<1>8. queue' = [queue EXCEPT ![engineUser] = Tail(@)]
  BY <1>3, <1>5, WithoutHead
<1>9. /\ queue'[engineUser] = rest
      /\ \A u \in Accounts : u # engineUser => queue'[u] = queue[u]
      /\ queue' \in [Accounts -> Seq(Nat)]
  BY <1>1, <1>6, <1>7, <1>8
<1>. HIDE DEF q, rest
<1>10. \A i \in 1..Len(rest) : i \in 1..Len(q) /\ i + 1 \in 1..Len(q)
  BY <1>6
<1>11. Increasing(rest) /\ Positive(rest)
  <2>1. Positive(rest)
    BY <1>3, <1>6, <1>10 DEF Positive
  <2>2. ASSUME NEW i \in 1..Len(rest), NEW j \in 1..Len(rest), i < j
        PROVE  rest[i] < rest[j]
    <3>1. i + 1 \in 1..Len(q) /\ j + 1 \in 1..Len(q) /\ i + 1 < j + 1
      BY <1>6, <1>10, <2>2
    <3>2. q[i + 1] < q[j + 1]
      BY <3>1, <1>3 DEF Increasing
    <3>. QED
      BY <3>2, <1>6
  <2>. QED
    BY <2>1, <2>2 DEF Increasing
<1>12. QueuesInOrder'
  <2>1. ASSUME NEW u \in Accounts
        PROVE  /\ Increasing(queue'[u])
               /\ \A i \in 1..Len(queue'[u]) : queue'[u][i] \in 1..Written /\ owner[queue'[u][i]] = u
    <3>1. CASE u = engineUser
      <4>1. \A i \in 1..Len(rest) : rest[i] \in 1..Written /\ owner[rest[i]] = engineUser
        BY <1>3, <1>6, <1>10
      <4>. QED
        BY <3>1, <4>1, <1>9, <1>11
    <3>2. CASE u # engineUser
      BY <3>2, <1>9, QueueFacts DEF OwnedBy
    <3>. QED
      BY <3>1, <3>2
  <2>. QED
    BY <2>1 DEF QueuesInOrder, OwnedBy, Increasing, Written
<1>13. Begins(Tail(pipeline), rest) /\ Len(Tail(pipeline)) <= MaxPendingWrites
  <2>1. Len(pipeline) <= Len(q) /\ \A i \in 1..Len(pipeline) : pipeline[i] = q[i]
    BY <1>1 DEF Begins
  <2>2. Len(Tail(pipeline)) <= Len(rest) /\ Len(Tail(pipeline)) <= MaxPendingWrites
    BY <2>1, <1>1, <1>4, <1>6, StoreAssumption
  <2>3. ASSUME NEW i \in 1..Len(Tail(pipeline)) PROVE Tail(pipeline)[i] = rest[i]
    <3>1. i + 1 \in 1..Len(pipeline) /\ i \in 1..Len(rest)
      BY <1>4, <1>6, <2>2
    <3>. QED
      BY <3>1, <2>1, <1>4, <1>6
  <2>. QED
    BY <2>2, <2>3 DEF Begins
<1>14. FillWritePipeline(Tail(pipeline), rest, state)
  BY <1>9
<1>15. /\ pipeline' \in Seq(Nat) /\ Begins(pipeline', rest)
       /\ Len(pipeline') <= MaxPendingWrites
       /\ Refill(Tail(pipeline), rest) \in Seq(Nat)
       /\ pipeline' = Tail(pipeline) \o Refill(Tail(pipeline), rest)
       /\ stream' \in {"stopped", "starting", "open"}
       /\ stream' = "open" <=> state = "open"
  BY <1>4, <1>6, <1>11, <1>13, <1>14, FillFacts
<1>16. PipelineIsQueuePrefix'
  BY <1>9, <1>15 DEF PipelineIsQueuePrefix, Begins
<1>17. ASSUME NEW u \in Accounts, NEW i \in 1..Len(queue[u]), queue[u][i] # Head(pipeline)
       PROVE  \E j \in 1..Len(queue'[u]) : queue'[u][j] = queue[u][i]
  <2>1. CASE u = engineUser
    <3>1. i \in 1..Len(q) /\ i # 1
      BY <2>1, <1>5, <1>17 DEF q
    <3>2. i - 1 \in 1..Len(rest) /\ (i - 1) + 1 = i
      BY <3>1, <1>6
    <3>3. rest[i - 1] = q[i]
      BY <3>2, <1>6
    <3>. QED
      BY <3>2, <3>3, <2>1, <1>9 DEF q
  <2>2. CASE u # engineUser
    BY <2>2, <1>9
  <2>. QED
    BY <2>1, <2>2
<1>18. Head(pipeline) \in 1..Written
  <2>1. 1 \in 1..Len(q)
    BY <1>6
  <2>. QED
    BY <2>1, <1>3, <1>5
<1>. QED
  BY <1>2, <1>5, <1>8, <1>9, <1>12, <1>15, <1>16, <1>17, <1>18 DEF q

\* An acknowledgment is for the head of the queue: it names that message, and
\* carries the version of one of its commits into the cache.
LEMMA AckFacts ==
    ASSUME StoreInv, OnWriteStreamMutationResult
    PROVE  /\ pipeline # <<>>
           /\ Head(pipeline) \in 1..Written
           /\ Head(replies).version \in 1..Len(log) /\ Len(log) \in Nat
           /\ log[Head(replies).version].msg = Head(pipeline)
           /\ cache' \in Seq(Nat) /\ Len(cache') = Len(cache)
           /\ \A m \in 1..Written : cache'[m] \in Nat /\ cache[m] \in Nat /\ cache'[m] >= cache[m]
           /\ cache'[Head(pipeline)] > 0
           /\ \A m \in 1..Written :
                 cache'[m] = cache[m] \/ (m = Head(pipeline) /\ cache'[m] = Head(replies).version)
<1> DEFINE h == Head(pipeline)
           v == Head(replies).version
<1>1. /\ replies # <<>> /\ v > 0
      /\ queue' = [queue EXCEPT ![engineUser] = Without(@, h)]
      /\ cache' = [cache EXCEPT ![h] = Newer(@, v)]
      /\ FillWritePipeline(Tail(pipeline), queue'[engineUser], stream)
      /\ UNCHANGED <<engineUser, owner>>
  BY DEF OnWriteStreamMutationResult, AcknowledgeBatch
<1>2. /\ pipeline \in Seq(Nat) /\ wire \in Seq(Nat) /\ replies \in Seq(Reply)
      /\ stream \in {"stopped", "starting", "open"}
      /\ cache \in Seq(Nat) /\ Len(cache) = Written /\ Written \in Nat
  BY PipelineFacts, StateFacts DEF StoreInv, TypeOK
<1>3. h \in 1..Written
  BY <1>1, <1>2, SettleHead
<1>4. pipeline # <<>> /\ Head(replies).msg = h
  BY <1>1, <1>2, StateInStep, TailsInStep
<1>5. Len(replies) \in Nat \ {0} /\ Head(replies) = replies[1]
  BY <1>1, <1>2, TailFacts
<1>6. v \in 1..Len(log) /\ Len(log) \in Nat /\ log[v].msg = h
  <2>1. v \in Nat
    <3>1. replies[1] \in Reply
      BY <1>1, <1>2, TailFacts
    <3>. QED
      BY <3>1, <1>5 DEF Reply
  <2>. QED
    BY <1>1, <1>4, <1>5, <2>1, StateFacts DEF StoreInv, AnswersAreCommits
<1>. HIDE DEF h, v
<1>7. /\ cache' \in Seq(Nat) /\ Len(cache') = Len(cache)
      /\ \A m \in 1..Written : cache'[m] \in Nat /\ cache[m] \in Nat /\ cache'[m] >= cache[m]
      /\ cache'[h] > 0
      /\ \A m \in 1..Written : cache'[m] = cache[m] \/ (m = h /\ cache'[m] = v)
  <2>1. cache[h] \in Nat /\ v \in Nat \ {0}
    BY <1>3, <1>6, StateFacts
  <2>3. Newer(cache[h], v) \in {cache[h], v} /\ Newer(cache[h], v) >= cache[h] /\ Newer(cache[h], v) >= v
    BY <2>1 DEF Newer
  <2>2. /\ cache' \in Seq(Nat) /\ Len(cache') = Len(cache)
        /\ \A m \in 1..Len(cache) : cache'[m] = IF m = h THEN Newer(cache[h], v) ELSE cache[m]
    <3>1. h \in 1..Len(cache) /\ Newer(cache[h], v) \in Nat
      BY <1>2, <1>3, <2>1, <2>3
    <3>. QED
      BY <1>1, <1>2, <3>1, ExceptSeq
  <2>4. cache'[h] = Newer(cache[h], v)
    BY <1>2, <1>3, <2>2
  <2>5. \A m \in 1..Written : cache[m] \in Nat /\ (m # h => cache'[m] = cache[m])
    BY <1>2, <2>2, StateFacts
  <2>6. ASSUME NEW m \in 1..Written
        PROVE  /\ cache'[m] \in Nat /\ cache'[m] >= cache[m]
               /\ cache'[m] = cache[m] \/ (m = h /\ cache'[m] = v)
    <3>1. CASE m = h
      <4>1. /\ cache'[h] = cache[h] \/ cache'[h] = v
            /\ cache'[h] \in Nat /\ cache'[h] >= cache[h]
        BY <2>1, <2>3, <2>4
      <4>. QED
        BY <3>1, <4>1
    <3>2. CASE m # h
      <4>1. cache[m] \in Nat /\ cache'[m] = cache[m]
        BY <3>2, <2>5
      <4>2. cache'[m] >= cache[m]
        BY <4>1
      <4>. QED
        BY <4>1, <4>2
    <3>. QED
      BY <3>1, <3>2
  <2>7. cache'[h] > 0
    BY <2>1, <2>3, <2>4
  <2>. QED
    BY <2>2, <2>5, <2>6, <2>7
<1>. QED
  BY <1>3, <1>4, <1>6, <1>7 DEF h, v

\* An acknowledged message is in the cache as soon as it has left the queue.
LEMMA ResultKeepsInv == StoreInv /\ OnWriteStreamMutationResult => StoreInv'
<1> SUFFICES ASSUME StoreInv, OnWriteStreamMutationResult PROVE StoreInv'
  OBVIOUS
<1> DEFINE h == Head(pipeline)
           v == Head(replies).version
           more == Refill(Tail(pipeline), queue'[engineUser])
<1>1. /\ replies # <<>> /\ v > 0
      /\ queue' = [queue EXCEPT ![engineUser] = Without(@, h)]
      /\ cache' = [cache EXCEPT ![h] = Newer(@, v)]
      /\ FillWritePipeline(Tail(pipeline), queue'[engineUser], stream)
      /\ wire' = wire \o more
      /\ replies' = Tail(replies)
      /\ UNCHANGED <<engineUser, owner, rejected, late, log, watched, restarts>>
  BY DEF OnWriteStreamMutationResult, AcknowledgeBatch
<1>2. /\ pipeline \in Seq(Nat) /\ wire \in Seq(Nat) /\ replies \in Seq(Reply)
      /\ stream \in {"stopped", "starting", "open"}
      /\ cache \in Seq(Nat) /\ Len(cache) = Written /\ Written \in Nat /\ Written' = Written
  BY <1>1, PipelineFacts, StateFacts DEF StoreInv, TypeOK, Written
<1>3. /\ queue[engineUser] # <<>> /\ h = queue[engineUser][1] /\ h \in 1..Written
      /\ queue' \in [Accounts -> Seq(Nat)]
      /\ QueuesInOrder' /\ PipelineIsQueuePrefix'
      /\ pipeline' \in Seq(Nat) /\ more \in Seq(Nat) /\ pipeline' = Tail(pipeline) \o more
      /\ stream' \in {"stopped", "starting", "open"}
      /\ stream' = "open" <=> stream = "open"
      /\ \A u \in Accounts : \A i \in 1..Len(queue[u]) :
            queue[u][i] # h => \E j \in 1..Len(queue'[u]) : queue'[u][j] = queue[u][i]
  BY <1>1, <1>2, SettleHead
<1>4. /\ pipeline # <<>> /\ Head(replies).msg = h
      /\ InStep(Tail(pipeline), Tail(replies), wire)
      /\ Len(replies) + Len(wire) = Len(pipeline)
            => Len(Tail(replies)) + Len(wire) = Len(Tail(pipeline))
      /\ stream = "open"
      /\ ~Refused => Len(replies) + Len(wire) = Len(pipeline)
  BY <1>1, <1>2, StateInStep, TailsInStep
<1>5. /\ Len(replies) \in Nat \ {0} /\ Head(replies) = replies[1] /\ Tail(replies) \in Seq(Reply)
      /\ Len(Tail(replies)) = Len(replies) - 1
      /\ \A i \in 1..Len(Tail(replies)) : Tail(replies)[i] = replies[i + 1]
  BY <1>1, <1>2, TailFacts
<1>6. v \in 1..Len(log) /\ Len(log) \in Nat /\ log[v].msg = h
  BY AckFacts
<1>7. /\ cache' \in Seq(Nat) /\ Len(cache') = Len(cache)
      /\ \A m \in 1..Written : cache'[m] \in Nat /\ cache[m] \in Nat /\ cache'[m] >= cache[m]
      /\ cache'[h] > 0
      /\ \A m \in 1..Written : cache'[m] = cache[m] \/ (m = h /\ cache'[m] = v)
  BY AckFacts
<1>. HIDE DEF more, h, v
<1>8. TypeOK'
  <2>1. wire' \in Seq(Nat)
    BY <1>1, <1>2, <1>3, ConcatProperties
  <2>. QED
    BY <1>1, <1>2, <1>3, <1>5, <1>7, <2>1 DEF StoreInv, TypeOK
<1>9. RepliesMatchPipeline' /\ WireIsPipelineEnd'
  <2>1. Tail(pipeline) \in Seq(Nat)
    BY <1>2, <1>4, TailFacts
  <2>2. /\ InStep(pipeline', replies', wire')
        /\ Len(replies) + Len(wire) = Len(pipeline) => Len(replies') + Len(wire') = Len(pipeline')
    <3>1. /\ InStep(Tail(pipeline) \o more, Tail(replies), wire \o more)
          /\ Len(Tail(replies)) + Len(wire) = Len(Tail(pipeline))
                => Len(Tail(replies)) + Len(wire \o more) = Len(Tail(pipeline) \o more)
      <4> DEFINE p1 == Tail(pipeline)
                 r1 == Tail(replies)
      <4>1. p1 \in Seq(Nat) /\ r1 \in Seq(Reply) /\ InStep(p1, r1, wire)
        BY <1>4, <1>5, <2>1
      <4>3. wire \in Seq(Nat) /\ more \in Seq(Nat)
        BY <1>2, <1>3
      <4>. HIDE DEF p1, r1
      <4>2. /\ InStep(p1 \o more, r1, wire \o more)
            /\ Len(r1) + Len(wire) = Len(p1) => Len(r1) + Len(wire \o more) = Len(p1 \o more)
        BY <4>1, <4>3, RefillKeepsInStep
      <4>. QED
        BY <4>2 DEF p1, r1
    <3>. QED
      BY <3>1, <1>1, <1>3, <1>4, Zenon
  <2>3. Refused => Refused'
    <3>1. SUFFICES ASSUME Refused PROVE Refused'
      OBVIOUS
    <3>2. PICK i \in 1..Len(replies) : replies[i].version = 0
      BY <3>1 DEF Refused
    <3>3. i # 1
      BY <3>2, <1>1, <1>5, <1>6 DEF v
    <3>4. i - 1 \in 1..Len(Tail(replies)) /\ (i - 1) + 1 = i
      BY <3>3, <1>5
    <3>5. Tail(replies)[i - 1] = replies[i]
      BY <3>4, <1>5
    <3>. QED
      BY <3>2, <3>4, <3>5, <1>1 DEF Refused
  <2>4. /\ Len(replies') \in Nat /\ Len(wire') \in Nat /\ Len(pipeline') \in Nat
    BY <1>8, LenProperties DEF TypeOK
  <2>5. ~Refused' => Len(replies') + Len(wire') = Len(pipeline')
    BY <2>2, <2>3, <1>4
  <2>6. ~Refused' => \A i \in 1..Len(wire') : wire'[i] = pipeline'[Len(replies') + i]
    <3>1. Len(replies') + Len(wire') = Len(pipeline') => Len(pipeline') - Len(wire') = Len(replies')
      BY <2>4
    <3>. QED
      BY <2>2, <2>5, <3>1 DEF InStep
  <2>7. Len(replies') <= Len(pipeline')
    BY <2>2, <2>4 DEF InStep
  <2>8. stream' = "open"
    BY <1>3, <1>4
  <2>9. WireIsPipelineEnd'
    BY <2>2, <2>8 DEF WireIsPipelineEnd, InStep
  <2>. QED
    BY <2>2, <2>5, <2>6, <2>7, <2>9 DEF RepliesMatchPipeline, InStep
<1>10. AnswersAreCommits'
  <2>1. ASSUME NEW i \in 1..Len(Tail(replies)), Tail(replies)[i].version > 0
        PROVE  /\ Tail(replies)[i].version <= Len(log)
               /\ log[Tail(replies)[i].version].msg = Tail(replies)[i].msg
    <3>1. i + 1 \in 1..Len(replies) /\ Tail(replies)[i] = replies[i + 1]
      BY <1>5
    <3>. QED
      BY <2>1, <3>1 DEF StoreInv, AnswersAreCommits
  <2>. QED
    BY <1>1, <2>1 DEF AnswersAreCommits
<1>11. CacheInStep'
  <2>1. /\ \A m \in 1..Written : cache[m] > 0 => cache[m] <= Len(log) /\ log[cache[m]].msg = m
        /\ \A i \in 1..watched : cache[log[i].msg] >= i
        /\ watched \in 0..Len(log)
    BY DEF StoreInv, CacheInStep, CacheIsCommitted, ResumeTokenIsCached, TypeOK
  <2>2. \A m \in 1..Written : cache'[m] > 0 => cache'[m] <= Len(log) /\ log[cache'[m]].msg = m
    BY <2>1, <1>6, <1>7
  <2>3. \A i \in 1..watched : cache'[log[i].msg] >= i
    <3>1. ASSUME NEW i \in 1..watched PROVE cache'[log[i].msg] >= i
      <4>1. i \in 1..Len(log)
        BY <2>1, <1>6
      <4>2. log[i].msg \in 1..Written
        BY <4>1 DEF StoreInv, LogIsKnown
      <4>3. cache'[log[i].msg] \in Nat /\ cache[log[i].msg] \in Nat /\ cache'[log[i].msg] >= cache[log[i].msg]
        BY <4>2, <1>7
      <4>. QED
        BY <4>1, <4>3, <2>1
    <3>. QED
      BY <3>1
  <2>. QED
    BY <1>1, <1>2, <2>2, <2>3 DEF CacheInStep, CacheIsCommitted, ResumeTokenIsCached
<1>12. NoMessageLost'
  <2>1. ASSUME NEW m \in 1..Written, owner[m] # Elsewhere
        PROVE  \/ \E i \in 1..Len(queue'[owner[m]]) : queue'[owner[m]][i] = m
               \/ cache'[m] > 0
               \/ m \in rejected
    <3>1. CASE m = h
      BY <3>1, <1>7
    <3>2. CASE m # h /\ \E i \in 1..Len(queue[owner[m]]) : queue[owner[m]][i] = m
      <4>1. owner[m] \in Accounts
        BY <2>1, StateFacts DEF Accounts
      <4>. QED
        BY <3>2, <4>1, <1>3
    <3>3. CASE cache[m] > 0 \/ m \in rejected
      BY <3>3, <1>7
    <3>. QED
      BY <3>1, <3>2, <3>3, <2>1 DEF StoreInv, NoMessageLost
  <2>. QED
    BY <2>1, <1>1, <1>2 DEF NoMessageLost
<1>13. LogIsKnown' /\ CommittedUnderOwner' /\ FirstCommitsInOrder' /\ OrphansAreKnown' /\ OrphansInOrder'
  BY <1>1, LogUntouched
<1>. QED
  BY <1>3, <1>8, <1>9, <1>10, <1>11, <1>12, <1>13 DEF StoreInv

\* A refusal drops the head of the queue and closes the stream.
LEMMA WriteErrorKeepsInv == StoreInv /\ HandleWriteError => StoreInv'
<1> SUFFICES ASSUME StoreInv, HandleWriteError PROVE StoreInv'
  OBVIOUS
<1> DEFINE h == Head(pipeline)
<1>1. /\ replies # <<>>
      /\ queue' = [queue EXCEPT ![engineUser] = Without(@, h)]
      /\ rejected' = rejected \cup {h}
      /\ FillWritePipeline(Tail(pipeline), queue'[engineUser], "stopped")
      /\ wire' = <<>> /\ replies' = <<>>
      /\ UNCHANGED <<cache, engineUser, owner, late, log, watched, restarts>>
  BY DEF HandleWriteError, RejectBatch
<1>2. /\ h \in 1..Written
      /\ queue' \in [Accounts -> Seq(Nat)]
      /\ QueuesInOrder' /\ PipelineIsQueuePrefix'
      /\ pipeline' \in Seq(Nat)
      /\ stream' \in {"stopped", "starting", "open"} /\ stream' # "open"
      /\ \A u \in Accounts : \A i \in 1..Len(queue[u]) :
            queue[u][i] # h => \E j \in 1..Len(queue'[u]) : queue'[u][j] = queue[u][i]
  <2>1. "stopped" \in {"stopped", "starting", "open"} /\ "stopped" # "open"
    OBVIOUS
  <2>. QED
    BY <1>1, <2>1, SettleHead
<1>. HIDE DEF h
<1>3. TypeOK'
  BY <1>1, <1>2 DEF StoreInv, TypeOK, Written
<1>4. RepliesMatchPipeline' /\ WireIsPipelineEnd' /\ AnswersAreCommits'
  BY <1>1, <1>2, EmptyStream
<1>5. CacheInStep'
  BY <1>1 DEF StoreInv, CacheInStep, CacheIsCommitted, ResumeTokenIsCached, Written
<1>6. NoMessageLost'
  <2>1. ASSUME NEW m \in 1..Written, owner[m] # Elsewhere
        PROVE  \/ \E i \in 1..Len(queue'[owner[m]]) : queue'[owner[m]][i] = m
               \/ cache[m] > 0
               \/ m \in rejected'
    <3>1. CASE m = h
      BY <3>1, <1>1
    <3>2. CASE m # h /\ \E i \in 1..Len(queue[owner[m]]) : queue[owner[m]][i] = m
      <4>1. owner[m] \in Accounts
        BY <2>1, StateFacts DEF Accounts
      <4>2. PICK i \in 1..Len(queue[owner[m]]) : queue[owner[m]][i] = m
        BY <3>2
      <4>3. \E j \in 1..Len(queue'[owner[m]]) : queue'[owner[m]][j] = queue[owner[m]][i]
        BY <3>2, <4>1, <4>2, <1>2
      <4>. QED
        BY <4>2, <4>3
    <3>3. CASE cache[m] > 0 \/ m \in rejected
      BY <3>3, <1>1
    <3>. QED
      BY <3>1, <3>2, <3>3, <2>1 DEF StoreInv, NoMessageLost
  <2>. QED
    BY <2>1, <1>1 DEF NoMessageLost, Written
<1>7. LogIsKnown' /\ CommittedUnderOwner' /\ FirstCommitsInOrder' /\ OrphansAreKnown' /\ OrphansInOrder'
  BY <1>1, LogUntouched
<1>. QED
  BY <1>2, <1>3, <1>4, <1>5, <1>6, <1>7 DEF StoreInv

\* What a watch event does to the cache: a version only grows, to that of a
\* commit of the same message, and reaches every commit reported.
LEMMA EventFacts ==
    ASSUME StoreInv, NEW n \in (watched + 1)..Len(log), ApplyRemoteEvent(n)
    PROVE  /\ cache' \in Seq(Nat) /\ Len(cache') = Written
           /\ \A m \in 1..Written :
                 /\ cache'[m] \in Nat /\ cache[m] \in Nat /\ cache'[m] >= cache[m]
                 /\ cache'[m] = cache[m] \/ (cache'[m] \in 1..n /\ log[cache'[m]].msg = m)
           /\ \A i \in (watched + 1)..n : cache'[log[i].msg] >= i
<1> DEFINE Found(m) == {i \in (watched + 1)..n : log[i].msg = m}
           latest(m) == CHOOSE i \in Found(m) : \A j \in Found(m) : j <= i
<1>1. /\ watched \in Nat /\ Len(log) \in Nat /\ n \in Nat /\ n <= Len(log) /\ Written \in Nat
      /\ \A m \in 1..Written : cache[m] \in Nat
  BY StateFacts DEF StoreInv, TypeOK
<1>2. cache' = [m \in 1..Written |-> IF Found(m) = {} THEN cache[m] ELSE Newer(cache[m], latest(m))]
  BY DEF ApplyRemoteEvent
<1>3. ASSUME NEW m \in 1..Written, Found(m) # {}
      PROVE  /\ latest(m) \in 1..n /\ log[latest(m)].msg = m
             /\ \A j \in Found(m) : j <= latest(m)
  <2>1. Found(m) \in SUBSET (1..n)
    BY <1>1
  <2>2. \E i \in Found(m) : \A j \in Found(m) : j <= i
    BY <1>1, <1>3, <2>1, LastPosition
  <2>3. latest(m) \in Found(m) /\ \A j \in Found(m) : j <= latest(m)
    BY <2>2
  <2>. QED
    BY <2>1, <2>3
<1>4. ASSUME NEW m \in 1..Written
      PROVE  /\ cache'[m] \in Nat /\ cache'[m] >= cache[m]
             /\ cache'[m] = cache[m] \/ (cache'[m] \in 1..n /\ log[cache'[m]].msg = m)
             /\ \A j \in Found(m) : cache'[m] >= j
  <2>1. cache[m] \in Nat
    BY <1>1
  <2>2. CASE Found(m) = {}
    BY <2>1, <2>2, <1>2
  <2>3. CASE Found(m) # {}
    <3>1. cache'[m] = Newer(cache[m], latest(m))
      BY <2>3, <1>2
    <3>2. /\ latest(m) \in 1..n /\ log[latest(m)].msg = m
          /\ \A j \in Found(m) : j <= latest(m)
      BY <2>3, <1>3
    <3>3. \A j \in Found(m) : j \in Nat
      BY <1>1
    <3>. HIDE DEF Found, latest
    <3>4. /\ cache'[m] = cache[m] \/ cache'[m] = latest(m)
          /\ cache'[m] >= cache[m] /\ cache'[m] >= latest(m) /\ cache'[m] \in Nat
      BY <2>1, <3>1, <3>2 DEF Newer
    <3>5. \A j \in Found(m) : cache'[m] >= j
      BY <3>2, <3>3, <3>4
    <3>. QED
      BY <3>2, <3>4, <3>5
  <2>. QED
    BY <2>2, <2>3
<1>5. cache' \in Seq(Nat) /\ Len(cache') = Written
  <2>1. cache' \in [1..Written -> Nat]
    BY <1>2, <1>4
  <2>. QED
    BY <1>1, <2>1
<1>6. ASSUME NEW i \in (watched + 1)..n PROVE cache'[log[i].msg] >= i
  <2>1. i \in 1..Len(log)
    BY <1>1
  <2>2. log[i].msg \in 1..Written /\ i \in Found(log[i].msg)
    BY <2>1 DEF StoreInv, LogIsKnown
  <2>. QED
    BY <2>2, <1>4
<1>. QED
  BY <1>1, <1>4, <1>5, <1>6

\* The resume token moves with the cache.
LEMMA EventKeepsInv ==
    ASSUME StoreInv, NEW n \in (watched + 1)..Len(log), ApplyRemoteEvent(n)
    PROVE  StoreInv'
<1>1. /\ watched' = n
      /\ UNCHANGED <<engineUser, queue, rejected, pipeline, owner, stream, wire,
                     replies, late, log, restarts>>
  BY DEF ApplyRemoteEvent
<1>2. /\ cache' \in Seq(Nat) /\ Len(cache') = Written
      /\ \A m \in 1..Written :
            /\ cache'[m] \in Nat /\ cache[m] \in Nat /\ cache'[m] >= cache[m]
            /\ cache'[m] = cache[m] \/ (cache'[m] \in 1..n /\ log[cache'[m]].msg = m)
      /\ \A i \in (watched + 1)..n : cache'[log[i].msg] >= i
  BY EventFacts
<1>3. watched \in Nat /\ Len(log) \in Nat /\ n \in 1..Len(log) /\ Written' = Written
  BY <1>1, StateFacts DEF StoreInv, TypeOK, Written
<1>4. TypeOK'
  <2>1. watched' \in 0..Len(log') /\ Len(cache') = Written'
    BY <1>1, <1>2, <1>3
  <2>. QED
    BY <1>1, <1>2, <1>3, <2>1 DEF StoreInv, TypeOK
<1>5. QueuesInOrder' /\ PipelineIsQueuePrefix' /\ RepliesMatchPipeline' /\ WireIsPipelineEnd' /\ AnswersAreCommits'
  BY <1>1, <1>3 DEF StoreInv, QueuesInOrder, OwnedBy, Increasing, PipelineIsQueuePrefix,
                    RepliesMatchPipeline, Refused, WireIsPipelineEnd, AnswersAreCommits
<1>6. CacheInStep'
  <2>1. /\ \A m \in 1..Written : cache[m] > 0 => cache[m] <= Len(log) /\ log[cache[m]].msg = m
        /\ \A i \in 1..watched : cache[log[i].msg] >= i
    BY DEF StoreInv, CacheInStep, CacheIsCommitted, ResumeTokenIsCached
  <2>2. ASSUME NEW m \in 1..Written, cache'[m] > 0
        PROVE  cache'[m] <= Len(log) /\ log[cache'[m]].msg = m
    <3>1. CASE cache'[m] = cache[m]
      BY <3>1, <2>1, <2>2
    <3>2. CASE cache'[m] \in 1..n /\ log[cache'[m]].msg = m
      BY <3>2, <1>3
    <3>. QED
      BY <3>1, <3>2, <1>2
  <2>3. ASSUME NEW i \in 1..n PROVE cache'[log[i].msg] >= i
    <3>1. CASE i \in 1..watched
      <4>1. i \in 1..Len(log)
        BY <1>3
      <4>2. log[i].msg \in 1..Written
        BY <4>1 DEF StoreInv, LogIsKnown
      <4>3. cache'[log[i].msg] \in Nat /\ cache[log[i].msg] \in Nat /\ cache'[log[i].msg] >= cache[log[i].msg]
        BY <4>2, <1>2
      <4>. QED
        BY <3>1, <4>1, <4>3, <2>1
    <3>2. CASE i \in (watched + 1)..n
      BY <3>2, <1>2
    <3>. QED
      BY <3>1, <3>2, <1>3
  <2>. QED
    BY <1>1, <1>3, <2>2, <2>3 DEF CacheInStep, CacheIsCommitted, ResumeTokenIsCached
<1>7. NoMessageLost'
  <2>1. \A m \in 1..Written : cache[m] > 0 => cache'[m] > 0
    BY <1>2
  <2>. QED
    BY <1>1, <1>3, <2>1 DEF StoreInv, NoMessageLost
<1>8. LogIsKnown' /\ CommittedUnderOwner' /\ FirstCommitsInOrder' /\ OrphansAreKnown' /\ OrphansInOrder'
  BY <1>1, LogUntouched
<1>. QED
  BY <1>4, <1>5, <1>6, <1>7, <1>8 DEF StoreInv

-----------------------------------------------------------------------------
(* The steps of the server                                                 *)

\* A commit under its author's name, of a message whose author's earlier ones
\* are settled, keeps what is true of the log and of the cache.
LEMMA CommitKeepsLog ==
    ASSUME StoreInv, NEW c \in Commit, log' = Append(log, c),
           rejected' = rejected, watched' = watched,
           Written' \in Nat, Written <= Written',
           \A m \in 1..Written : owner'[m] = owner[m] /\ cache'[m] = cache[m],
           \A m \in 1..Written' : m \in 1..Written \/ cache'[m] = 0,
           c.msg \in 1..Written', c.user = owner'[c.msg],
           \A m \in 1..Written : (m < c.msg /\ owner[m] = c.user /\ owner[m] # Elsewhere) => Settled(m),
           \A m \in 1..Written' : m < c.msg => m \in 1..Written
    PROVE  /\ LogIsKnown' /\ CommittedUnderOwner' /\ FirstCommitsInOrder' /\ CacheInStep'
           /\ \A i \in 1..Len(replies) : replies[i].version > 0 =>
                 replies[i].version <= Len(log') /\ log'[replies[i].version].msg = replies[i].msg
<1>1. /\ Len(log) \in Nat /\ Len(log') = Len(log) + 1
      /\ \A i \in 1..Len(log) : log'[i] = log[i]
      /\ log'[Len(log) + 1] = c
  BY NewCommitFacts
<1>2. Written \in Nat /\ watched \in 0..Len(log)
  BY StateFacts DEF StoreInv, TypeOK
<1>3. \A i \in 1..Len(log') : i \in 1..Len(log) \/ i = Len(log) + 1
  BY <1>1
<1>4. \A i \in 1..Len(log) : log[i].msg \in 1..Written /\ log[i].user = owner[log[i].msg]
  BY DEF StoreInv, LogIsKnown, CommittedUnderOwner
<1>5. \A m \in 1..Written : m \in 1..Written'
  BY <1>2
<1>6. LogIsKnown' /\ CommittedUnderOwner'
  BY <1>1, <1>3, <1>4, <1>5 DEF LogIsKnown, CommittedUnderOwner
<1>7. FirstCommitsInOrder'
  <2>1. ASSUME NEW i \in 1..Len(log'), NEW m \in 1..Written',
               m < log'[i].msg, owner'[m] = owner'[log'[i].msg], owner'[m] # Elsewhere
        PROVE  m \in rejected \/ \E j \in 1..i : log'[j].msg = m
    <3>1. CASE i \in 1..Len(log)
      <4>1. log'[i] = log[i] /\ log[i].msg \in 1..Written
        BY <3>1, <1>1, <1>4
      <4>2. m \in 1..Written
        BY <4>1, <2>1, <1>2
      <4>3. owner[m] = owner[log[i].msg] /\ owner[m] # Elsewhere
        BY <4>1, <4>2, <2>1
      <4>4. m \in rejected \/ \E j \in 1..i : log[j].msg = m
        BY <3>1, <4>1, <4>2, <4>3, <2>1 DEF StoreInv, FirstCommitsInOrder
      <4>5. \A j \in 1..i : log'[j] = log[j]
        BY <3>1, <1>1
      <4>. QED
        BY <4>4, <4>5
    <3>2. CASE i = Len(log) + 1
      <4>1. m \in 1..Written /\ owner[m] = c.user /\ owner[m] # Elsewhere /\ m < c.msg
        BY <3>2, <2>1, <1>1
      <4>2. Settled(m)
        BY <4>1
      <4>3. \A j \in 1..Len(log) : j \in 1..i /\ log'[j] = log[j]
        BY <3>2, <1>1
      <4>. QED
        BY <4>2, <4>3 DEF Settled, Committed
    <3>. QED
      BY <3>1, <3>2, <1>3
  <2>. QED
    BY <2>1 DEF FirstCommitsInOrder
<1>8. CacheInStep'
  <2>1. /\ \A m \in 1..Written : cache[m] > 0 => cache[m] <= Len(log) /\ log[cache[m]].msg = m
        /\ \A i \in 1..watched : cache[log[i].msg] >= i
    BY DEF StoreInv, CacheInStep, CacheIsCommitted, ResumeTokenIsCached
  <2>2. ASSUME NEW m \in 1..Written', cache'[m] > 0
        PROVE  cache'[m] <= Len(log') /\ log'[cache'[m]].msg = m
    <3>1. m \in 1..Written /\ cache'[m] = cache[m] /\ cache[m] \in Nat
      BY <2>2, StateFacts
    <3>2. cache[m] \in 1..Len(log) /\ log[cache[m]].msg = m
      BY <3>1, <2>1, <2>2, <1>1
    <3>. QED
      BY <3>1, <3>2, <1>1
  <2>3. \A i \in 1..watched : i \in 1..Len(log)
    BY <1>1, <1>2
  <2>4. \A i \in 1..watched : cache'[log'[i].msg] >= i
    BY <2>1, <2>3, <1>1, <1>4
  <2>. QED
    BY <2>2, <2>4 DEF CacheInStep, CacheIsCommitted, ResumeTokenIsCached
<1>9. ASSUME NEW i \in 1..Len(replies), replies[i].version > 0
      PROVE  replies[i].version <= Len(log') /\ log'[replies[i].version].msg = replies[i].msg
  <2>1. replies[i].version \in Nat
    BY <1>9, StateFacts DEF Reply
  <2>2. replies[i].version \in 1..Len(log) /\ log[replies[i].version].msg = replies[i].msg
    BY <2>1, <1>9, <1>1 DEF StoreInv, AnswersAreCommits
  <2>. QED
    BY <2>2, <1>1
<1>. QED
  BY <1>6, <1>7, <1>8, <1>9

\* The server commits the head of the wire in its author's name, and nothing
\* its author wrote before is left out: WireInOrder, for the first write.
LEMMA ServerCommitKeepsInv == StoreInv /\ ServerCommits => StoreInv'
<1> SUFFICES ASSUME StoreInv, ServerCommits PROVE StoreInv'
  OBVIOUS
<1> DEFINE h == Head(wire)
           c == [msg |-> h, user |-> engineUser]
           answer == [msg |-> h, version |-> Len(log')]
<1>1. /\ wire # <<>> /\ ~Refused
      /\ log' = Append(log, c)
      /\ replies' = Append(replies, answer)
      /\ wire' = Tail(wire)
      /\ UNCHANGED <<clientVars, owner, stream, late, restarts>>
  BY DEF ServerCommits
<1>2. /\ pipeline \in Seq(Nat) /\ wire \in Seq(Nat) /\ replies \in Seq(Reply)
      /\ engineUser \in Users /\ stream = "open" /\ OwnedBy(wire, engineUser)
  BY <1>1, PipelineFacts
<1>3. /\ Len(wire) \in Nat \ {0} /\ h = wire[1]
      /\ Tail(wire) \in Seq(Nat) /\ Len(Tail(wire)) = Len(wire) - 1
      /\ \A i \in 1..Len(Tail(wire)) : Tail(wire)[i] = wire[i + 1]
  BY <1>1, <1>2, TailFacts
<1>4. h \in 1..Written /\ owner[h] = engineUser /\ h \in Nat
  <2>1. 1 \in 1..Len(wire)
    BY <1>3
  <2>. QED
    BY <2>1, <1>2, <1>3, StateFacts DEF OwnedBy
<1>5. c \in Commit
  BY <1>2, <1>4 DEF Commit
<1>6. /\ log' \in Seq(Commit) /\ Len(log) \in Nat /\ Len(log') = Len(log) + 1
      /\ log'[Len(log) + 1] = c /\ \A m : Committed(m) => Committed(m)'
  BY <1>1, <1>5, NewCommitFacts
<1>7. answer \in Reply
  BY <1>4, <1>6 DEF Reply
<1>. HIDE DEF h
<1>8. /\ replies' \in Seq(Reply) /\ Len(replies) \in Nat /\ Len(replies') = Len(replies) + 1
      /\ \A i \in 1..Len(replies) : replies'[i] = replies[i]
      /\ replies'[Len(replies) + 1] = answer
  BY <1>1, <1>2, <1>7, AppendProperties, LenProperties
<1>9. /\ Written \in Nat /\ Written' = Written
      /\ UNCHANGED <<owner, cache, queue, rejected, pipeline, watched, engineUser, late>>
  BY <1>1, StateFacts DEF Written, clientVars
<1>10. /\ LogIsKnown' /\ CommittedUnderOwner' /\ FirstCommitsInOrder' /\ CacheInStep'
       /\ \A i \in 1..Len(replies) : replies[i].version > 0 =>
             replies[i].version <= Len(log') /\ log'[replies[i].version].msg = replies[i].msg
  <2>1. ASSUME NEW m \in 1..Written, m < h, owner[m] = engineUser PROVE Settled(m)
    <3>1. 1 \in 1..Len(wire) /\ m < wire[1]
      BY <2>1, <1>3
    <3>2. Settled(m) \/ \E j \in 1..(1 - 1) : wire[j] = m
      BY <2>1, <3>1, <1>1, WireInOrder
    <3>. QED
      BY <3>2
  <2>2. /\ c.msg \in 1..Written' /\ c.user = owner'[c.msg]
        /\ \A m \in 1..Written : (m < c.msg /\ owner[m] = c.user /\ owner[m] # Elsewhere) => Settled(m)
    BY <2>1, <1>4, <1>9
  <2>3. /\ rejected' = rejected /\ watched' = watched
        /\ Written' \in Nat /\ Written <= Written'
        /\ \A m \in 1..Written : owner'[m] = owner[m] /\ cache'[m] = cache[m]
        /\ \A m \in 1..Written' : m \in 1..Written \/ cache'[m] = 0
        /\ \A m \in 1..Written' : m < c.msg => m \in 1..Written
    BY <1>9
  <2>. HIDE DEF c
  <2>. QED
    BY <1>1, <1>5, <2>2, <2>3, CommitKeepsLog
<1>11. TypeOK'
  <2>1. watched' \in 0..Len(log')
    BY <1>6, <1>9 DEF StoreInv, TypeOK
  <2>. QED
    BY <1>1, <1>3, <1>6, <1>8, <1>9, <2>1 DEF StoreInv, TypeOK
<1>12. QueuesInOrder' /\ PipelineIsQueuePrefix' /\ NoMessageLost'
  BY <1>9 DEF StoreInv, QueuesInOrder, OwnedBy, Increasing, PipelineIsQueuePrefix, NoMessageLost
<1>13. RepliesMatchPipeline' /\ WireIsPipelineEnd'
  <2>1. /\ Len(replies) + Len(wire) = Len(pipeline) /\ Len(pipeline) \in Nat
        /\ \A i \in 1..Len(replies) : replies[i].msg = pipeline[i]
        /\ \A i \in 1..Len(wire) : wire[i] = pipeline[Len(replies) + i]
    BY <1>1, <1>2, StateFacts DEF StoreInv, RepliesMatchPipeline
  <2>2. ASSUME NEW i \in 1..Len(replies') PROVE replies'[i].msg = pipeline'[i]
    <3>1. CASE i \in 1..Len(replies)
      BY <3>1, <2>1, <1>8, <1>9
    <3>2. CASE i = Len(replies) + 1
      <4>1. 1 \in 1..Len(wire)
        BY <1>3
      <4>. QED
        BY <4>1, <3>2, <2>1, <1>3, <1>8, <1>9
    <3>. QED
      BY <3>1, <3>2, <1>8
  <2>3. ASSUME NEW i \in 1..Len(wire') PROVE wire'[i] = pipeline'[Len(replies') + i]
    <3>1. i + 1 \in 1..Len(wire) /\ Len(replies') + i = Len(replies) + (i + 1)
      <4> DEFINE lr == Len(replies)
      <4>1. lr \in Nat /\ Len(replies') = lr + 1 /\ i \in Nat /\ i + 1 \in 1..Len(wire)
        BY <1>1, <1>3, <1>8
      <4>. HIDE DEF lr
      <4>2. Len(replies') + i = lr + (i + 1)
        BY <4>1
      <4>. QED
        BY <4>1, <4>2 DEF lr
    <3>. QED
      BY <3>1, <2>1, <1>1, <1>3, <1>9
  <2>4. Len(replies') + Len(wire') = Len(pipeline') /\ Len(wire') \in Nat /\ Len(replies') \in Nat
    <3> DEFINE lw == Len(wire)
               lr == Len(replies)
               lp == Len(pipeline)
    <3>1. lw \in Nat /\ lr \in Nat /\ lr + lw = lp
      BY <1>3, <1>8, <2>1
    <3>2. Len(wire') = lw - 1 /\ Len(replies') = lr + 1 /\ Len(pipeline') = lp /\ Len(wire') \in Nat
      BY <1>1, <1>3, <1>8, <1>9
    <3>. HIDE DEF lw, lr, lp
    <3>. QED
      BY <3>1, <3>2
  <2>5. stream' = "open" /\ Len(pipeline') - Len(wire') = Len(replies') /\ Len(replies') <= Len(pipeline')
        /\ Len(wire') + Len(replies') <= Len(pipeline')
    <3> DEFINE lw == Len(wire')
               lr == Len(replies')
               lp == Len(pipeline')
    <3>1. lw \in Nat /\ lr \in Nat /\ lr + lw = lp
      BY <2>4
    <3>. HIDE DEF lw, lr, lp
    <3>2. lp - lw = lr /\ lr <= lp /\ lw + lr <= lp
      BY <3>1
    <3>. QED
      BY <3>2, <1>1, <1>2 DEF lw, lr, lp
  <2>. QED
    BY <2>2, <2>3, <2>4, <2>5 DEF RepliesMatchPipeline, WireIsPipelineEnd
<1>14. AnswersAreCommits'
  <2>1. ASSUME NEW i \in 1..Len(replies'), replies'[i].version > 0
        PROVE  replies'[i].version <= Len(log') /\ log'[replies'[i].version].msg = replies'[i].msg
    <3>1. CASE i \in 1..Len(replies)
      BY <3>1, <2>1, <1>8, <1>10
    <3>2. CASE i = Len(replies) + 1
      BY <3>2, <1>6, <1>8
    <3>. QED
      BY <3>1, <3>2, <1>8
  <2>. QED
    BY <2>1 DEF AnswersAreCommits
<1>15. OrphansAreKnown' /\ OrphansInOrder'
  <2>1. OrphansAreKnown'
    BY <1>9 DEF StoreInv, OrphansAreKnown, OwnedBy
  <2>2. \A m : Settled(m) => Settled(m)'
    BY <1>6, <1>9 DEF Settled
  <2>3. OrphansInOrder
    BY DEF StoreInv
  <2>. QED
    BY <2>1, <2>2, <2>3, <1>9 DEF OrphansInOrder
<1>. QED
  BY <1>10, <1>11, <1>12, <1>13, <1>14, <1>15 DEF StoreInv

\* The server refuses the head of the wire and executes nothing after it.
LEMMA ServerRefusalKeepsInv == StoreInv /\ ServerRefuses => StoreInv'
<1> SUFFICES ASSUME StoreInv, ServerRefuses PROVE StoreInv'
  OBVIOUS
<1> DEFINE h == Head(wire)
           answer == [msg |-> h, version |-> 0]
<1>1. /\ wire # <<>> /\ ~Refused
      /\ replies' = Append(replies, answer)
      /\ wire' = <<>>
      /\ UNCHANGED <<clientVars, owner, stream, late, log, restarts>>
  BY DEF ServerRefuses
<1>2. /\ pipeline \in Seq(Nat) /\ wire \in Seq(Nat) /\ replies \in Seq(Reply) /\ stream = "open"
  BY <1>1, PipelineFacts
<1>3. Len(wire) \in Nat \ {0} /\ h = wire[1] /\ h \in Nat
  BY <1>1, <1>2, TailFacts
<1>. HIDE DEF h
<1>4. answer \in Reply
  BY <1>3 DEF Reply
<1>5. /\ replies' \in Seq(Reply) /\ Len(replies) \in Nat /\ Len(replies') = Len(replies) + 1
      /\ \A i \in 1..Len(replies) : replies'[i] = replies[i]
      /\ replies'[Len(replies) + 1] = answer
  BY <1>1, <1>2, <1>4, AppendProperties, LenProperties
<1>6. UNCHANGED <<engineUser, queue, cache, rejected, pipeline, watched>> /\ Written' = Written
  BY <1>1 DEF clientVars, Written
<1>12. TypeOK'
  <2>1. wire' \in Seq(Nat)
    BY <1>1
  <2>. QED
    BY <1>1, <1>5, <1>6, <2>1 DEF StoreInv, TypeOK
<1>7. QueuesInOrder' /\ PipelineIsQueuePrefix'
  BY <1>1, <1>6 DEF StoreInv, QueuesInOrder, OwnedBy, Increasing, PipelineIsQueuePrefix
<1>8. CacheInStep' /\ NoMessageLost'
  BY <1>1, <1>6 DEF StoreInv, CacheInStep, CacheIsCommitted, ResumeTokenIsCached, NoMessageLost
<1>9. RepliesMatchPipeline' /\ WireIsPipelineEnd'
  <2>1. /\ Len(replies) + Len(wire) = Len(pipeline) /\ Len(pipeline) \in Nat
        /\ \A i \in 1..Len(replies) : replies[i].msg = pipeline[i]
        /\ \A i \in 1..Len(wire) : wire[i] = pipeline[Len(replies) + i]
    BY <1>1, <1>2, StateFacts DEF StoreInv, RepliesMatchPipeline
  <2>2. ASSUME NEW i \in 1..Len(replies') PROVE replies'[i].msg = pipeline'[i]
    <3>1. CASE i \in 1..Len(replies)
      BY <3>1, <2>1, <1>5, <1>6
    <3>2. CASE i = Len(replies) + 1
      <4>1. 1 \in 1..Len(wire)
        BY <1>3
      <4>. QED
        BY <4>1, <3>2, <2>1, <1>3, <1>5, <1>6
    <3>. QED
      BY <3>1, <3>2, <1>5
  <2>3. Len(replies') <= Len(pipeline') /\ Len(wire') = 0 /\ Len(replies') \in Nat
    <3> DEFINE lw == Len(wire)
               lr == Len(replies)
               lp == Len(pipeline)
    <3>1. lw \in Nat \ {0} /\ lr \in Nat /\ lr + lw = lp
      BY <1>3, <1>5, <2>1
    <3>2. Len(replies') = lr + 1 /\ Len(pipeline') = lp /\ Len(wire') = 0
      BY <1>1, <1>5, <1>6, EmptySeq
    <3>. HIDE DEF lw, lr, lp
    <3>. QED
      BY <3>1, <3>2
  <2>4. Refused' /\ stream' = "open"
    <3>1. Len(replies) + 1 \in 1..Len(replies') /\ replies'[Len(replies) + 1].version = 0
      BY <1>5
    <3>. QED
      BY <3>1, <1>1, <1>2 DEF Refused
  <2>. QED
    BY <2>2, <2>3, <2>4 DEF RepliesMatchPipeline, WireIsPipelineEnd
<1>10. AnswersAreCommits'
  <2>1. ASSUME NEW i \in 1..Len(replies'), replies'[i].version > 0
        PROVE  replies'[i].version <= Len(log) /\ log[replies'[i].version].msg = replies'[i].msg
    <3>1. CASE i \in 1..Len(replies)
      BY <3>1, <2>1, <1>5 DEF StoreInv, AnswersAreCommits
    <3>2. CASE i = Len(replies) + 1
      BY <3>2, <2>1, <1>5
    <3>. QED
      BY <3>1, <3>2, <1>5
  <2>. QED
    BY <2>1, <1>1 DEF AnswersAreCommits
<1>11. LogIsKnown' /\ CommittedUnderOwner' /\ FirstCommitsInOrder' /\ OrphansAreKnown' /\ OrphansInOrder'
  BY <1>1, <1>6, LogUntouched
<1>. QED
  BY <1>7, <1>8, <1>9, <1>10, <1>11, <1>12 DEF StoreInv

\* A write of an ended stream is executed after those the stream carried ahead
\* of it, in the name of the user it was opened for.
LEMMA LateCommitKeepsInv ==
    ASSUME StoreInv, NEW o \in late, LateCommit(o)
    PROVE  StoreInv'
<1> DEFINE h == Head(o.msgs)
           c == [msg |-> h, user |-> o.user]
           rest == [o EXCEPT !.msgs = Tail(@)]
<1>1. /\ log' = Append(log, c)
      /\ late' = (late \ {o}) \cup (IF Len(o.msgs) = 1 THEN {} ELSE {rest})
      /\ UNCHANGED <<clientVars, owner, stream, wire, replies, restarts>>
  BY DEF LateCommit
<1>2. /\ late \subseteq Orphan /\ o \in Orphan /\ o.msgs # <<>>
      /\ o.msgs \in Seq(Nat) /\ o.user \in Users
      /\ \A i \in 1..Len(o.msgs) : o.msgs[i] \in 1..Written /\ owner[o.msgs[i]] = o.user
  BY DEF StoreInv, TypeOK, OrphansAreKnown, OwnedBy, Orphan
<1>3. /\ Len(o.msgs) \in Nat \ {0} /\ h = o.msgs[1]
      /\ Tail(o.msgs) \in Seq(Nat) /\ Len(Tail(o.msgs)) = Len(o.msgs) - 1
      /\ \A i \in 1..Len(Tail(o.msgs)) : Tail(o.msgs)[i] = o.msgs[i + 1]
  BY <1>2, TailFacts
<1>4. h \in 1..Written /\ owner[h] = o.user /\ h \in Nat
  <2>1. 1 \in 1..Len(o.msgs)
    BY <1>3
  <2>. QED
    BY <2>1, <1>2, <1>3, StateFacts
<1>5. rest \in Orphan /\ rest.msgs = Tail(o.msgs) /\ rest.user = o.user
  BY <1>2, <1>3 DEF Orphan
<1>. HIDE DEF h, rest
<1>6. c \in Commit
  BY <1>2, <1>4 DEF Commit
<1>7. /\ log' \in Seq(Commit) /\ Len(log) \in Nat /\ Len(log') = Len(log) + 1
      /\ \A m : Committed(m) => Committed(m)'
      /\ Committed(h)'
  BY <1>1, <1>6, NewCommitFacts
<1>8. /\ Written \in Nat /\ Written' = Written
      /\ UNCHANGED <<owner, cache, queue, rejected, pipeline, watched, engineUser, replies>>
  BY <1>1, StateFacts DEF Written, clientVars
<1>9. /\ LogIsKnown' /\ CommittedUnderOwner' /\ FirstCommitsInOrder' /\ CacheInStep'
      /\ \A i \in 1..Len(replies) : replies[i].version > 0 =>
            replies[i].version <= Len(log') /\ log'[replies[i].version].msg = replies[i].msg
  <2>1. ASSUME NEW m \in 1..Written, m < h, owner[m] = o.user PROVE Settled(m)
    <3>1. 1 \in 1..Len(o.msgs) /\ m < o.msgs[1]
      BY <2>1, <1>3
    <3>2. Settled(m) \/ \E j \in 1..(1 - 1) : o.msgs[j] = m
      BY <2>1, <3>1 DEF StoreInv, OrphansInOrder
    <3>. QED
      BY <3>2
  <2>2. /\ c.msg \in 1..Written' /\ c.user = owner'[c.msg]
        /\ \A m \in 1..Written : (m < c.msg /\ owner[m] = c.user /\ owner[m] # Elsewhere) => Settled(m)
    BY <2>1, <1>4, <1>8
  <2>3. /\ rejected' = rejected /\ watched' = watched
        /\ Written' \in Nat /\ Written <= Written'
        /\ \A m \in 1..Written : owner'[m] = owner[m] /\ cache'[m] = cache[m]
        /\ \A m \in 1..Written' : m \in 1..Written \/ cache'[m] = 0
        /\ \A m \in 1..Written' : m < c.msg => m \in 1..Written
    BY <1>8
  <2>. HIDE DEF c
  <2>. QED
    BY <1>1, <1>6, <2>2, <2>3, CommitKeepsLog
<1>10. ASSUME NEW p \in late' PROVE p \in late \/ (Len(o.msgs) # 1 /\ p = rest)
  BY <1>1, <1>10
<1>11. TypeOK'
  <2>1. watched' \in 0..Len(log')
    BY <1>7, <1>8 DEF StoreInv, TypeOK
  <2>2. late' \subseteq Orphan
    BY <1>2, <1>5, <1>10
  <2>. QED
    BY <1>1, <1>7, <1>8, <2>1, <2>2 DEF StoreInv, TypeOK
<1>12. QueuesInOrder' /\ PipelineIsQueuePrefix' /\ NoMessageLost'
  BY <1>8 DEF StoreInv, QueuesInOrder, OwnedBy, Increasing, PipelineIsQueuePrefix, NoMessageLost
<1>13. RepliesMatchPipeline' /\ WireIsPipelineEnd' /\ AnswersAreCommits'
  BY <1>1, <1>8, <1>9 DEF StoreInv, RepliesMatchPipeline, Refused, WireIsPipelineEnd, AnswersAreCommits
<1>14. OrphansAreKnown'
  <2>1. ASSUME NEW p \in late'
        PROVE  p.msgs # <<>> /\ \A i \in 1..Len(p.msgs) : p.msgs[i] \in 1..Written /\ owner[p.msgs[i]] = p.user
    <3>1. CASE p \in late
      BY <3>1 DEF StoreInv, OrphansAreKnown, OwnedBy
    <3>2. CASE Len(o.msgs) # 1 /\ p = rest
      <4>1. p.msgs = Tail(o.msgs) /\ p.user = o.user
        BY <3>2, <1>5
      <4>2. ASSUME NEW i \in 1..Len(p.msgs) PROVE p.msgs[i] \in 1..Written /\ owner[p.msgs[i]] = p.user
        <5>1. i + 1 \in 1..Len(o.msgs) /\ p.msgs[i] = o.msgs[i + 1]
          BY <4>1, <1>3
        <5>. QED
          BY <5>1, <4>1, <1>2
      <4>3. p.msgs # <<>>
        <5>1. Len(p.msgs) = Len(o.msgs) - 1 /\ Len(o.msgs) \in Nat \ {0}
          BY <4>1, <1>3
        <5>2. Len(p.msgs) # 0
          BY <5>1, <3>2
        <5>3. Len(<<>>) = 0
          BY EmptySeq
        <5>. QED
          BY <5>2, <5>3
      <4>. QED
        BY <4>2, <4>3
    <3>. QED
      BY <3>1, <3>2, <1>10
  <2>. QED
    BY <2>1, <1>8 DEF OrphansAreKnown, OwnedBy
<1>15. OrphansInOrder'
  <2>1. \A m : Settled(m) => Settled(m)'
    BY <1>7, <1>8 DEF Settled
  <2>2. Settled(h)'
    BY <1>7 DEF Settled
  <2>3. OrphansInOrder
    BY DEF StoreInv
  <2>4. ASSUME NEW p \in late', NEW k \in 1..Len(p.msgs), NEW m \in 1..Written,
               m < p.msgs[k], owner[m] = p.user
        PROVE  Settled(m)' \/ \E j \in 1..(k - 1) : p.msgs[j] = m
    <3>1. CASE p \in late
      BY <3>1, <2>1, <2>3, <2>4 DEF OrphansInOrder
    <3>2. CASE Len(o.msgs) # 1 /\ p = rest
      <4>1. p.msgs = Tail(o.msgs) /\ p.user = o.user
        BY <3>2, <1>5
      <4>2. k + 1 \in 1..Len(o.msgs) /\ p.msgs[k] = o.msgs[k + 1] /\ k \in 1..Len(Tail(o.msgs))
        BY <4>1, <1>3
      <4>3. Settled(m) \/ \E j \in 1..((k + 1) - 1) : o.msgs[j] = m
        BY <4>1, <4>2, <2>3, <2>4 DEF OrphansInOrder
      <4>4. CASE Settled(m)
        BY <4>4, <2>1
      <4>5. CASE \E j \in 1..((k + 1) - 1) : o.msgs[j] = m
        <5>1. PICK j \in 1..((k + 1) - 1) : o.msgs[j] = m
          BY <4>5
        <5>2. CASE j = 1
          BY <5>1, <5>2, <1>3, <2>2
        <5>3. CASE j # 1
          <6>1. j - 1 \in 1..(k - 1) /\ j - 1 \in 1..Len(Tail(o.msgs)) /\ (j - 1) + 1 = j
            BY <5>1, <5>3, <4>2, <1>3
          <6>2. p.msgs[j - 1] = m
            BY <6>1, <5>1, <4>1, <1>3
          <6>. QED
            BY <6>1, <6>2
        <5>. QED
          BY <5>2, <5>3
      <4>. QED
        BY <4>3, <4>4, <4>5
    <3>. QED
      BY <3>1, <3>2, <1>10
  <2>. QED
    BY <2>4, <1>8 DEF OrphansInOrder
<1>. QED
  BY <1>9, <1>11, <1>12, <1>13, <1>14, <1>15 DEF StoreInv

\* A message written on another device is committed as soon as it exists.
LEMMA ForeignCommitKeepsInv == StoreInv /\ ForeignCommit => StoreInv'
<1> SUFFICES ASSUME StoreInv, ForeignCommit PROVE StoreInv'
  OBVIOUS
<1> DEFINE n == Written + 1
           c == [msg |-> n, user |-> Elsewhere]
<1>1. /\ owner' = Append(owner, Elsewhere) /\ cache' = Append(cache, 0)
      /\ log' = Append(log, c)
      /\ UNCHANGED <<engineUser, queue, rejected, pipeline, watched, stream, wire,
                     replies, late, restarts>>
  BY DEF ForeignCommit
<1>2. /\ owner' \in Seq(Users \cup {Elsewhere}) /\ cache' \in Seq(Nat)
      /\ Written \in Nat /\ Written' = n /\ Len(cache') = Written'
      /\ \A m \in 1..Written : owner'[m] = owner[m] /\ cache'[m] = cache[m]
      /\ owner'[n] = Elsewhere /\ cache'[n] = 0
  BY <1>1, NewMessageFacts
<1>3. c \in Commit
  BY <1>2 DEF Commit
<1>4. /\ log' \in Seq(Commit) /\ Len(log) \in Nat /\ Len(log') = Len(log) + 1
      /\ \A m : Committed(m) => Committed(m)'
  BY <1>1, <1>3, NewCommitFacts
<1>5. \A m \in 1..Written' : m \in 1..Written \/ m = n
  BY <1>2
<1>. HIDE DEF n
<1>6. \A m \in 1..Written : m \in 1..Written' /\ owner'[m] = owner[m] /\ cache'[m] = cache[m]
  BY <1>2 DEF n
<1>7. /\ LogIsKnown' /\ CommittedUnderOwner' /\ FirstCommitsInOrder' /\ CacheInStep'
      /\ \A i \in 1..Len(replies) : replies[i].version > 0 =>
            replies[i].version <= Len(log') /\ log'[replies[i].version].msg = replies[i].msg
  <2>1. /\ c.msg \in 1..Written' /\ c.user = owner'[c.msg]
        /\ \A m \in 1..Written : (m < c.msg /\ owner[m] = c.user /\ owner[m] # Elsewhere) => Settled(m)
    BY <1>2 DEF n
  <2>2. /\ rejected' = rejected /\ watched' = watched
        /\ Written' \in Nat /\ Written <= Written'
        /\ \A m \in 1..Written : owner'[m] = owner[m] /\ cache'[m] = cache[m]
        /\ \A m \in 1..Written' : m \in 1..Written \/ cache'[m] = 0
    <3>1. \A m \in 1..Written' : m \in 1..Written \/ cache'[m] = 0
      BY <1>2, <1>5
    <3>2. Written' \in Nat /\ Written <= Written'
      BY <1>2 DEF n
    <3>. QED
      BY <3>1, <3>2, <1>1, <1>6
  <2>3. \A m \in 1..Written' : m < c.msg => m \in 1..Written
    BY <1>2 DEF n
  <2>. HIDE DEF c
  <2>. QED
    BY <1>1, <1>3, <2>1, <2>2, <2>3, CommitKeepsLog
<1>8. TypeOK'
  <2>1. watched' \in 0..Len(log') /\ rejected' \subseteq 1..Written'
    <3>1. watched \in 0..Len(log) /\ rejected \subseteq 1..Written
      BY DEF StoreInv, TypeOK
    <3>2. watched' \in 0..Len(log')
      BY <3>1, <1>1, <1>4
    <3>. QED
      BY <3>1, <3>2, <1>1, <1>6
  <2>. QED
    BY <1>1, <1>2, <1>4, <2>1 DEF StoreInv, TypeOK
<1>9. QueuesInOrder'
  <2>1. ASSUME NEW u \in Accounts
        PROVE  Increasing(queue[u]) /\ \A i \in 1..Len(queue[u]) : queue[u][i] \in 1..Written' /\ owner'[queue[u][i]] = u
    BY <1>6, QueueFacts DEF OwnedBy
  <2>. QED
    BY <2>1, <1>1 DEF QueuesInOrder, OwnedBy, Increasing
<1>10. PipelineIsQueuePrefix' /\ RepliesMatchPipeline' /\ WireIsPipelineEnd' /\ AnswersAreCommits'
  BY <1>1, <1>7 DEF StoreInv, PipelineIsQueuePrefix, RepliesMatchPipeline, Refused,
                    WireIsPipelineEnd, AnswersAreCommits
<1>11. NoMessageLost'
  <2>1. ASSUME NEW m \in 1..Written', owner'[m] # Elsewhere
        PROVE  \/ \E i \in 1..Len(queue[owner'[m]]) : queue[owner'[m]][i] = m
               \/ cache'[m] > 0
               \/ m \in rejected
    <3>1. m \in 1..Written
      BY <2>1, <1>2, <1>5
    <3>. QED
      BY <3>1, <2>1, <1>6 DEF StoreInv, NoMessageLost
  <2>. QED
    BY <2>1, <1>1 DEF NoMessageLost
<1>12. OrphansAreKnown'
  <2>1. \A o \in late : o.msgs # <<>> /\ \A i \in 1..Len(o.msgs) : o.msgs[i] \in 1..Written /\ owner[o.msgs[i]] = o.user
    BY DEF StoreInv, OrphansAreKnown, OwnedBy
  <2>. QED
    BY <2>1, <1>1, <1>6 DEF OrphansAreKnown, OwnedBy
<1>13. OrphansInOrder'
  <2>1. ASSUME NEW o \in late', NEW k \in 1..Len(o.msgs), NEW m \in 1..Written',
               m < o.msgs[k], owner'[m] = o.user
        PROVE  Settled(m)' \/ \E j \in 1..(k - 1) : o.msgs[j] = m
    <3>1. o \in late /\ o.msgs[k] \in 1..Written
      BY <1>1 DEF StoreInv, OrphansAreKnown, OwnedBy
    <3>2. m \in 1..Written /\ owner[m] = o.user
      BY <3>1, <2>1, <1>2, <1>5, <1>6 DEF n
    <3>3. Settled(m) \/ \E j \in 1..(k - 1) : o.msgs[j] = m
      BY <3>1, <3>2, <2>1 DEF StoreInv, OrphansInOrder
    <3>. QED
      BY <3>3, <1>1, <1>4 DEF Settled
  <2>. QED
    BY <2>1 DEF OrphansInOrder
<1>. QED
  BY <1>7, <1>8, <1>9, <1>10, <1>11, <1>12, <1>13 DEF StoreInv

-----------------------------------------------------------------------------
(* The invariant                                                           *)

LEMMA NextKeepsInv == StoreInv /\ [Next]_vars => StoreInv'
<1> SUFFICES ASSUME StoreInv, [Next]_vars PROVE StoreInv'
  OBVIOUS
<1>1. CASE WriteMutations
  BY <1>1, WriteKeepsInv
<1>2. CASE OnWriteStreamHandshakeComplete
  BY <1>2, HandshakeKeepsInv
<1>3. CASE OnWriteStreamMutationResult
  BY <1>3, ResultKeepsInv
<1>4. CASE HandleWriteError
  BY <1>4, WriteErrorKeepsInv
<1>5. CASE OnWriteStreamClose
  BY <1>5, CloseKeepsInv
<1>6. CASE \E u \in Accounts : HandleCredentialChange(u)
  BY <1>6, CredentialChangeKeepsInv
<1>7. CASE \E n \in (watched + 1)..Len(log) : ApplyRemoteEvent(n)
  BY <1>7, EventKeepsInv
<1>8. CASE ServerCommits
  BY <1>8, ServerCommitKeepsInv
<1>9. CASE ServerRefuses
  BY <1>9, ServerRefusalKeepsInv
<1>10. CASE \E o \in late : LateCommit(o)
  BY <1>10, LateCommitKeepsInv
<1>11. CASE ForeignCommit
  BY <1>11, ForeignCommitKeepsInv
<1>12. CASE UNCHANGED vars
  <2>1. TypeOK' /\ QueuesInOrder' /\ PipelineIsQueuePrefix' /\ RepliesMatchPipeline'
        /\ WireIsPipelineEnd' /\ AnswersAreCommits'
    BY <1>12 DEF vars, clientVars, StoreInv, TypeOK, Written, QueuesInOrder, OwnedBy, Increasing,
                 PipelineIsQueuePrefix, RepliesMatchPipeline, Refused, WireIsPipelineEnd,
                 AnswersAreCommits
  <2>2. CacheInStep' /\ NoMessageLost'
    BY <1>12 DEF vars, clientVars, StoreInv, Written, CacheInStep, CacheIsCommitted,
                 ResumeTokenIsCached, NoMessageLost
  <2>3. LogIsKnown' /\ CommittedUnderOwner' /\ FirstCommitsInOrder' /\ OrphansAreKnown' /\ OrphansInOrder'
    BY <1>12, LogUntouched DEF vars, clientVars
  <2>. QED
    BY <2>1, <2>2, <2>3 DEF StoreInv
<1>. QED
  BY <1>1, <1>2, <1>3, <1>4, <1>5, <1>6, <1>7, <1>8, <1>9, <1>10, <1>11, <1>12 DEF Next

\* StoreInv holds in every reachable state.
THEOREM Invariance == Spec => []StoreInv
BY InitInv, NextKeepsInv, PTL DEF Spec

\* Queue, pipeline, wire and answers stay in step in every interleaving of
\* writes, answers, broken streams and changes of the account (RemoteStore).
THEOREM PipelineStaysInStep == Spec => []PipelineInStep
<1>1. StoreInv => PipelineInStep
  BY DEF StoreInv, PipelineInStep
<1>. QED
  BY <1>1, Invariance, PTL

\* No write is ever committed under another account's name than its author's,
\* however late a stream of an earlier account is executed.
THEOREM CommitsAreTheOwners == Spec => []CommittedUnderOwner
<1>1. StoreInv => CommittedUnderOwner
  BY DEF StoreInv
<1>. QED
  BY <1>1, Invariance, PTL

\* The cache holds only what was committed, and all of it up to the persisted
\* resume token (AcknowledgeBatch, ApplyRemoteEvent).
THEOREM CacheStaysInStep == Spec => []CacheInStep
<1>1. StoreInv => CacheInStep
  BY DEF StoreInv
<1>. QED
  BY <1>1, Invariance, PTL

\* A message written on this device stays in its author's queue until it is in
\* the cache or refused.
THEOREM NothingIsLost == Spec => []NoMessageLost
<1>1. StoreInv => NoMessageLost
  BY DEF StoreInv
<1>. QED
  BY <1>1, Invariance, PTL

\* Resending after broken streams never lets a message appear on the board
\* before one its author wrote earlier.
THEOREM NothingIsOvertaken == Spec => []FirstCommitsInOrder
<1>1. StoreInv => FirstCommitsInOrder
  BY DEF StoreInv
<1>. QED
  BY <1>1, Invariance, PTL

-----------------------------------------------------------------------------
(* Properties of the steps                                                 *)

\* No step takes a version in the cache back.
LEMMA StepKeepsVersions ==
    ASSUME StoreInv, [Next]_vars
    PROVE  \A m \in 1..Written : cache[m] \in Nat /\ cache'[m] \in Nat /\ cache'[m] >= cache[m]
<1>1. ASSUME cache' = cache \/ cache' = Append(cache, 0)
      PROVE  \A m \in 1..Written : cache[m] \in Nat /\ cache'[m] \in Nat /\ cache'[m] >= cache[m]
  <2>1. cache \in Seq(Nat) /\ Len(cache) = Written /\ \A m \in 1..Written : cache[m] \in Nat
    BY StateFacts DEF StoreInv, TypeOK
  <2>2. \A m \in 1..Written : cache'[m] = cache[m]
    BY <1>1, <2>1, AppendProperties
  <2>. QED
    BY <2>1, <2>2
<1>2. CASE OnWriteStreamMutationResult
  BY <1>2, AckFacts
<1>3. CASE \E n \in (watched + 1)..Len(log) : ApplyRemoteEvent(n)
  BY <1>3, EventFacts
<1>4. CASE WriteMutations \/ ForeignCommit
  BY <1>1, <1>4 DEF WriteMutations, ForeignCommit
<1>5. CASE HandleWriteError
  BY <1>1, <1>5 DEF HandleWriteError, RejectBatch
<1>6. CASE \/ OnWriteStreamHandshakeComplete \/ OnWriteStreamClose
           \/ \E u \in Accounts : HandleCredentialChange(u)
           \/ ServerCommits \/ ServerRefuses
           \/ \E o \in late : LateCommit(o)
           \/ UNCHANGED vars
  BY <1>1, <1>6 DEF OnWriteStreamHandshakeComplete, OnWriteStreamClose, HandleCredentialChange,
                    ServerCommits, ServerRefuses, LateCommit, clientVars, vars
<1>. QED
  BY <1>2, <1>3, <1>4, <1>5, <1>6 DEF Next

\* The cached version of a message never goes back, in whatever order
\* acknowledgments and watch events reach the cache.
THEOREM VersionsNeverGoBack == Spec => CacheNeverGoesBack
<1>1. StoreInv /\ [Next]_vars => [\A m \in 1..Written : cache'[m] >= cache[m]]_vars
  BY StepKeepsVersions
<1>. QED
  BY <1>1, Invariance, PTL DEF Spec, CacheNeverGoesBack

\* A refused message has left the queue.
RefusedLeftQueue ==
    \A u \in Accounts : \A i \in 1..Len(queue[u]) : queue[u][i] \notin rejected

\* Of the queues, a settled message leaves nothing behind.
LEMMA HeadLeaves ==
    ASSUME StoreInv, pipeline # <<>>, queue[engineUser] # <<>>,
           Head(pipeline) = queue[engineUser][1],
           queue' = [queue EXCEPT ![engineUser] = Tail(@)],
           NEW u \in Accounts, NEW i \in 1..Len(queue'[u])
    PROVE  /\ queue'[u][i] # Head(pipeline)
           /\ \E j \in 1..Len(queue[u]) : queue[u][j] = queue'[u][i]
<1> DEFINE q == queue[engineUser]
           h == Head(pipeline)
<1>1. /\ engineUser \in Accounts /\ q \in Seq(Nat) /\ Increasing(q)
      /\ \A j \in 1..Len(q) : q[j] \in 1..Written /\ owner[q[j]] = engineUser
  BY PipelineFacts, QueueFacts DEF OwnedBy
<1>2. /\ Len(q) \in Nat \ {0} /\ Len(Tail(q)) = Len(q) - 1
      /\ \A j \in 1..Len(Tail(q)) : Tail(q)[j] = q[j + 1]
  BY <1>1, TailFacts
<1>3. queue \in [Accounts -> Seq(Nat)]
  BY DEF StoreInv, TypeOK
<1>4. CASE u = engineUser
  <2>1. queue'[u] = Tail(q)
    BY <1>1, <1>3, <1>4
  <2>. HIDE DEF q
  <2>2. i + 1 \in 1..Len(q) /\ 1 \in 1..Len(q) /\ 1 < i + 1 /\ queue'[u][i] = q[i + 1]
    BY <2>1, <1>2
  <2>3. q[1] < q[i + 1] /\ q[1] \in Nat /\ q[i + 1] \in Nat
    BY <2>2, <1>1, StateFacts DEF Increasing
  <2>. QED
    BY <2>2, <2>3, <1>4 DEF q
<1>5. CASE u # engineUser
  <2>1. queue'[u] = queue[u] /\ owner[queue[u][i]] = u
    BY <1>3, <1>5, QueueFacts DEF OwnedBy
  <2>2. owner[h] = engineUser
    BY <1>1, <1>2
  <2>. QED
    BY <2>1, <2>2, <1>5
<1>. QED
  BY <1>4, <1>5

\* RefusedLeftQueue is kept by every step.
LEMMA NextKeepsRefusedLeft ==
    StoreInv /\ RefusedLeftQueue /\ [Next]_vars => RefusedLeftQueue'
<1> SUFFICES ASSUME StoreInv, RefusedLeftQueue, [Next]_vars,
                    NEW u \in Accounts, NEW i \in 1..Len(queue'[u])
             PROVE  queue'[u][i] \notin rejected'
  BY DEF RefusedLeftQueue
<1>1. CASE WriteMutations
  <2>1. /\ engineUser \in Accounts /\ rejected' = rejected
        /\ queue' = [queue EXCEPT ![engineUser] = Append(@, Written + 1)]
    BY <1>1 DEF WriteMutations, Accounts
  <2>2. /\ queue \in [Accounts -> Seq(Nat)] /\ rejected \subseteq 1..Written /\ Written \in Nat
        /\ queue[u] \in Seq(Nat) /\ Len(queue[u]) \in Nat
    BY StateFacts, QueueFacts DEF StoreInv, TypeOK
  <2>3. CASE u = engineUser
    <3>1. queue'[u] = Append(queue[u], Written + 1)
      BY <2>1, <2>2, <2>3
    <3>2. /\ Len(queue'[u]) = Len(queue[u]) + 1
          /\ \A j \in 1..Len(queue[u]) : queue'[u][j] = queue[u][j]
          /\ queue'[u][Len(queue[u]) + 1] = Written + 1
      BY <2>2, <3>1, AppendProperties
    <3>3. i \in 1..Len(queue[u]) \/ i = Len(queue[u]) + 1
      BY <2>2, <3>2
    <3>4. Written + 1 \notin rejected
      BY <2>2
    <3>. QED
      BY <2>1, <3>2, <3>3, <3>4 DEF RefusedLeftQueue
  <2>4. CASE u # engineUser
    BY <2>1, <2>2, <2>4 DEF RefusedLeftQueue
  <2>. QED
    BY <2>3, <2>4
<1>2. CASE OnWriteStreamMutationResult
  <2>1. /\ pipeline # <<>> /\ queue[engineUser] # <<>> /\ Head(pipeline) = queue[engineUser][1]
        /\ queue' = [queue EXCEPT ![engineUser] = Tail(@)] /\ rejected' = rejected
    BY <1>2, SettleHead DEF OnWriteStreamMutationResult, AcknowledgeBatch, StoreInv, TypeOK
  <2>. QED
    BY <2>1, HeadLeaves DEF RefusedLeftQueue
<1>3. CASE HandleWriteError
  <2>1. /\ pipeline # <<>> /\ queue[engineUser] # <<>> /\ Head(pipeline) = queue[engineUser][1]
        /\ queue' = [queue EXCEPT ![engineUser] = Tail(@)]
        /\ rejected' = rejected \cup {Head(pipeline)}
    <3>1. "stopped" \in {"stopped", "starting", "open"}
      OBVIOUS
    <3>. QED
      BY <3>1, <1>3, SettleHead DEF HandleWriteError, RejectBatch
  <2>. QED
    BY <2>1, HeadLeaves DEF RefusedLeftQueue
<1>4. CASE queue' = queue /\ rejected' = rejected
  BY <1>4 DEF RefusedLeftQueue
<1>5. CASE \/ OnWriteStreamHandshakeComplete \/ OnWriteStreamClose
           \/ \E w \in Accounts : HandleCredentialChange(w)
           \/ \E n \in (watched + 1)..Len(log) : ApplyRemoteEvent(n)
           \/ ServerCommits \/ ServerRefuses
           \/ \E o \in late : LateCommit(o)
           \/ ForeignCommit
           \/ UNCHANGED vars
  BY <1>4, <1>5 DEF OnWriteStreamHandshakeComplete, OnWriteStreamClose, HandleCredentialChange,
                    ApplyRemoteEvent, ServerCommits, ServerRefuses, LateCommit, ForeignCommit,
                    clientVars, vars
<1>. QED
  BY <1>1, <1>2, <1>3, <1>5 DEF Next

\* While the user stays, a step takes a message off the screen only by refusing it.
LEMMA StepKeepsScreen ==
    ASSUME StoreInv, RefusedLeftQueue, [Next]_vars, engineUser' = engineUser,
           NEW m \in 1..Written, OnScreen(m)
    PROVE  OnScreen(m)' \/ m \in rejected' \ rejected
<1>1. CASE cache[m] > 0
  BY <1>1, StepKeepsVersions DEF OnScreen
<1>2. CASE \E i \in 1..Len(queue[engineUser]) : queue[engineUser][i] = m
  <2>1. PICK i \in 1..Len(queue[engineUser]) : queue[engineUser][i] = m
    BY <1>2
  <2>2. engineUser \in Accounts /\ m \notin rejected
    BY <2>1, PipelineFacts DEF RefusedLeftQueue
  <2>3. CASE WriteMutations
    <3>1. /\ queue' = [queue EXCEPT ![engineUser] = Append(@, Written + 1)]
          /\ queue \in [Accounts -> Seq(Nat)] /\ Written \in Nat
      BY <2>3, StateFacts DEF WriteMutations, StoreInv, TypeOK
    <3>2. queue'[engineUser] = Append(queue[engineUser], Written + 1)
      BY <2>2, <3>1
    <3>3. i \in 1..Len(queue'[engineUser]) /\ queue'[engineUser][i] = m
      <4>1. /\ queue[engineUser] \in Seq(Nat) /\ Len(queue[engineUser]) \in Nat
            /\ Written + 1 \in Nat
        BY <2>2, <3>1, QueueFacts
      <4>2. /\ Len(queue'[engineUser]) = Len(queue[engineUser]) + 1
            /\ queue'[engineUser][i] = queue[engineUser][i]
        BY <3>2, <4>1, <2>1, AppendProperties
      <4>. QED
        BY <2>1, <4>1, <4>2
    <3>. QED
      BY <3>3 DEF OnScreen
  <2>4. CASE OnWriteStreamMutationResult
    <3>3. \A u \in Accounts : \A j \in 1..Len(queue[u]) : queue[u][j] # Head(pipeline) =>
            \E k \in 1..Len(queue'[u]) : queue'[u][k] = queue[u][j]
      BY <2>4, SettleHead DEF OnWriteStreamMutationResult, AcknowledgeBatch, StoreInv, TypeOK
    <3>1. m # Head(pipeline) => \E j \in 1..Len(queue'[engineUser]) : queue'[engineUser][j] = m
      BY <2>1, <2>2, <3>3
    <3>2. m = Head(pipeline) => cache'[m] > 0
      BY <2>4, AckFacts
    <3>. QED
      BY <3>1, <3>2 DEF OnScreen
  <2>5. CASE HandleWriteError
    <3>1. "stopped" \in {"stopped", "starting", "open"}
      OBVIOUS
    <3>4. \A u \in Accounts : \A j \in 1..Len(queue[u]) : queue[u][j] # Head(pipeline) =>
            \E k \in 1..Len(queue'[u]) : queue'[u][k] = queue[u][j]
      BY <2>5, <3>1, SettleHead DEF HandleWriteError, RejectBatch
    <3>2. m # Head(pipeline) => \E j \in 1..Len(queue'[engineUser]) : queue'[engineUser][j] = m
      BY <2>1, <2>2, <3>4
    <3>3. m = Head(pipeline) => m \in rejected'
      BY <2>5 DEF HandleWriteError, RejectBatch
    <3>. QED
      BY <2>2, <3>2, <3>3 DEF OnScreen
  <2>6. CASE queue' = queue
    BY <1>2, <2>6 DEF OnScreen
  <2>7. CASE \/ OnWriteStreamHandshakeComplete \/ OnWriteStreamClose
             \/ \E w \in Accounts : HandleCredentialChange(w)
             \/ \E n \in (watched + 1)..Len(log) : ApplyRemoteEvent(n)
             \/ ServerCommits \/ ServerRefuses
             \/ \E o \in late : LateCommit(o)
             \/ ForeignCommit
             \/ UNCHANGED vars
    BY <2>6, <2>7 DEF OnWriteStreamHandshakeComplete, OnWriteStreamClose, HandleCredentialChange,
                      ApplyRemoteEvent, ServerCommits, ServerRefuses, LateCommit, ForeignCommit,
                      clientVars, vars
  <2>. QED
    BY <2>3, <2>4, <2>5, <2>7 DEF Next
<1>. QED
  BY <1>1, <1>2 DEF OnScreen

\* A message disappears from the chat only when it was refused or the user
\* changes: an acknowledgment moves it from the queue to the cache in one step.
THEOREM VanishesOnlyWhenRefused == Spec => VanishesOnlyIfRefused
<1>1. Init => RefusedLeftQueue
  BY DEF Init, RefusedLeftQueue
<1>2. StoreInv /\ RefusedLeftQueue /\ [Next]_vars
        => [engineUser' = engineUser =>
              \A m \in 1..Written : OnScreen(m) => OnScreen(m)' \/ m \in rejected' \ rejected]_vars
  BY StepKeepsScreen
<1>. QED
  BY <1>1, <1>2, NextKeepsRefusedLeft, Invariance, PTL DEF Spec, VanishesOnlyIfRefused

-----------------------------------------------------------------------------
(* The board                                                               *)

\* The messages of the log, and those the cache holds: the board and what the
\* device has seen of it.
OnBoard == {log[i].msg : i \in 1..Len(log)}
Cached  == {m \in 1..Written : cache[m] > 0}

\* A commit puts its message on the board, and nothing else.
LEMMA CommitPosts ==
    ASSUME StoreInv, NEW c \in Commit, log' = Append(log, c)
    PROVE  OnBoard' = OnBoard \cup {c.msg}
<1>1. /\ Len(log) \in Nat /\ Len(log') = Len(log) + 1
      /\ \A i \in 1..Len(log) : log'[i] = log[i]
      /\ log'[Len(log) + 1] = c
  BY NewCommitFacts
<1>2. ASSUME NEW m \in OnBoard' PROVE m \in OnBoard \cup {c.msg}
  <2>1. PICK i \in 1..Len(log') : log'[i].msg = m
    BY <1>2 DEF OnBoard
  <2>2. CASE i \in 1..Len(log)
    BY <2>1, <2>2, <1>1 DEF OnBoard
  <2>3. CASE i = Len(log) + 1
    BY <2>1, <2>3, <1>1
  <2>. QED
    BY <2>2, <2>3, <1>1
<1>3. ASSUME NEW m \in OnBoard PROVE m \in OnBoard'
  <2>1. PICK i \in 1..Len(log) : log[i].msg = m
    BY <1>3 DEF OnBoard
  <2>2. i \in 1..Len(log') /\ log'[i].msg = m
    BY <2>1, <1>1
  <2>. QED
    BY <2>2 DEF OnBoard
<1>4. c.msg \in OnBoard'
  <2>1. Len(log) + 1 \in 1..Len(log')
    BY <1>1
  <2>. QED
    BY <2>1, <1>1 DEF OnBoard
<1>. QED
  BY <1>2, <1>3, <1>4

\* A new message is not in the cache.
LEMMA NewIsUnseen ==
    ASSUME StoreInv, NEW a \in Users \cup {Elsewhere},
           owner' = Append(owner, a), cache' = Append(cache, 0)
    PROVE  Cached' = Cached /\ Written' = Written + 1
<1>1. /\ Written \in Nat /\ Written' = Written + 1
      /\ \A m \in 1..Written : cache'[m] = cache[m]
      /\ cache'[Written + 1] = 0
  BY NewMessageFacts
<1>2. \A m \in 1..Written' : m \in 1..Written \/ m = Written + 1
  BY <1>1
<1>3. \A m \in 1..Written : m \in 1..Written'
  BY <1>1
<1>4. ASSUME NEW m \in Cached' PROVE m \in Cached
  <2>1. m \in 1..Written' /\ cache'[m] > 0
    BY <1>4 DEF Cached
  <2>2. m # Written + 1
    <3>1. SUFFICES ASSUME m = Written + 1 PROVE FALSE
      OBVIOUS
    <3>2. cache'[m] = 0
      BY <3>1, <1>1
    <3>3. 0 > 0
      BY <3>2, <2>1, Zenon
    <3>. QED
      BY <3>3
  <2>. QED
    BY <2>1, <2>2, <1>1, <1>2 DEF Cached
<1>5. ASSUME NEW m \in Cached PROVE m \in Cached'
  BY <1>5, <1>1, <1>3 DEF Cached
<1>. QED
  BY <1>1, <1>4, <1>5

\* What the cache holds is on the board.
LEMMA CachedIsOnBoard ==
    ASSUME StoreInv
    PROVE  Cached \subseteq OnBoard
<1>1. ASSUME NEW m \in 1..Written, cache[m] > 0 PROVE m \in OnBoard
  <2>1. cache[m] \in 1..Len(log) /\ log[cache[m]].msg = m
    BY <1>1, StateFacts DEF StoreInv, CacheInStep, CacheIsCommitted
  <2>. QED
    BY <2>1 DEF OnBoard
<1>. QED
  BY <1>1 DEF Cached

\* The same of the state after a step.
LEMMA CachedIsOnBoardNext == StoreInv' => (Cached \subseteq OnBoard)'
<1>1. StoreInv => Cached \subseteq OnBoard
  BY CachedIsOnBoard
<1>. QED
  BY <1>1, PTL

\* Init of the store is Init of the board.
LEMMA InitIsBoardInit == Init => Board!BoardInit
<1> SUFFICES ASSUME Init PROVE Board!BoardInit
  OBVIOUS
<1>1. Written = 0 /\ Len(log) = 0
  BY EmptySeq DEF Init, Written
<1>2. {log[i].msg : i \in 1..Len(log)} = {} /\ {m \in 1..Written : cache[m] > 0} = {}
  BY <1>1
<1>. QED
  BY <1>1, <1>2 DEF Init, Board!BoardInit, Board!Accounts, Accounts

\* Every step of the store is one of the board, or changes nothing of it.
LEMMA NextIsBoardNext ==
    ASSUME StoreInv, [Next]_vars
    PROVE  [Board!BoardNext]_(Board!boardVars)
<1>1. ASSUME UNCHANGED <<engineUser, owner, queue, log, cache>>
      PROVE  UNCHANGED Board!boardVars
  BY <1>1 DEF Board!boardVars, Written
<1>2. CASE WriteMutations
  <2>1. /\ engineUser \in Users /\ Written < MaxMsgs
        /\ owner' = Append(owner, engineUser) /\ cache' = Append(cache, 0)
        /\ queue' = [queue EXCEPT ![engineUser] = Append(@, Written + 1)]
        /\ UNCHANGED <<engineUser, log>>
    BY <1>2 DEF WriteMutations
  <2>2. Cached' = Cached /\ Written' = Written + 1
    BY <2>1, NewIsUnseen
  <2>3. Board!Post
    BY <2>1, <2>2, Zenon DEF Board!Post, Cached
  <2>. QED
    BY <2>3 DEF Board!BoardNext
<1>3. CASE OnWriteStreamMutationResult
  <2>1. /\ queue[engineUser] # <<>> /\ Head(pipeline) = queue[engineUser][1]
        /\ queue' = [queue EXCEPT ![engineUser] = Tail(@)]
        /\ UNCHANGED <<engineUser, owner, log>>
    BY <1>3, SettleHead DEF OnWriteStreamMutationResult, AcknowledgeBatch, StoreInv, TypeOK
  <2>2. Head(queue[engineUser]) = Head(pipeline)
    BY <2>1, PipelineFacts, QueueFacts, TailFacts
  <2>3. /\ Head(pipeline) \in 1..Written /\ cache'[Head(pipeline)] > 0
        /\ Head(replies).version \in 1..Len(log)
        /\ log[Head(replies).version].msg = Head(pipeline)
        /\ \A m \in 1..Written : m # Head(pipeline) => cache'[m] = cache[m]
    BY <1>3, AckFacts
  <2>4. Cached' = Cached \cup {Head(pipeline)} /\ Written' = Written
    BY <2>1, <2>3 DEF Cached, Written
  <2>5. Head(pipeline) \in OnBoard
    BY <2>3 DEF OnBoard
  <2>6. Board!Confirm
    BY <2>1, <2>2, <2>4, <2>5 DEF Board!Confirm, Cached, OnBoard
  <2>. QED
    BY <2>6 DEF Board!BoardNext
<1>4. CASE HandleWriteError
  <2>1. "stopped" \in {"stopped", "starting", "open"}
    OBVIOUS
  <2>2. /\ queue[engineUser] # <<>>
        /\ queue' = [queue EXCEPT ![engineUser] = Tail(@)]
        /\ UNCHANGED <<engineUser, owner, log, cache>>
    BY <1>4, <2>1, SettleHead DEF HandleWriteError, RejectBatch
  <2>3. Board!Drop
    BY <2>2 DEF Board!Drop, Written
  <2>. QED
    BY <2>3 DEF Board!BoardNext
<1>5. CASE \E u \in Accounts : HandleCredentialChange(u)
  <2>1. PICK u \in Accounts : HandleCredentialChange(u)
    BY <1>5
  <2>2. Board!SwitchUser(u)
    BY <2>1 DEF HandleCredentialChange, Board!SwitchUser, Written
  <2>. QED
    BY <2>2 DEF Board!BoardNext, Board!Accounts, Accounts
<1>6. CASE \E n \in (watched + 1)..Len(log) : ApplyRemoteEvent(n)
  <2>1. PICK n \in (watched + 1)..Len(log) : ApplyRemoteEvent(n)
    BY <1>6
  <2>2. UNCHANGED <<engineUser, owner, queue, log>>
    BY <2>1 DEF ApplyRemoteEvent
  <2>3. StoreInv'
    BY NextKeepsInv
  <2>4. Cached' \subseteq OnBoard' /\ OnBoard' = OnBoard
    BY <2>2, <2>3, CachedIsOnBoardNext DEF OnBoard
  <2>5. Cached \subseteq Cached'
    BY <2>1, <2>2, EventFacts DEF Cached, Written
  <2>6. PICK S : S = Cached'
    OBVIOUS
  <2>7. S \in SUBSET {log[i].msg : i \in 1..Len(log)}
    BY <2>4, <2>6 DEF OnBoard
  <2>8. Board!Learn(S)
    BY <2>2, <2>5, <2>6 DEF Board!Learn, Cached, Written
  <2>. QED
    BY <2>7, <2>8 DEF Board!BoardNext
<1>7. CASE ServerCommits
  <2> DEFINE c == [msg |-> Head(wire), user |-> engineUser]
  <2>1. /\ wire # <<>> /\ log' = Append(log, c)
        /\ UNCHANGED <<engineUser, owner, queue, cache>>
    BY <1>7 DEF ServerCommits, clientVars
  <2>2. Head(wire) \in 1..Written /\ c \in Commit
    <3>1. wire \in Seq(Nat) /\ OwnedBy(wire, engineUser) /\ engineUser \in Users /\ Written \in Nat
      BY <2>1, PipelineFacts, StateFacts
    <3>2. Head(wire) = wire[1] /\ 1 \in 1..Len(wire)
      BY <2>1, <3>1, TailFacts
    <3>3. Head(wire) \in 1..Written
      BY <3>1, <3>2 DEF OwnedBy
    <3>. QED
      BY <3>1, <3>3 DEF Commit
  <2>3. OnBoard' = OnBoard \cup {Head(wire)}
    BY <2>1, <2>2, CommitPosts
  <2>4. PICK m \in 1..Written : m = Head(wire)
    BY <2>2
  <2>5. Board!Deliver(m)
    BY <2>1, <2>3, <2>4 DEF Board!Deliver, OnBoard, Written
  <2>. QED
    BY <2>5 DEF Board!BoardNext
<1>8. CASE \E o \in late : LateCommit(o)
  <2>1. PICK o \in late : LateCommit(o)
    BY <1>8
  <2> DEFINE c == [msg |-> Head(o.msgs), user |-> o.user]
  <2>2. log' = Append(log, c) /\ UNCHANGED <<engineUser, owner, queue, cache>>
    BY <2>1 DEF LateCommit, clientVars
  <2>3. Head(o.msgs) \in 1..Written /\ c \in Commit
    <3>1. o.msgs \in Seq(Nat) /\ o.msgs # <<>> /\ OwnedBy(o.msgs, o.user) /\ o.user \in Users /\ Written \in Nat
      BY StateFacts DEF StoreInv, TypeOK, OrphansAreKnown, Orphan
    <3>2. Head(o.msgs) = o.msgs[1] /\ 1 \in 1..Len(o.msgs)
      BY <3>1, TailFacts
    <3>3. Head(o.msgs) \in 1..Written
      BY <3>1, <3>2 DEF OwnedBy
    <3>. QED
      BY <3>1, <3>3 DEF Commit
  <2>4. OnBoard' = OnBoard \cup {Head(o.msgs)}
    BY <2>2, <2>3, CommitPosts
  <2>5. PICK m \in 1..Written : m = Head(o.msgs)
    BY <2>3
  <2>6. Board!Deliver(m)
    BY <2>2, <2>4, <2>5 DEF Board!Deliver, OnBoard, Written
  <2>. QED
    BY <2>6 DEF Board!BoardNext
<1>9. CASE ForeignCommit
  <2> DEFINE c == [msg |-> Written + 1, user |-> Elsewhere]
  <2>1. /\ Written < MaxMsgs
        /\ owner' = Append(owner, Elsewhere) /\ cache' = Append(cache, 0)
        /\ log' = Append(log, c)
        /\ UNCHANGED <<engineUser, queue>>
    BY <1>9 DEF ForeignCommit
  <2>2. Cached' = Cached /\ Written' = Written + 1
    BY <2>1, NewIsUnseen
  <2>3. c \in Commit
    BY StateFacts DEF Commit
  <2>4. OnBoard' = OnBoard \cup {Written'}
    BY <2>1, <2>2, <2>3, CommitPosts
  <2>5. Board!PostElsewhere
    BY <2>1, <2>2, <2>4, Zenon DEF Board!PostElsewhere, Cached, OnBoard
  <2>. QED
    BY <2>5 DEF Board!BoardNext
<1>10. CASE \/ OnWriteStreamHandshakeComplete \/ OnWriteStreamClose \/ ServerRefuses
            \/ UNCHANGED vars
  BY <1>1, <1>10 DEF OnWriteStreamHandshakeComplete, OnWriteStreamClose, ServerRefuses,
                     clientVars, vars
<1>. QED
  BY <1>2, <1>3, <1>4, <1>5, <1>6, <1>7, <1>8, <1>9, <1>10 DEF Next

\* With all its streams, batches and resume tokens the store does nothing but
\* what the board promises: outboxes settle in order, messages move to what was
\* seen in one step, and what was seen is on the board.
THEOREM StoreImplementsBoard == Spec => BoardSpec
<1>1. Init => Board!BoardInit
  BY InitIsBoardInit
<1>2. StoreInv /\ [Next]_vars => [Board!BoardNext]_(Board!boardVars)
  BY NextIsBoardNext
<1>. QED
  BY <1>1, <1>2, Invariance, PTL DEF Spec, BoardSpec, Board!BoardSpec
=============================================================================
