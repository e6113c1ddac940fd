--------------------------- MODULE WatchQueryProofs ---------------------------
(***************************************************************************)
(* More proofs about WatchTargets, for any documents and bounds: what the  *)
(* query knows when it is resumed, which documents are being resolved, and *)
(* what a view shows that says it is synced.                               *)
(***************************************************************************)
EXTENDS WatchTargetsProofs

-----------------------------------------------------------------------------
(* What a sequence of messages makes of a set of documents                 *)

\* The message m lists the document d for the query, or takes it away.
Adds(m, d)  == m.type = "document" /\ Query \in m.ids /\ m.key = d /\ m.doc.exists
Drops(m, d) == \/ m.type = "document" /\ Query \in m.ids /\ m.key = d /\ ~m.doc.exists
               \/ m.type = "reset" /\ m.id = Query

\* The messages of s from after a to before p.
Between(s, a, p) == {i \in DOMAIN s : a < i /\ i < p}
Keeps(d, s, a, p) == \A j \in Between(s, a, p) : ~Drops(s[j], d)

\* Who had the documents S after the message a of s holds d before the message p.
Holds(d, S, s, a, p) ==
    \/ d \in S /\ Keeps(d, s, a, p)
    \/ \E i \in Between(s, a, p) : Adds(s[i], d) /\ Keeps(d, s, i, p)
Held(S, s, a, p) == {d \in Docs : Holds(d, S, s, a, p)}

\* The positions between a and p are one less in the tail.
TailBetween(s, a, p) ==
    \A i \in Between(Tail(s), a, p) : i + 1 \in Between(s, a + 1, p + 1) /\ Tail(s)[i] = s[i + 1]
BetweenInTail(s, a, p) ==
    \A i \in Between(s, a + 1, p + 1) :
        /\ i \in Nat /\ i - 1 \in Nat /\ (i - 1) + 1 = i
        /\ i - 1 \in Between(Tail(s), a, p) /\ Tail(s)[i - 1] = s[i]

\* Both ways.
LEMMA BetweenTail ==
  ASSUME NEW T, NEW s \in Seq(T), s # <<>>, NEW a \in Nat, NEW p \in Nat
  PROVE  TailBetween(s, a, p) /\ BetweenInTail(s, a, p)
  <1>1. DOMAIN s = 1..Len(s) /\ Len(s) \in Nat /\ DOMAIN Tail(s) = 1..(Len(s) - 1) /\ Len(s) > 0
    OBVIOUS
  <1>2. \A i \in DOMAIN Tail(s) : i \in Nat /\ Tail(s)[i] = s[i + 1]
    BY TailFacts
  <1>3. ASSUME NEW i \in Between(Tail(s), a, p)
        PROVE  i + 1 \in Between(s, a + 1, p + 1) /\ Tail(s)[i] = s[i + 1]
    <2>1. i \in DOMAIN Tail(s) /\ a < i /\ i < p
      BY <1>3 DEF Between
    <2>2. i + 1 \in DOMAIN s /\ i \in Nat
      BY <2>1, <1>1
    <2>. QED
      BY <2>1, <2>2, <1>2 DEF Between
  <1>4. ASSUME NEW i \in Between(s, a + 1, p + 1)
        PROVE  /\ i \in Nat /\ i - 1 \in Nat /\ (i - 1) + 1 = i
               /\ i - 1 \in Between(Tail(s), a, p) /\ Tail(s)[i - 1] = s[i]
    <2>1. i \in 1..Len(s) /\ a + 1 < i /\ i < p + 1
      BY <1>4, <1>1 DEF Between
    <2>2. i - 1 \in 1..(Len(s) - 1) /\ i \in Nat /\ i - 1 \in Nat /\ (i - 1) + 1 = i /\ a < i - 1 /\ i - 1 < p
      BY <2>1, <1>1
    <2>3. Tail(s)[i - 1] = s[(i - 1) + 1]
      BY <2>2, <1>1, <1>2
    <2>. QED
      BY <2>2, <2>3, <1>1 DEF Between
  <1>. QED
    BY <1>3, <1>4 DEF TailBetween, BetweenInTail

\* Nothing is taken away after the first message either.
LEMMA KeepsTail ==
  ASSUME NEW T, NEW s \in Seq(T), s # <<>>, NEW a \in Nat, NEW p \in Nat, NEW d,
         Keeps(d, s, a + 1, p + 1)
  PROVE  Keeps(d, Tail(s), a, p)
  <1>1. TailBetween(s, a, p)
    BY BetweenTail
  <1>. QED
    BY <1>1, Zenon DEF Keeps, TailBetween

\* Counting from the second message.
LEMMA HoldsTail ==
  ASSUME NEW T, NEW s \in Seq(T), s # <<>>, NEW a \in Nat, NEW p \in Nat, NEW d, NEW S,
         Holds(d, S, s, a + 1, p + 1)
  PROVE  Holds(d, S, Tail(s), a, p)
  <1>1. CASE d \in S /\ Keeps(d, s, a + 1, p + 1)
    BY <1>1, KeepsTail DEF Holds
  <1>2. CASE \E i \in Between(s, a + 1, p + 1) : Adds(s[i], d) /\ Keeps(d, s, i, p + 1)
    <2>1. PICK i \in Between(s, a + 1, p + 1) : Adds(s[i], d) /\ Keeps(d, s, i, p + 1)
      BY <1>2
    <2>a. BetweenInTail(s, a, p)
      BY BetweenTail
    <2>2. /\ i - 1 \in Nat /\ (i - 1) + 1 = i
          /\ i - 1 \in Between(Tail(s), a, p) /\ Tail(s)[i - 1] = s[i]
      BY <2>a, Zenon DEF BetweenInTail
    <2>3. Keeps(d, Tail(s), i - 1, p)
      BY <2>1, <2>2, KeepsTail
    <2>. QED
      BY <2>1, <2>2, <2>3 DEF Holds
  <1>. QED
    BY <1>1, <1>2 DEF Holds

\* The first message is taken: what it lists is had, what it does not take away stays.
LEMMA HoldsTaken ==
  ASSUME NEW T, NEW s \in Seq(T), s # <<>>, NEW p \in Nat, NEW d, NEW S, NEW R,
         d \in S /\ ~Drops(s[1], d) => d \in R, Adds(s[1], d) => d \in R,
         p > 0, Holds(d, S, s, 0, p + 1)
  PROVE  Holds(d, R, Tail(s), 0, p)
  <1>0. 1 \in DOMAIN s /\ DOMAIN s = 1..Len(s) /\ Len(s) \in Nat
    OBVIOUS
  <1>1. 1 \in Between(s, 0, p + 1) /\ \A i \in Between(s, 0, p + 1) : i # 1 => i \in Between(s, 0 + 1, p + 1)
    BY <1>0 DEF Between
  <1>2. \A i \in Between(s, 1, p + 1) : i \in Between(s, 0, p + 1)
    BY <1>0 DEF Between
  <1>3. CASE d \in S /\ Keeps(d, s, 0, p + 1)
    <2>1. ~Drops(s[1], d) /\ Keeps(d, s, 0 + 1, p + 1)
      BY <1>3, <1>1, <1>2 DEF Keeps
    <2>2. Keeps(d, Tail(s), 0, p) /\ d \in R
      BY <2>1, <1>3, KeepsTail
    <2>. QED
      BY <2>2 DEF Holds
  <1>4. CASE \E i \in Between(s, 0, p + 1) : Adds(s[i], d) /\ Keeps(d, s, i, p + 1)
    <2>1. PICK i \in Between(s, 0, p + 1) : Adds(s[i], d) /\ Keeps(d, s, i, p + 1)
      BY <1>4
    <2>2. CASE i = 1
      <3>1. Keeps(d, Tail(s), 0, p) /\ d \in R
        BY <2>1, <2>2, KeepsTail
      <3>. QED
        BY <3>1 DEF Holds
    <2>3. CASE i # 1
      <3>1. Holds(d, R, s, 0 + 1, p + 1)
        BY <2>1, <2>3, <1>1 DEF Holds
      <3>. QED
        BY <3>1, HoldsTail
    <2>. QED
      BY <2>2, <2>3
  <1>. QED
    BY <1>3, <1>4 DEF Holds

\* t is s with more messages behind, none of which takes d away.
Longer(t, s) == DOMAIN s \subseteq DOMAIN t /\ \A i \in DOMAIN s : t[i] = s[i]
Sparing(t, s, d) == \A i \in DOMAIN t : i \in DOMAIN s \/ ~Drops(t[i], d)

\* Sequences put together, by their positions.
LEMMA JoinLonger ==
  ASSUME NEW T, NEW s \in Seq(T), NEW w \in Seq(T)
  PROVE  /\ s \o w \in Seq(T) /\ Longer(s \o w, s) /\ Len(s \o w) = Len(s) + Len(w)
         /\ DOMAIN s = 1..Len(s) /\ DOMAIN w = 1..Len(w) /\ DOMAIN (s \o w) = 1..(Len(s) + Len(w))
         /\ Len(s) \in Nat /\ Len(w) \in Nat
         /\ \A i \in DOMAIN (s \o w) : i \in Nat /\ (i \in DOMAIN s \/ i - Len(s) \in DOMAIN w)
         /\ \A i \in DOMAIN (s \o w) : i \notin DOMAIN s => (s \o w)[i] = w[i - Len(s)]
         /\ \A j \in DOMAIN w : j \in Nat /\ Len(s) + j \in DOMAIN (s \o w) /\ (s \o w)[Len(s) + j] = w[j]
BY DEF Longer

\* What comes behind does not change what was held before.
LEMMA HoldsWithin ==
  ASSUME NEW T, NEW s \in Seq(T), NEW t \in Seq(T), Longer(t, s), NEW a \in Nat, NEW p \in Nat,
         p <= Len(s) + 1, NEW S
  PROVE  Held(S, t, a, p) = Held(S, s, a, p)
  <1>1. \A b : Between(t, b, p) = Between(s, b, p)
    <2>1. DOMAIN s = 1..Len(s) /\ Len(s) \in Nat /\ DOMAIN t = 1..Len(t) /\ Len(t) \in Nat
      OBVIOUS
    <2>2. \A i \in DOMAIN t : i < p => i \in DOMAIN s
      BY <2>1
    <2>. QED
      BY <2>2 DEF Between, Longer
  <1>2. \A b : \A i \in Between(s, b, p) : t[i] = s[i]
    BY DEF Between, Longer
  <1>3. \A b, d : Keeps(d, t, b, p) <=> Keeps(d, s, b, p)
    BY <1>1, <1>2, Zenon DEF Keeps
  <1>4. ASSUME NEW d
        PROVE  Holds(d, S, t, a, p) <=> Holds(d, S, s, a, p)
    <2>1. ASSUME NEW i \in Between(s, a, p)
          PROVE  Adds(t[i], d) /\ Keeps(d, t, i, p) <=> Adds(s[i], d) /\ Keeps(d, s, i, p)
      <3>1. t[i] = s[i]
        BY <1>2
      <3>. QED
        BY <3>1, <1>3
    <2>2. Between(t, a, p) = Between(s, a, p) /\ (Keeps(d, t, a, p) <=> Keeps(d, s, a, p))
      BY <1>1, <1>3
    <2>. QED
      BY <2>1, <2>2, Zenon DEF Holds
  <1>. QED
    BY <1>4, Zenon DEF Held

\* What is held at the end stays held while nothing takes it away.
LEMMA HoldsBeyond ==
  ASSUME NEW T, NEW s \in Seq(T), NEW t \in Seq(T), Longer(t, s), NEW a \in Nat, NEW p \in Nat,
         NEW S, NEW d, Sparing(t, s, d), Holds(d, S, s, a, Len(s) + 1), p > Len(s)
  PROVE  Holds(d, S, t, a, p)
  <1>1. DOMAIN s = 1..Len(s) /\ Len(s) \in Nat /\ DOMAIN t = 1..Len(t) /\ Len(t) \in Nat
    OBVIOUS
  <1>2. \A b : \A i \in Between(s, b, Len(s) + 1) : i \in Between(t, b, p) /\ t[i] = s[i]
    BY <1>1 DEF Between, Longer
  <1>3. ASSUME NEW b, Keeps(d, s, b, Len(s) + 1)
        PROVE  Keeps(d, t, b, p)
    <2>1. SUFFICES ASSUME NEW i \in Between(t, b, p)
                   PROVE  ~Drops(t[i], d)
      BY DEF Keeps
    <2>2. CASE i \in DOMAIN s
      <3>1. i \in Between(s, b, Len(s) + 1) /\ t[i] = s[i]
        BY <2>1, <2>2, <1>1 DEF Between, Longer
      <3>. QED
        BY <3>1, <1>3 DEF Keeps
    <2>3. CASE i \notin DOMAIN s
      BY <2>1, <2>3 DEF Sparing, Between
    <2>. QED
      BY <2>2, <2>3
  <1>. QED
    BY <1>2, <1>3, Zenon DEF Holds

\* What is listed behind is held, if nothing behind takes it away.
LEMMA HoldsAdded ==
  ASSUME NEW T, NEW s \in Seq(T), NEW t \in Seq(T), Longer(t, s), NEW a \in Nat, NEW p \in Nat,
         NEW S, NEW d, Sparing(t, s, d), a <= Len(s),
         NEW i \in DOMAIN t, i \notin DOMAIN s, Adds(t[i], d), i < p
  PROVE  Holds(d, S, t, a, p)
  <1>1. DOMAIN s = 1..Len(s) /\ Len(s) \in Nat /\ DOMAIN t = 1..Len(t) /\ Len(t) \in Nat
    OBVIOUS
  <1>2. i > Len(s) /\ i \in Nat
    BY <1>1
  <1>3. i \in Between(t, a, p)
    BY <1>2 DEF Between
  <1>4. \A j \in Between(t, i, p) : j \in DOMAIN t /\ j \notin DOMAIN s
    BY <1>1, <1>2 DEF Between
  <1>5. Keeps(d, t, i, p)
    BY <1>4 DEF Keeps, Sparing
  <1>. QED
    BY <1>3, <1>5 DEF Holds

-----------------------------------------------------------------------------
(* What a resumed query has to know                                        *)

\* S holds every document of the server sv that has not changed since version v.
Complete(sv, S, v) ==
    v <= sv.now /\ \A d \in Docs : sv.docs[d].exists /\ sv.docs[d].ver <= v => d \in S

\* sv is the server z, or z after some documents have been written.
Later(sv, z) ==
    z.now <= sv.now /\ \A d \in Docs : sv.docs[d] = z.docs[d] \/ sv.docs[d].ver > z.now

Watched(r) == Query \in DOMAIN r.listen
Silent(r)  == \A i \in DOMAIN r.up : r.up[i].id # Query
Asks(e)    == e.op = "watch" /\ e.id = Query

\* What the query would be shown, were the changes of its target handed on.
Marking(st, synced) == (synced \cup Marked(st, "added")) \ Marked(st, "removed")
Base(r, synced) == Marking(State(r, Query), synced)

\* The resume token of the query, kept or sent, is one its documents are complete to.
Asked(sv, r, synced) ==
    /\ r.listen[Query].key = All /\ Complete(sv, synced, r.listen[Query].token)
    /\ \A i \in DOMAIN r.up : Asks(r.up[i]) =>
          r.up[i].key = All /\ Complete(sv, synced, r.up[i].token)

\* The query is not given up but to be watched again at once.
Rewatched(r, c) ==
    /\ \A i \in DOMAIN r.up : r.up[i].id = Query /\ r.up[i].op = "unwatch" =>
          \E j \in DOMAIN r.up : j > i /\ Asks(r.up[j])
    /\ \A i \in DOMAIN c.down : c.down[i].type = "removed" /\ c.down[i].id = Query =>
          \/ \E j \in DOMAIN r.up : Asks(r.up[j])
          \/ \E j \in DOMAIN c.down : j > i /\ c.down[j] \in Answers(Query)

\* Where the messages begin from which the query's documents are collected: with
\* the next one, or behind the last answer the target still waits for.
Starts(r, c) ==
    IF State(r, Query).out = 0 THEN {0}
    ELSE {a \in DOMAIN c.down :
             /\ c.down[a].type = "added" /\ c.down[a].id = Query
             /\ \A b \in DOMAIN c.down : b > a => c.down[b] \notin Answers(Query)}

\* Who begins with the documents B is complete whenever a snapshot arrives, and
\* at the end to where the server thinks its target is.
Tells(sv, B, c, a) ==
    /\ \A p \in DOMAIN c.down : a < p /\ c.down[p].type = "snapshot" =>
          Complete(sv, Held(B, c.down, a, p), c.down[p].ver)
    /\ Query \in DOMAIN c.watched /\ c.watched[Query].key = All
    /\ Complete(sv, Held(B, c.down, a, Len(c.down) + 1), c.watched[Query].sent)

Listed(sv, r, c, synced) ==
    r.open /\ Query \notin r.resets /\ Silent(r) =>
        \A a \in Starts(r, c) : Tells(sv, Base(r, synced), c, a)

Resumes(sv, r, c, synced) ==
    Watched(r) => Asked(sv, r, synced) /\ Rewatched(r, c) /\ Listed(sv, r, c, synced)

\* Every document has got its version when the server changed.
Dated(sv) == /\ sv.now > 0
             /\ \A d \in Docs : sv.docs[d].ver <= sv.now /\ (sv.docs[d].exists => sv.docs[d].ver > 0)

\* An app that may be started again has stored a token its documents are complete to.
Kept == left.restarts > 0 => /\ Complete(server, view.synced, store.token)
                             /\ Query \notin remote.resets
\* A server that forgets nothing does not count the documents of a watched query.
Uncounted == ~left.forgets /\ Watched(remote) =>
    \A i \in DOMAIN conn.down : conn.down[i].type = "filter" => conn.down[i].id # Query

QInv ==
    /\ Dated(server) /\ Kept /\ Uncounted
    /\ left.restarts > 0 => ~left.forgets
    /\ \A i \in DOMAIN conn.down : conn.down[i].type = "snapshot" => conn.down[i].ver # 0
    /\ Resumes(server, remote, conn, view.synced)

\* Complete stays complete with more documents, and when the server changes.
LEMMA CompleteStays ==
  ASSUME NEW z \in Servers, NEW sv \in Servers, Later(sv, z), NEW S, NEW R, NEW v \in Tokens,
         S \subseteq R, Complete(z, S, v)
  PROVE  Complete(sv, R, v)
  <1>1. z.now \in Nat /\ sv.now \in Nat /\ v \in Nat /\ v <= z.now /\ z.now <= sv.now
    BY DEF Servers, Tokens, Complete, Later
  <1>2. v <= sv.now
    BY <1>1
  <1>3. ASSUME NEW d \in Docs, sv.docs[d].exists, sv.docs[d].ver <= v
        PROVE  d \in R
    <2>1. sv.docs[d].ver \in Nat
      BY DEF Servers, Versions
    <2>2. sv.docs[d] = z.docs[d]
      BY <2>1, <1>1, <1>3 DEF Later
    <2>. QED
      BY <2>2, <1>3 DEF Complete
  <1>. QED
    BY <1>2, <1>3 DEF Complete

\* The server has not changed.
LEMMA LaterSame ==
  ASSUME NEW z \in Servers, NEW sv \in Servers, sv.docs = z.docs, sv.now = z.now
  PROVE  Later(sv, z)
  BY DEF Later, Servers, Tokens

\* Fewer assumptions on what is held.
LEMMA HeldGrows ==
  ASSUME NEW S, NEW R, S \subseteq R, NEW s, NEW a, NEW p
  PROVE  Held(S, s, a, p) \subseteq Held(R, s, a, p)
  BY Zenon DEF Held, Holds

\* Tokens, versions and keys of what is under way.
LEMMA UnderWay ==
  ASSUME NEW r \in Remotes, NEW c \in Conns
  PROVE  /\ r.up \in Seq(Requests) /\ \A i \in DOMAIN r.up : r.up[i] \in Requests /\ r.up[i].token \in Tokens
         /\ \A t \in DOMAIN r.listen : r.listen[t] \in Listens /\ r.listen[t].token \in Tokens
         /\ c.down \in Seq(Messages) /\ \A i \in DOMAIN c.down : c.down[i] \in Messages
         /\ \A i \in DOMAIN c.down : c.down[i].type = "snapshot" => c.down[i].ver \in Tokens
         /\ \A t \in DOMAIN c.watched : c.watched[t].sent \in Tokens
  <1>1. r.up \in Seq(Requests) /\ c.down \in Seq(Messages)
    BY DEF Remotes, Conns
  <1>2. (\A i \in DOMAIN r.up : r.up[i] \in Requests) /\ \A i \in DOMAIN c.down : c.down[i] \in Messages
    BY <1>1
  <1>3. \A e \in Requests : e.token \in Tokens
    BY DEF Requests, Tokens
  <1>4. \A t \in DOMAIN r.listen : r.listen[t] \in Listens
    BY MapFacts DEF Remotes
  <1>5. \A t \in DOMAIN c.watched : c.watched[t] \in Versioned
    BY MapFacts DEF Conns
  <1>6. \A i \in DOMAIN c.down : c.down[i].type = "snapshot" => c.down[i].ver \in Tokens
    BY <1>2, MessageFields
  <1>. QED
    BY <1>1, <1>2, <1>3, <1>4, <1>5, <1>6 DEF Listens, Versioned

\* A longer history of the server, and more documents to begin with.
LEMMA TellsStays ==
  ASSUME NEW z \in Servers, NEW sv \in Servers, Later(sv, z), NEW c \in Conns, NEW a,
         NEW B, NEW D, B \subseteq D, Tells(z, B, c, a)
  PROVE  Tells(sv, D, c, a)
  <1>1. ASSUME NEW p \in DOMAIN c.down, a < p, c.down[p].type = "snapshot"
        PROVE  Complete(sv, Held(D, c.down, a, p), c.down[p].ver)
    <2>1. c.down[p].ver \in Tokens /\ Complete(z, Held(B, c.down, a, p), c.down[p].ver)
      BY <1>1, MessageFields DEF Tells, Conns
    <2>2. Held(B, c.down, a, p) \subseteq Held(D, c.down, a, p)
      BY HeldGrows
    <2>. QED
      BY <2>1, <2>2, CompleteStays
  <1>2. Complete(sv, Held(D, c.down, a, Len(c.down) + 1), c.watched[Query].sent)
    <2>1. /\ c.watched[Query].sent \in Tokens
          /\ Complete(z, Held(B, c.down, a, Len(c.down) + 1), c.watched[Query].sent)
      <3>1. c.watched[Query] \in Versioned
        BY MapFacts DEF Tells, Conns
      <3>. QED
        BY <3>1 DEF Tells, Versioned
    <2>2. Held(B, c.down, a, Len(c.down) + 1) \subseteq Held(D, c.down, a, Len(c.down) + 1)
      BY HeldGrows
    <2>. QED
      BY <2>1, <2>2, CompleteStays
  <1>. QED
    BY <1>1, <1>2 DEF Tells

\* What a query can resume from does not suffer from writes.
LEMMA ResumesLater ==
  ASSUME NEW z \in Servers, NEW sv \in Servers, Later(sv, z), NEW r \in Remotes, NEW c \in Conns,
         NEW synced, Resumes(z, r, c, synced)
  PROVE  Resumes(sv, r, c, synced)
  <1>1. SUFFICES ASSUME Watched(r)
                 PROVE  Asked(sv, r, synced) /\ Listed(sv, r, c, synced)
    BY DEF Resumes
  <1>2. Asked(z, r, synced) /\ Listed(z, r, c, synced)
    BY <1>1 DEF Resumes
  <1>3. r.listen[Query].token \in Tokens /\ \A i \in DOMAIN r.up : r.up[i].token \in Tokens
    BY <1>1, UnderWay DEF Watched
  <1>4. \A v \in Tokens : Complete(z, synced, v) => Complete(sv, synced, v)
    BY CompleteStays
  <1>5. Asked(sv, r, synced)
    BY <1>2, <1>3, <1>4 DEF Asked
  <1>6. \A a : Tells(z, Base(r, synced), c, a) => Tells(sv, Base(r, synced), c, a)
    BY TellsStays
  <1>. QED
    BY <1>2, <1>5, <1>6, Zenon DEF Listed

\* A write of the server.
LEMMA LaterStored ==
  ASSUME NEW z \in Servers, NEW sv \in Servers, NEW d \in Docs, sv.now = z.now + 1,
         \A x \in Docs : x # d => sv.docs[x] = z.docs[x],
         sv.docs[d].ver = z.now + 1, Dated(z)
  PROVE  Later(sv, z) /\ Dated(sv)
  <1>1. z.now \in Nat /\ \A x \in Docs : z.docs[x].ver \in Nat
    BY DEF Servers, Tokens, Versions
  <1>. QED
    BY <1>1 DEF Later, Dated

-----------------------------------------------------------------------------
(* What leaves the query alone                                             *)

\* q has sent what r has, and perhaps requests about other targets.
Continues(q, r) ==
    /\ DOMAIN r.up \subseteq DOMAIN q.up /\ \A i \in DOMAIN r.up : q.up[i] = r.up[i]
    /\ \A i \in DOMAIN q.up : i \in DOMAIN r.up \/ q.up[i].id # Query

\* q listens to the query as r does.
SameListen(q, r) ==
    /\ Watched(q) => Watched(r) /\ q.listen[Query] = r.listen[Query]
    /\ Watched(r) => Watched(q)

\* For the query q is as r.
SameQuery(q, r) ==
    /\ q.open = r.open /\ q.resets = r.resets
    /\ SameListen(q, r) /\ Continues(q, r)
    /\ State(q, Query) = State(r, Query)

\* Being the same is passed on.
LEMMA SameQueryTrans ==
  ASSUME NEW q, NEW r, NEW p, SameQuery(q, r), SameQuery(r, p)
  PROVE  SameQuery(q, p)
  <1>1. Continues(q, p)
    BY DEF SameQuery, Continues
  <1>2. SameListen(q, p)
    BY Zenon DEF SameQuery, SameListen
  <1>. QED
    BY <1>1, <1>2, Zenon DEF SameQuery

\* Requests about other targets change nothing for the query.
LEMMA ContinuesFacts ==
  ASSUME NEW q, NEW r, Continues(q, r)
  PROVE  /\ \A i \in DOMAIN q.up : q.up[i].id = Query => i \in DOMAIN r.up /\ q.up[i] = r.up[i]
         /\ Silent(q) => Silent(r)
  BY Zenon DEF Continues, Silent

\* What the query is asked stays in order.
LEMMA AskedSame ==
  ASSUME NEW sv, NEW q, NEW r, NEW synced, Continues(q, r), q.listen[Query] = r.listen[Query],
         Asked(sv, r, synced)
  PROVE  Asked(sv, q, synced)
  <1>1. \A i \in DOMAIN q.up : q.up[i].id = Query => i \in DOMAIN r.up /\ q.up[i] = r.up[i]
    BY ContinuesFacts
  <1>. QED
    BY <1>1, Zenon DEF Asked, Asks

\* What is watched again stays so.
LEMMA RewatchedSame ==
  ASSUME NEW c, NEW q, NEW r, Continues(q, r), Rewatched(r, c)
  PROVE  Rewatched(q, c)
  <1>1. \A i \in DOMAIN q.up : q.up[i].id = Query => i \in DOMAIN r.up /\ q.up[i] = r.up[i]
    BY ContinuesFacts
  <1>2. \A j \in DOMAIN r.up : j \in DOMAIN q.up /\ q.up[j] = r.up[j]
    BY DEF Continues
  <1>. QED
    BY <1>1, <1>2, SMTT(40) DEF Rewatched

\* What leaves the query alone leaves it complete.
LEMMA ResumesSame ==
  ASSUME NEW sv, NEW q, NEW r, NEW c, NEW synced, SameQuery(q, r), Resumes(sv, r, c, synced)
  PROVE  Resumes(sv, q, c, synced)
  <1>1. SUFFICES ASSUME Watched(q)
                 PROVE  Asked(sv, q, synced) /\ Rewatched(q, c) /\ Listed(sv, q, c, synced)
    BY DEF Resumes
  <1>2. Asked(sv, r, synced) /\ Rewatched(r, c) /\ Listed(sv, r, c, synced)
    BY <1>1 DEF Resumes, SameQuery, SameListen
  <1>3. Asked(sv, q, synced)
    BY <1>1, <1>2, AskedSame DEF SameQuery, SameListen
  <1>4. Rewatched(q, c)
    BY <1>2, RewatchedSame DEF SameQuery
  <1>5. Base(q, synced) = Base(r, synced) /\ Starts(q, c) = Starts(r, c)
    BY Zenon DEF SameQuery, Base, Starts
  <1>6. Listed(sv, q, c, synced)
    BY <1>2, <1>5, ContinuesFacts, Zenon DEF Listed, SameQuery
  <1>. QED
    BY <1>3, <1>4, <1>6

\* A request about another target.
LEMMA RequestSame ==
  ASSUME NEW r \in Remotes, NEW op \in {"watch", "unwatch"}, NEW t \in Nat, NEW token \in Tokens,
         op = "watch" => t \in DOMAIN r.listen, t # Query
  PROVE  SameQuery(Request(r, op, t, token), r)
  <1>1. PICK q : q = Request(r, op, t, token)
    OBVIOUS
  <1>2. q \in Remotes /\ Requesting(q, r, op, t, token)
    BY <1>1, RequestFields
  <1>3. PICK e \in Requests, st \in States : e.id = t /\ q.targets = With(r.targets, t, st) /\ q.up = Append(r.up, e)
    BY <1>2 DEF Requesting
  <1>4. State(q, Query) = State(r, Query)
    <2>0. r.targets \in Maps(Nat, States)
      BY DEF Remotes
    <2>a. Maplet(With(r.targets, t, st), r.targets, t, st)
      BY <2>0, WithFacts
    <2>1. Maplet(q.targets, r.targets, t, st)
      BY <2>a, <1>3
    <2>. QED
      BY <2>1 DEF Maplet, State
  <1>5. Continues(q, r)
    <2>1. r.up \in Seq(Requests)
      BY UnderWay DEF Remotes
    <2>2. /\ \A i \in DOMAIN q.up : \/ i \in DOMAIN r.up /\ q.up[i] = r.up[i]
                                    \/ i = Len(r.up) + 1 /\ q.up[i] = e
      BY <2>1, <1>3, AppendFacts
    <2>3. DOMAIN r.up \subseteq DOMAIN q.up /\ \A i \in DOMAIN r.up : q.up[i] = r.up[i]
      BY <2>1, <1>3
    <2>. QED
      BY <2>2, <2>3, <1>3 DEF Continues
  <1>6. q.open = r.open /\ q.resets = r.resets /\ q.listen = r.listen
    BY <1>2 DEF Requesting
  <1>7. SameQuery(q, r)
    BY <1>4, <1>5, <1>6 DEF SameQuery, SameListen, Watched
  <1>. QED
    BY <1>1, <1>7

\* The limbo resolutions of q are those of r.
SameLimbo(q, r) == q.resolutions = r.resolutions /\ q.byKey = r.byKey /\ q.enqueued = r.enqueued

\* Records that agree on what concerns the stream are the same for the query.
LEMMA SameQueryFields ==
  ASSUME NEW q, NEW r, q.open = r.open, q.resets = r.resets, q.targets = r.targets, q.up = r.up,
         q.listen = r.listen
  PROVE  SameQuery(q, r)
  <1>1. Continues(q, r)
    BY DEF Continues
  <1>2. SameListen(q, r)
    BY DEF SameListen, Watched
  <1>. QED
    BY <1>1, <1>2 DEF SameQuery, State

\* Another target is listened to.
LEMMA ListenShape ==
  ASSUME NEW r \in Remotes, NEW t \in Nat, t # Query, NEW d \in Docs
  PROVE  SameQuery(Listen(r, t, d), r) /\ SameLimbo(Listen(r, t, d), r)
  <1>1. PICK l, ls : l = [key |-> d, token |-> 0] /\ ls = With(r.listen, t, l)
    OBVIOUS
  <1>2. l \in Listens /\ 0 \in Tokens /\ l.token = 0
    BY <1>1, TargetsAssumption DEF Listens, Keys, Tokens
  <1>3. r.listen \in Maps(Nat, Listens)
    BY DEF Remotes
  <1>4. ls \in Maps(Nat, Listens) /\ Maplet(ls, r.listen, t, l)
    BY <1>1, <1>2, <1>3, WithFacts
  <1>5. PICK s : s = [r EXCEPT !.listen = ls]
    OBVIOUS
  <1>6. /\ s \in Remotes /\ s.open = r.open /\ s.resets = r.resets /\ s.targets = r.targets
        /\ s.up = r.up /\ s.listen = ls /\ s.resolutions = r.resolutions /\ s.byKey = r.byKey
        /\ s.enqueued = r.enqueued
    BY <1>4, <1>5 DEF Remotes
  <1>7. SameQuery(s, r) /\ SameLimbo(s, r)
    <2>1. SameListen(s, r)
      BY <1>4, <1>6 DEF SameListen, Maplet, Watched
    <2>2. Continues(s, r)
      BY <1>6 DEF Continues
    <2>. QED
      BY <2>1, <2>2, <1>6 DEF SameQuery, SameLimbo, State
  <1>8. Listen(r, t, d) = IF r.open THEN SendWatchRequest(s, t) ELSE s
    BY <1>1, <1>5 DEF Listen
  <1>9. SameQuery(SendWatchRequest(s, t), s) /\ SameLimbo(SendWatchRequest(s, t), s)
    <2>1. t \in DOMAIN s.listen /\ s.listen[t].token = 0
      BY <1>2, <1>4, <1>6 DEF Maplet
    <2>2. SameQuery(Request(s, "watch", t, 0), s)
      BY <1>2, <1>6, <2>1, RequestSame
    <2>3. Requesting(Request(s, "watch", t, 0), s, "watch", t, 0)
      BY <1>2, <1>6, <2>1, RequestFields
    <2>. QED
      BY <2>1, <2>2, <2>3 DEF SendWatchRequest, SameLimbo, Requesting
  <1>10. SameQuery(SendWatchRequest(s, t), r) /\ SameLimbo(SendWatchRequest(s, t), r)
    <2>1. SameQuery(SendWatchRequest(s, t), r)
      BY <1>7, <1>9, SameQueryTrans
    <2>. QED
      BY <2>1, <1>7, <1>9 DEF SameLimbo
  <1>. QED
    BY <1>7, <1>8, <1>10

\* The listen to another target is stopped.
LEMMA StopShape ==
  ASSUME NEW r \in Remotes, NEW t \in Nat, t # Query
  PROVE  /\ SameQuery(StopListening(r, t), r) /\ SameLimbo(StopListening(r, t), r)
         /\ StopListening(r, t) \in Remotes
  <1>1. PICK ls : ls = Without(r.listen, t)
    OBVIOUS
  <1>2. r.listen \in Maps(Nat, Listens)
    BY DEF Remotes
  <1>3. ls \in Maps(Nat, Listens) /\ Dropping(ls, r.listen, t)
    BY <1>1, <1>2, WithoutFacts
  <1>4. PICK s : s = [r EXCEPT !.listen = ls, !.ok = @ /\ t \in DOMAIN r.listen]
    OBVIOUS
  <1>5. /\ s.open = r.open /\ s.resets = r.resets /\ s.targets = r.targets
        /\ s.up = r.up /\ s.listen = ls /\ s.resolutions = r.resolutions /\ s.byKey = r.byKey
        /\ s.enqueued = r.enqueued
    BY <1>4 DEF Remotes
  <1>a. s \in Remotes
    <2>1. (r.ok /\ t \in DOMAIN r.listen) \in BOOLEAN
      OBVIOUS
    <2>2. PICK b \in BOOLEAN : b = (r.ok /\ t \in DOMAIN r.listen)
      BY <2>1, Zenon
    <2>3. s = [r EXCEPT !.listen = ls, !.ok = b]
      BY <1>4, <2>2 DEF Remotes
    <2>. QED
      BY <2>3, <1>3 DEF Remotes
  <1>6. SameQuery(s, r) /\ SameLimbo(s, r)
    <2>1. SameListen(s, r)
      BY <1>3, <1>5 DEF SameListen, Dropping, Watched
    <2>2. Continues(s, r)
      BY <1>5 DEF Continues
    <2>. QED
      BY <2>1, <2>2, <1>5 DEF SameQuery, SameLimbo, State
  <1>7. StopListening(r, t) = IF r.open THEN SendUnwatchRequest(s, t) ELSE s
    BY <1>1, <1>4, Zenon DEF StopListening
  <1>8. /\ SameQuery(SendUnwatchRequest(s, t), s) /\ SameLimbo(SendUnwatchRequest(s, t), s)
        /\ SendUnwatchRequest(s, t) \in Remotes
    <2>1. 0 \in Tokens
      BY TargetsAssumption DEF Tokens
    <2>2. SameQuery(Request(s, "unwatch", t, 0), s)
      BY <1>a, <2>1, RequestSame
    <2>3. Request(s, "unwatch", t, 0) \in Remotes /\ Requesting(Request(s, "unwatch", t, 0), s, "unwatch", t, 0)
      BY <1>a, <2>1, RequestFields
    <2>. QED
      BY <2>2, <2>3 DEF SendUnwatchRequest, SameLimbo, Requesting
  <1>9. SameQuery(SendUnwatchRequest(s, t), r) /\ SameLimbo(SendUnwatchRequest(s, t), r)
    <2>1. SameQuery(SendUnwatchRequest(s, t), r)
      BY <1>6, <1>8, SameQueryTrans
    <2>. QED
      BY <2>1, <1>6, <1>8 DEF SameLimbo
  <1>. QED
    BY <1>6, <1>7, <1>8, <1>9, <1>a

\* The pump does nothing; or it has started the resolution of the first in the queue.
Waits(r) == r.enqueued = <<>> \/ Cardinality(DOMAIN r.byKey) >= MaxLimbo
Started(q, r, d) ==
    /\ q.enqueued = Tail(r.enqueued)
    /\ q.resolutions = With(r.resolutions, r.next, [key |-> d, received |-> FALSE])
    /\ q.byKey = IF d \in DOMAIN r.byKey THEN r.byKey ELSE With(r.byKey, d, r.next)

\* One round of the pump.
LEMMA PumpOneShape ==
  ASSUME NEW c \in Conns, NEW synced, NEW r \in Good(c, synced)
  PROVE  /\ SameQuery(PumpOne(r), r)
         /\ Waits(r) => PumpOne(r) = r
         /\ ~Waits(r) => Started(PumpOne(r), r, Head(r.enqueued)) /\ Head(r.enqueued) \in Docs
  <1>1. r \in Remotes /\ Known(r)
    BY DEF Good, Sound, Wired
  <1>2. CASE Waits(r)
    <2>1. PumpOne(r) = r
      BY <1>2 DEF PumpOne, Waits
    <2>2. SameQuery(r, r)
      BY SameQueryFields
    <2>. QED
      BY <1>2, <2>1, <2>2
  <1>3. CASE ~Waits(r)
    <2>1. PICK d, t : d = Head(r.enqueued) /\ t = r.next
      OBVIOUS
    <2>2. /\ r.enqueued \in Seq(Docs) /\ t \in Nat /\ r.resolutions \in Maps(Nat, Resolutions)
          /\ r.byKey \in Maps(Docs, Nat) /\ t # Query
      BY <1>1, <2>1 DEF Remotes, Known, Query
    <2>3. d \in Docs /\ Tail(r.enqueued) \in Seq(Docs)
      BY <1>3, <2>1, <2>2 DEF Waits
    <2>4. PICK v, rs, bk, en :
             /\ v = [key |-> d, received |-> FALSE]
             /\ rs = With(r.resolutions, t, v)
             /\ bk = IF d \in DOMAIN r.byKey THEN r.byKey ELSE With(r.byKey, d, t)
             /\ en = Tail(r.enqueued)
      OBVIOUS
    <2>5. v \in Resolutions
      BY <2>3, <2>4 DEF Resolutions
    <2>6. rs \in Maps(Nat, Resolutions)
      BY <2>2, <2>4, <2>5, WithFacts
    <2>7. bk \in Maps(Docs, Nat)
      <3>1. With(r.byKey, d, t) \in Maps(Docs, Nat)
        BY <2>2, <2>3, WithFacts
      <3>. QED
        BY <2>2, <2>4, <3>1
    <2>8. PICK p : p = [r EXCEPT !.enqueued = en, !.next = t + 1, !.resolutions = rs, !.byKey = bk]
      OBVIOUS
    <2>9. PumpOne(r) = Listen(p, t, d)
      BY <1>3, <2>1, <2>4, <2>8 DEF PumpOne, Waits
    <2>10. /\ p \in Remotes /\ p.open = r.open /\ p.resets = r.resets /\ p.targets = r.targets
           /\ p.up = r.up /\ p.listen = r.listen /\ p.resolutions = rs /\ p.byKey = bk
           /\ p.enqueued = en
      <3>1. en \in Seq(Docs) /\ t + 1 \in Nat
        BY <2>2, <2>3, <2>4
      <3>. QED
        BY <1>1, <2>6, <2>7, <2>8, <3>1 DEF Remotes
    <2>11. SameQuery(p, r)
      BY <2>10, SameQueryFields, Zenon
    <2>12. SameQuery(Listen(p, t, d), p) /\ SameLimbo(Listen(p, t, d), p)
      BY <2>2, <2>3, <2>10, ListenShape
    <2>13. SameQuery(PumpOne(r), r)
      BY <2>9, <2>11, <2>12, SameQueryTrans
    <2>14. Started(PumpOne(r), r, d)
      BY <2>1, <2>4, <2>9, <2>10, <2>12 DEF Started, SameLimbo
    <2>. QED
      BY <1>3, <2>1, <2>3, <2>13, <2>14
  <1>. QED
    BY <1>2, <1>3

\* Clients that are in order and for the query as r.
GoodAs(c, synced, r) == {q \in Good(c, synced) : SameQuery(q, r)}

\* The pump leaves the query alone, whatever is enqueued.
LEMMA PumpSame ==
  ASSUME NEW c \in Conns, NEW synced, NEW r \in Good(c, synced)
  PROVE  PumpEnqueuedLimboResolutions(r) \in GoodAs(c, synced, r)
  <1>1. r.enqueued \in Seq(Docs) /\ r \in GoodAs(c, synced, r)
    BY SameQueryFields DEF Good, Remotes, GoodAs
  <1>2. ASSUME NEW q \in GoodAs(c, synced, r)
        PROVE  PumpOne(q) \in GoodAs(c, synced, r)
    <2>1. q \in Good(c, synced) /\ SameQuery(q, r)
      BY <1>2 DEF GoodAs
    <2>2. PumpOne(q) \in Good(c, synced) /\ SameQuery(PumpOne(q), q)
      BY <2>1, PumpOneSound, PumpOneShape
    <2>3. SameQuery(PumpOne(q), r)
      BY <2>1, <2>2, SameQueryTrans
    <2>. QED
      BY <2>2, <2>3 DEF GoodAs
  <1>. QED
    BY <1>1, <1>2, PumpFold

\* A document waits for its resolution.
LEMMA EnqueueSound ==
  ASSUME NEW c \in Conns, NEW synced, NEW r \in Good(c, synced), NEW d \in Docs,
         NEW q, q = [r EXCEPT !.enqueued = Append(@, d)]
  PROVE  /\ q \in Good(c, synced) /\ SameQuery(q, r)
         /\ q.resolutions = r.resolutions /\ q.byKey = r.byKey /\ q.enqueued = Append(r.enqueued, d)
  <1>1. r \in Remotes /\ r.ok /\ Wired(r, c) /\ Known(r) /\ Resolving(r)
    BY DEF Good, Sound, Wired
  <1>2. PICK en : en = Append(r.enqueued, d)
    OBVIOUS
  <1>3. en \in Seq(Docs)
    <2>1. r.enqueued \in Seq(Docs)
      BY <1>1 DEF Remotes
    <2>. QED
      BY <1>2, <2>1, AppendFacts
  <1>4. q = [r EXCEPT !.enqueued = en]
    BY <1>2
  <1>5. /\ q \in Remotes /\ q.ok /\ q.open = r.open /\ q.targets = r.targets /\ q.up = r.up
        /\ q.resets = r.resets /\ q.listen = r.listen /\ q.resolutions = r.resolutions
        /\ q.byKey = r.byKey /\ q.next = r.next /\ r.next \in Nat /\ q.enqueued = en
    BY <1>1, <1>3, <1>4 DEF Remotes
  <1>6. Follows(q, r) /\ Known(q) /\ Resolving(q)
    BY <1>1, <1>5 DEF Follows, Known, Resolving
  <1>7. \A t : KnownTo(q, t, synced) = KnownTo(r, t, synced)
    BY <1>5 DEF KnownTo
  <1>8. q \in Good(c, synced)
    BY <1>5, <1>6, <1>7, ListensChange
  <1>9. SameQuery(q, r)
    BY <1>5, SameQueryFields
  <1>. QED
    BY <1>2, <1>5, <1>8, <1>9

\* So does a document that enters limbo.
LEMMA TrackSame ==
  ASSUME NEW c \in Conns, NEW synced, NEW r \in Good(c, synced), NEW d \in Docs
  PROVE  SameQuery(TrackLimboChange(d, r), r)
  <1>1. CASE d \in DOMAIN r.byKey
    BY <1>1, SameQueryFields DEF TrackLimboChange
  <1>2. CASE d \notin DOMAIN r.byKey
    <2>1. PICK q : q = [r EXCEPT !.enqueued = Append(@, d)]
      OBVIOUS
    <2>2. TrackLimboChange(d, r) = PumpEnqueuedLimboResolutions(q)
      BY <1>2, <2>1 DEF TrackLimboChange
    <2>3. q \in Good(c, synced) /\ SameQuery(q, r)
      BY <2>1, EnqueueSound
    <2>4. PumpEnqueuedLimboResolutions(q) \in GoodAs(c, synced, q)
      BY <2>3, PumpSame
    <2>. QED
      BY <2>2, <2>3, <2>4, SameQueryTrans DEF GoodAs
  <1>. QED
    BY <1>1, <1>2

\* The resolution of d is forgotten by a client that no longer listens to it.
Forgotten(s, r, d) ==
    [s EXCEPT !.byKey = Without(@, d), !.resolutions = Without(@, r.byKey[d])]

\* A document that leaves limbo: its listen is stopped, then the pump runs.
LEMMA RemoveShape ==
  ASSUME NEW c \in Conns, NEW synced, NEW r \in Good(c, synced), NEW d \in DOMAIN r.byKey
  PROVE  /\ Forgotten(StopListening(r, r.byKey[d]), r, d) \in Good(c, synced)
         /\ SameQuery(Forgotten(StopListening(r, r.byKey[d]), r, d), r)
         /\ Forgotten(StopListening(r, r.byKey[d]), r, d).byKey = Without(r.byKey, d)
         /\ Forgotten(StopListening(r, r.byKey[d]), r, d).resolutions = Without(r.resolutions, r.byKey[d])
         /\ Forgotten(StopListening(r, r.byKey[d]), r, d).enqueued = r.enqueued
         /\ RemoveLimboTarget(d, r) = PumpEnqueuedLimboResolutions(Forgotten(StopListening(r, r.byKey[d]), r, d))
  <1>1. r \in Remotes /\ r.ok /\ Resolving(r)
    BY DEF Good, Sound, Wired
  <1>2. PICK t, rs, bk, ls : t = r.byKey[d] /\ rs = Without(r.resolutions, t)
                             /\ bk = Without(r.byKey, d) /\ ls = Without(r.listen, t)
    OBVIOUS
  <1>3. t # Query /\ t \in Nat
    <2>1. t \in DOMAIN r.resolutions /\ t \in DOMAIN r.listen \ {Query}
      BY <1>1, <1>2 DEF Resolving
    <2>2. r.byKey \in Maps(Docs, Nat)
      BY <1>1 DEF Remotes
    <2>3. t \in Nat
      BY <1>2, <2>2, MapFacts
    <2>. QED
      BY <2>1, <2>3
  <1>4. PICK q : q = [r EXCEPT !.listen = ls, !.byKey = bk, !.resolutions = rs]
    OBVIOUS
  <1>5. q \in Good(c, synced) /\ t \in Nat /\ t < q.next /\ t \in DOMAIN r.listen /\ t \notin DOMAIN q.listen
    <2>1. q = Dropped(r, d)
      BY <1>2, <1>4 DEF Dropped
    <2>. QED
      BY <1>2, <2>1, DropSound
  <1>6. PICK s : s = StopListening(r, t)
    OBVIOUS
  <1>7. SameQuery(s, r) /\ SameLimbo(s, r) /\ s \in Remotes
    BY <1>1, <1>3, <1>6, StopShape
  <1>8. PICK p : p = [s EXCEPT !.byKey = bk, !.resolutions = rs]
    OBVIOUS
  <1>9. p = Forgotten(s, r, d)
    BY <1>2, <1>7, <1>8 DEF Forgotten, SameLimbo
  <1>10. /\ p.byKey = bk /\ p.resolutions = rs /\ p.enqueued = r.enqueued
         /\ p.open = s.open /\ p.resets = s.resets /\ p.targets = s.targets /\ p.up = s.up /\ p.listen = s.listen
    BY <1>7, <1>8 DEF SameLimbo, Remotes
  <1>11. SameQuery(p, s)
    BY <1>10, SameQueryFields, Zenon
  <1>12. SameQuery(p, r)
    BY <1>7, <1>11, SameQueryTrans
  <1>13. p \in Good(c, synced)
    <2>1. PICK z : z = [r EXCEPT !.listen = ls, !.ok = @ /\ t \in DOMAIN r.listen]
      OBVIOUS
    <2>2. z = [r EXCEPT !.listen = ls]
      BY <1>1, <1>5, <2>1 DEF Remotes
    <2>3. z.open = r.open /\ q.open = r.open
      BY <1>1, <1>4, <2>2 DEF Remotes
    <2>4. s = IF r.open THEN SendUnwatchRequest(z, t) ELSE z
      BY <1>2, <1>6, <2>1, <2>3 DEF StopListening
    <2>5. CASE ~r.open
      <3>1. p = q
        BY <1>1, <1>4, <1>8, <2>2, <2>4, <2>5 DEF Remotes
      <3>. QED
        BY <3>1, <1>5
    <2>6. CASE r.open
      <3>1. PICK ts, u : /\ ts = With(r.targets, t, [State(r, t) EXCEPT !.out = @ + 1])
                         /\ u = Append(r.up, [op |-> "unwatch", id |-> t, token |-> 0, key |-> All])
        OBVIOUS
      <3>2. SendUnwatchRequest(z, t) = [z EXCEPT !.targets = ts, !.up = u]
        <4>1. z.targets = r.targets /\ z.up = r.up
          BY <1>1, <2>2 DEF Remotes
        <4>. QED
          BY <3>1, <4>1 DEF SendUnwatchRequest, Request, State
      <3>3. Request(q, "unwatch", t, 0) = [q EXCEPT !.targets = ts, !.up = u]
        <4>1. q.targets = r.targets /\ q.up = r.up
          BY <1>1, <1>4 DEF Remotes
        <4>. QED
          BY <3>1, <4>1 DEF Request, State
      <3>4. [[z EXCEPT !.targets = ts, !.up = u] EXCEPT !.byKey = bk, !.resolutions = rs]
              = [q EXCEPT !.targets = ts, !.up = u]
        BY <1>1, <1>4, <2>2 DEF Remotes
      <3>5. Request(q, "unwatch", t, 0) \in Good(c, synced)
        <4>1. 0 \in Tokens
          BY TargetsAssumption DEF Tokens
        <4>. QED
          BY <1>5, <2>3, <2>6, <4>1, RequestSound
      <3>. QED
        BY <1>8, <2>4, <2>6, <3>2, <3>3, <3>4, <3>5
    <2>. QED
      BY <2>5, <2>6
  <1>14. RemoveLimboTarget(d, r) = PumpEnqueuedLimboResolutions(p)
    BY <1>2, <1>6, <1>9 DEF RemoveLimboTarget, Forgotten
  <1>. QED
    BY <1>2, <1>6, <1>9, <1>10, <1>12, <1>13, <1>14

\* A document that leaves limbo leaves the query alone.
LEMMA RemoveSame ==
  ASSUME NEW c \in Conns, NEW synced, NEW r \in Good(c, synced), NEW d \in Docs
  PROVE  SameQuery(RemoveLimboTarget(d, r), r)
  <1>1. CASE d \notin DOMAIN r.byKey
    BY <1>1, SameQueryFields DEF RemoveLimboTarget
  <1>2. CASE d \in DOMAIN r.byKey
    <2>1. PICK q : q = Forgotten(StopListening(r, r.byKey[d]), r, d)
      OBVIOUS
    <2>2. q \in Good(c, synced) /\ SameQuery(q, r) /\ RemoveLimboTarget(d, r) = PumpEnqueuedLimboResolutions(q)
      BY <1>2, <2>1, RemoveShape
    <2>3. PumpEnqueuedLimboResolutions(q) \in GoodAs(c, synced, q)
      BY <2>2, PumpSame
    <2>. QED
      BY <2>2, <2>3, SameQueryTrans DEF GoodAs
  <1>. QED
    BY <1>1, <1>2

\* UpdateTrackedLimboDocuments leaves the query alone.
LEMMA UpdateTrackedSame ==
  ASSUME NEW c \in Conns, NEW synced, NEW r \in Good(c, synced),
         NEW removed \in SUBSET Docs, NEW added \in SUBSET Docs
  PROVE  SameQuery(UpdateTrackedLimboDocuments(r, removed, added), r)
  <1>1. IsFiniteSet(removed) /\ IsFiniteSet(added)
    BY TargetsAssumption, FS_Subset
  <1>2. r \in GoodAs(c, synced, r)
    BY SameQueryFields DEF GoodAs
  <1>3. ASSUME NEW d \in Docs, NEW q \in GoodAs(c, synced, r)
        PROVE  RemoveLimboTarget(d, q) \in GoodAs(c, synced, r) /\ TrackLimboChange(d, q) \in GoodAs(c, synced, r)
    <2>1. q \in Good(c, synced) /\ SameQuery(q, r)
      BY <1>3 DEF GoodAs
    <2>2. RemoveLimboTarget(d, q) \in Good(c, synced) /\ TrackLimboChange(d, q) \in Good(c, synced)
      BY <2>1, RemoveSound, TrackSound
    <2>3. SameQuery(RemoveLimboTarget(d, q), q) /\ SameQuery(TrackLimboChange(d, q), q)
      BY <2>1, RemoveSame, TrackSame
    <2>4. SameQuery(RemoveLimboTarget(d, q), r) /\ SameQuery(TrackLimboChange(d, q), r)
      BY <2>1, <2>3, SameQueryTrans
    <2>. QED
      BY <2>2, <2>4 DEF GoodAs
  <1>4. PICK q : q = FoldSet(RemoveLimboTarget, r, removed)
    OBVIOUS
  <1>5. q \in GoodAs(c, synced, r)
    BY <1>1, <1>2, <1>3, <1>4, RemoveFold
  <1>6. FoldSet(TrackLimboChange, q, added) \in GoodAs(c, synced, r)
    BY <1>1, <1>3, <1>5, TrackFold
  <1>. QED
    BY <1>4, <1>6 DEF UpdateTrackedLimboDocuments, GoodAs

\* EmitNewSnapshots leaves the query alone.
LEMMA EmitSame ==
  ASSUME NEW c \in Conns, NEW v \in Views, NEW s \in Stores, NEW r \in Good(c, v.synced),
         Emit(r, v, s)
  PROVE  SameQuery(remote', r) /\ view'.synced = v.synced /\ store' = s
  <1>1. PICK limbo : limbo = IF Query \in DOMAIN r.listen THEN LimboDocuments(v, s) ELSE {}
    OBVIOUS
  <1>2. /\ view' = [v EXCEPT !.limbo = limbo] /\ store' = s
        /\ remote' = UpdateTrackedLimboDocuments(r, v.limbo \ limbo, limbo \ v.limbo)
    BY <1>1 DEF Emit
  <1>3. limbo \subseteq Docs /\ v.limbo \subseteq Docs
    BY <1>1 DEF LimboDocuments, Shown, Exists, Views, Stores
  <1>4. SameQuery(remote', r)
    BY <1>2, <1>3, UpdateTrackedSame
  <1>. QED
    BY <1>2, <1>4 DEF Views

-----------------------------------------------------------------------------
(* Steps in which nothing is said about the query                          *)

\* The server or the rest of the client changes, the query does not.
LEMMA QuietStep ==
  ASSUME IInv, QInv, server' \in Servers, Later(server', server), Dated(server'),
         conn' = conn, left' = left, remote' \in Remotes, SameQuery(remote', remote),
         view'.synced = view.synced, store'.token = store.token
  PROVE  QInv'
  <1>1. server \in Servers /\ conn \in Conns /\ remote \in Remotes /\ store.token \in Tokens
    BY DEF IInv, Good, Stores
  <1>2. Resumes(server', remote', conn', view'.synced)
    <2>1. Resumes(server', remote, conn, view.synced)
      BY <1>1, ResumesLater DEF QInv
    <2>2. Resumes(server', remote', conn, view.synced)
      BY <2>1, ResumesSame
    <2>. QED
      BY <2>2
  <1>3. Kept'
    <2>1. Complete(server, view.synced, store.token) => Complete(server', view.synced, store.token)
      BY <1>1, CompleteStays
    <2>. QED
      BY <2>1 DEF QInv, Kept, SameQuery
  <1>4. Uncounted'
    BY DEF QInv, Uncounted, SameQuery, SameListen
  <1>. QED
    BY <1>2, <1>3, <1>4 DEF QInv

\* The view goes offline.
LEMMA OfflineQuery ==
  ASSUME IInv, QInv, Offline
  PROVE  QInv'
  <1>1. SameQuery(remote', remote) /\ remote' \in Remotes
    BY SameQueryFields DEF Offline, IInv, Good
  <1>2. server \in Servers /\ server' = server /\ Later(server', server)
    BY LaterSame DEF Offline, IInv
  <1>3. view'.synced = view.synced /\ store'.token = store.token /\ conn' = conn /\ left' = left
    BY DEF Offline, IInv, Views
  <1>. QED
    BY <1>1, <1>2, <1>3, QuietStep DEF QInv

\* The user sends a message.
LEMMA SendMessageQuery ==
  ASSUME IInv, QInv, NEW d \in Docs, SendMessage(d)
  PROVE  QInv'
  <1>1. server \in Servers /\ view \in Views /\ store \in Stores /\ remote \in Good(conn, view.synced) /\ conn \in Conns
    BY DEF IInv
  <1>2. PICK v, s : v = [view EXCEPT !.own = @ \cup {d}] /\ s = [store EXCEPT !.mine = @ \cup {d}]
    OBVIOUS
  <1>3. v \in Views /\ s \in Stores /\ v.synced = view.synced /\ s.token = store.token
    BY <1>1, <1>2 DEF Views, Stores
  <1>4. Emit(remote, v, s) /\ server' = server /\ conn' = conn /\ left' = left
    BY <1>2 DEF SendMessage
  <1>5. SameQuery(remote', remote) /\ view'.synced = v.synced /\ store' = s
    BY <1>1, <1>3, <1>4, EmitSame
  <1>6. remote' \in Remotes
    BY <1>1, <1>3, <1>4, EmitSound DEF Good
  <1>7. Later(server', server)
    BY <1>1, <1>4, LaterSame
  <1>. QED
    BY <1>1, <1>3, <1>4, <1>5, <1>6, <1>7, QuietStep DEF QInv

\* A write has been committed.
LEMMA WriteAcknowledgedQuery ==
  ASSUME IInv, QInv, IInv', NEW d \in Docs, WriteAcknowledged(d)
  PROVE  QInv'
  <1>1. /\ server \in Servers /\ view \in Views /\ store \in Stores /\ remote \in Good(conn, view.synced)
        /\ conn \in Conns /\ server' \in Servers /\ remote' \in Remotes
    BY DEF IInv, Good
  <1>2. PICK done, v, s, acks :
           /\ done = [store EXCEPT !.mine = @ \ {d}] /\ v = [view EXCEPT !.own = @ \ {d}]
           /\ s = [done EXCEPT !.committed = @ \cup {d}, !.cache[d] = [ver |-> server.acks[d], exists |-> TRUE]]
           /\ acks = Without(server.acks, d)
    OBVIOUS
  <1>3. server' = [server EXCEPT !.acks = acks] /\ conn' = conn /\ left' = left /\ d \in DOMAIN server.acks
    BY <1>2 DEF WriteAcknowledged
  <1>4. server'.docs = server.docs /\ server'.now = server.now
    BY <1>1, <1>3 DEF Servers
  <1>5. Later(server', server) /\ Dated(server')
    BY <1>1, <1>4, LaterSame DEF QInv, Dated
  <1>6. \/ Emit(remote, v, done)
        \/ Emit(remote, view, s)
    BY <1>2, Zenon DEF WriteAcknowledged
  <1>7. done \in Stores /\ v \in Views /\ v.synced = view.synced /\ done.token = store.token
    BY <1>1, <1>2 DEF Stores, Views
  <1>8. s \in Stores /\ s.token = store.token
    <2>1. server.acks \in Maps(Docs, 1 .. MaxNow)
      BY <1>1 DEF Servers
    <2>2. server.acks[d] \in 1 .. MaxNow
      BY <1>3, <2>1, MapFacts
    <2>3. [ver |-> server.acks[d], exists |-> TRUE] \in Versions
      BY <2>2, TargetsAssumption DEF Versions
    <2>. QED
      BY <1>7, <1>2, <2>3 DEF Stores
  <1>9. SameQuery(remote', remote) /\ view'.synced = view.synced /\ store'.token = store.token
    <2>1. CASE Emit(remote, v, done)
      BY <1>1, <1>7, <2>1, EmitSame
    <2>2. CASE Emit(remote, view, s)
      BY <1>1, <1>8, <2>2, EmitSame
    <2>. QED
      BY <1>6, <2>1, <2>2
  <1>. QED
    BY <1>1, <1>3, <1>5, <1>9, QuietStep

\* The server commits a write.
LEMMA CommitQuery ==
  ASSUME IInv, QInv, IInv', NEW d \in Docs, Commit(d)
  PROVE  QInv'
  <1>1. server \in Servers /\ server' \in Servers /\ remote \in Remotes
    BY DEF IInv, Good
  <1>2. PICK docs, acks, new : /\ new = [ver |-> server.now + 1, exists |-> TRUE]
                               /\ docs = [server.docs EXCEPT ![d] = new]
                               /\ acks = With(server.acks, d, server.now + 1)
    OBVIOUS
  <1>3. /\ server' = [[server EXCEPT !.docs = docs, !.now = @ + 1] EXCEPT !.acks = acks]
        /\ conn' = conn /\ remote' = remote /\ view' = view /\ store' = store /\ left' = left
    <2>1. Store(d, new) = [server EXCEPT !.docs = docs, !.now = @ + 1]
      BY <1>1, <1>2 DEF Store, Servers
    <2>2. Store(d, new).acks = server.acks
      BY <1>1, <2>1 DEF Servers
    <2>. QED
      BY <1>1, <1>2, <2>1, <2>2 DEF Commit
  <1>4. server'.docs = docs /\ server'.now = server.now + 1
    BY <1>1, <1>3 DEF Servers
  <1>5. /\ \A x \in Docs : x # d => server'.docs[x] = server.docs[x]
        /\ server'.docs[d].ver = server.now + 1
    BY <1>1, <1>2, <1>4 DEF Servers
  <1>6. Later(server', server) /\ Dated(server')
    BY <1>1, <1>4, <1>5, LaterStored DEF QInv
  <1>7. SameQuery(remote', remote)
    BY <1>3, SameQueryFields
  <1>. QED
    BY <1>1, <1>3, <1>6, <1>7, QuietStep

\* Others write.
LEMMA OthersWriteQuery ==
  ASSUME IInv, QInv, IInv', NEW d \in Docs, OthersWrite(d)
  PROVE  QInv'
  <1>1. server \in Servers /\ server' \in Servers /\ remote \in Remotes
    BY DEF IInv, Good
  <1>2. PICK e \in BOOLEAN : server' = Store(d, [ver |-> server.now + 1, exists |-> e])
    BY DEF OthersWrite
  <1>3. conn' = conn /\ remote' = remote /\ view' = view /\ store' = store /\ left' = left
    BY DEF OthersWrite
  <1>4. /\ server'.docs = [server.docs EXCEPT ![d] = [ver |-> server.now + 1, exists |-> e]]
        /\ server'.now = server.now + 1
    BY <1>1, <1>2 DEF Store, Servers
  <1>5. /\ \A x \in Docs : x # d => server'.docs[x] = server.docs[x]
        /\ server'.docs[d].ver = server.now + 1
    BY <1>1, <1>4 DEF Servers
  <1>6. Later(server', server) /\ Dated(server')
    BY <1>1, <1>4, <1>5, LaterStored DEF QInv
  <1>7. SameQuery(remote', remote)
    BY <1>3, SameQueryFields
  <1>. QED
    BY <1>1, <1>3, <1>6, <1>7, QuietStep

-----------------------------------------------------------------------------
(* The stream breaks and opens, the app is started                         *)

\* Nothing under way: only the kept token matters.
LEMMA ClosedQuery ==
  ASSUME NEW sv, NEW r, NEW c, NEW synced, ~r.open, r.up = <<>>, c.down = <<>>,
         Watched(r) => r.listen[Query].key = All /\ Complete(sv, synced, r.listen[Query].token)
  PROVE  Resumes(sv, r, c, synced)
  <1>1. DOMAIN r.up = {} /\ DOMAIN c.down = {}
    OBVIOUS
  <1>2. Watched(r) => Asked(sv, r, synced) /\ Rewatched(r, c)
    BY <1>1 DEF Asked, Rewatched
  <1>. QED
    BY <1>2 DEF Resumes, Listed

\* The stream breaks.
LEMMA BreaksQuery ==
  ASSUME IInv, QInv, StreamBreaks
  PROVE  QInv'
  <1>1. remote \in Remotes /\ left \in FaultPlans
    BY DEF IInv, Good
  <1>2. /\ conn' = NoStream /\ server' = server /\ view' = view /\ store' = store
        /\ remote' = [remote EXCEPT !.open = FALSE, !.targets = <<>>, !.updates = <<>>,
                                    !.resets = {}, !.up = <<>>]
        /\ left' = [left EXCEPT !.breaks = @ - 1]
    BY DEF StreamBreaks
  <1>3. /\ ~remote'.open /\ remote'.up = <<>> /\ remote'.resets = {} /\ remote'.listen = remote.listen
        /\ left'.restarts = left.restarts /\ left'.forgets = left.forgets
    BY <1>1, <1>2 DEF Remotes, FaultPlans
  <1>4. conn'.down = <<>> /\ DOMAIN conn'.down = {}
    BY <1>2, NoStreamTyped
  <1>5. Watched(remote) => remote.listen[Query].key = All /\ Complete(server, view.synced, remote.listen[Query].token)
    BY DEF QInv, Resumes, Asked
  <1>6. Resumes(server', remote', conn', view'.synced)
    <2>1. Watched(remote') =>
             /\ remote'.listen[Query].key = All
             /\ Complete(server', view'.synced, remote'.listen[Query].token)
      BY <1>2, <1>3, <1>5 DEF Watched
    <2>. QED
      BY <1>3, <1>4, <2>1, ClosedQuery
  <1>7. Kept' /\ Uncounted'
    BY <1>2, <1>3, <1>4 DEF Kept, Uncounted, QInv
  <1>. QED
    BY <1>2, <1>3, <1>4, <1>6, <1>7 DEF QInv

\* The app is started again.
LEMMA RestartQuery ==
  ASSUME IInv, QInv, Restart
  PROVE  QInv'
  <1>1. left \in FaultPlans /\ view \in Views /\ store \in Stores
    BY DEF IInv
  <1>2. /\ conn' = NoStream /\ server' = server /\ store' = store /\ left.restarts > 0
        /\ remote' = Listening(store.token)
        /\ view' = [view EXCEPT !.current = FALSE, !.limbo = {}, !.own = store.mine]
        /\ left' = [left EXCEPT !.restarts = @ - 1]
    BY DEF Restart
  <1>3. /\ left'.restarts > 0 => left.restarts > 0
        /\ left'.forgets = left.forgets /\ view'.synced = view.synced
    BY <1>1, <1>2 DEF FaultPlans, Views
  <1>4. conn'.down = <<>> /\ DOMAIN conn'.down = {}
    BY <1>2, NoStreamTyped
  <1>5. /\ ~remote'.open /\ remote'.up = <<>> /\ remote'.resets = {}
        /\ remote'.listen = With(<<>>, Query, [key |-> All, token |-> store.token])
    BY <1>2 DEF Listening
  <1>6. remote'.listen[Query] = [key |-> All, token |-> store.token]
    BY <1>5 DEF With
  <1>7. Complete(server, view.synced, store.token)
    BY <1>2 DEF QInv, Kept
  <1>8. Resumes(server', remote', conn', view'.synced)
    BY <1>2, <1>3, <1>4, <1>5, <1>6, <1>7, ClosedQuery
  <1>9. Kept' /\ Uncounted'
    BY <1>2, <1>3, <1>4, <1>5, <1>7 DEF Kept, Uncounted
  <1>. QED
    BY <1>2, <1>3, <1>4, <1>8, <1>9 DEF QInv

\* A stream opens: the query is sent with the token that was kept.
LEMMA OpensQuery ==
  ASSUME IInv, QInv, StreamOpens
  PROVE  QInv'
  <1>1. /\ remote \in Remotes /\ conn \in Conns /\ Known(remote) /\ Closed(remote, conn)
        /\ remote \in Good(conn, view.synced)
    BY DEF IInv, Good, Sound, Wired
  <1>2. /\ ~remote.open /\ UNCHANGED <<server, conn, view, store, left>>
        /\ remote' = FoldSet(LAMBDA t, r : SendWatchRequest(r, t), [remote EXCEPT !.open = TRUE],
                             DOMAIN remote.listen)
    BY DEF StreamOpens
  <1>3. remote.up = <<>> /\ remote.resets = {} /\ conn.down = <<>>
    BY <1>1, <1>2 DEF Closed
  <1>4. PICK base, L, S : base = [remote EXCEPT !.open = TRUE] /\ L = remote.listen /\ S = DOMAIN L
    OBVIOUS
  <1>5. /\ base \in Remotes /\ base.listen = L /\ DOMAIN base.up = {} /\ base.resets = {}
    <2>1. base \in Remotes /\ base.listen = L /\ base.up = remote.up /\ base.resets = remote.resets
      BY <1>1, <1>4 DEF Remotes
    <2>2. DOMAIN base.up = {}
      BY <1>3, <2>1
    <2>. QED
      BY <1>3, <2>1, <2>2
  <1>6. IsFiniteSet(S) /\ S \subseteq Nat /\ L \in Maps(Nat, Listens)
    BY <1>1, <1>4, IdsFinite DEF Remotes
  <1>7. PICK U, G :
           /\ U = {q \in Remotes : q.listen = L /\ q.resets = {}}
           /\ G = [s \in SUBSET S |-> {q \in U :
                     /\ \A i \in DOMAIN q.up :
                          /\ q.up[i].op = "watch"
                          /\ q.up[i].key = L[q.up[i].id].key /\ q.up[i].token = L[q.up[i].id].token
                     /\ Query \in s => \E i \in DOMAIN q.up : q.up[i].id = Query}]
    OBVIOUS
  <1>8. base \in U /\ base \in G[{}]
    BY <1>5, <1>7
  <1>9. ASSUME NEW t \in S, NEW q \in U
        PROVE  /\ SendWatchRequest(q, t) \in U /\ q.up \in Seq(Requests)
               /\ \E e \in Requests : /\ SendWatchRequest(q, t).up = Append(q.up, e)
                                      /\ e.op = "watch" /\ e.id = t
                                      /\ e.key = L[t].key /\ e.token = L[t].token
    <2>1. q \in Remotes /\ q.listen = L /\ q.resets = {} /\ t \in Nat /\ t \in DOMAIN q.listen
      BY <1>4, <1>6, <1>7
    <2>2. L[t] \in Listens
      BY <1>4, <1>6, MapFacts
    <2>3. PICK token \in Tokens : token = L[t].token
      BY <2>2 DEF Listens
    <2>4. SendWatchRequest(q, t) = Request(q, "watch", t, token)
      BY <2>1, <2>3 DEF SendWatchRequest
    <2>5. Request(q, "watch", t, token) \in Remotes /\ Requesting(Request(q, "watch", t, token), q, "watch", t, token)
      BY <2>1, RequestFields
    <2>6. PICK p : p = SendWatchRequest(q, t)
      OBVIOUS
    <2>7. p \in Remotes /\ Requesting(p, q, "watch", t, token)
      BY <2>4, <2>5, <2>6
    <2>8. p \in U
      BY <1>7, <2>1, <2>7 DEF Requesting
    <2>9. q.up \in Seq(Requests)
      BY <2>1 DEF Remotes
    <2>10. \E e \in Requests : p.up = Append(q.up, e) /\ e.op = "watch" /\ e.id = t
                               /\ e.key = L[t].key /\ e.token = L[t].token
      BY <2>1, <2>3, <2>7 DEF Requesting
    <2>. QED
      BY <2>6, <2>8, <2>9, <2>10
  <1>10. ASSUME NEW s \in SUBSET S, NEW t \in s, NEW q \in U, q \in G[s \ {t}]
         PROVE  SendWatchRequest(q, t) \in G[s]
    <2>1. s \ {t} \in SUBSET S /\ t \in S
      OBVIOUS
    <2>2. PICK p : p = SendWatchRequest(q, t)
      OBVIOUS
    <2>3. p \in U /\ q.up \in Seq(Requests)
      BY <1>9, <2>1, <2>2
    <2>4. PICK e \in Requests : p.up = Append(q.up, e) /\ e.op = "watch" /\ e.id = t
                                /\ e.key = L[t].key /\ e.token = L[t].token
      BY <1>9, <2>1, <2>2
    <2>5. /\ \A i \in DOMAIN q.up :
                          /\ q.up[i].op = "watch"
                          /\ q.up[i].key = L[q.up[i].id].key /\ q.up[i].token = L[q.up[i].id].token
          /\ Query \in s \ {t} => \E i \in DOMAIN q.up : q.up[i].id = Query
      BY <1>7, <1>10, <2>1
    <2>6. \A i \in DOMAIN p.up : \/ i \in DOMAIN q.up /\ p.up[i] = q.up[i]
                                 \/ p.up[i] = e
      BY <2>3, <2>4, AppendFacts
    <2>7. /\ \A i \in DOMAIN q.up : i \in DOMAIN p.up /\ p.up[i] = q.up[i]
          /\ Len(q.up) + 1 \in DOMAIN p.up /\ p.up[Len(q.up) + 1] = e
      BY <2>3, <2>4
    <2>8. Query \in s => \E i \in DOMAIN p.up : p.up[i].id = Query
      <3>1. CASE t = Query
        BY <3>1, <2>4, <2>7
      <3>2. CASE t # Query
        BY <3>2, <2>5, <2>7
      <3>. QED
        BY <3>1, <3>2
    <2>9. \A i \in DOMAIN p.up :
             /\ p.up[i].op = "watch"
             /\ p.up[i].key = L[p.up[i].id].key /\ p.up[i].token = L[p.up[i].id].token
      BY <2>4, <2>5, <2>6
    <2>. QED
      BY <1>7, <2>2, <2>3, <2>8, <2>9
  <1>11. \A x \in S : \A q \in U : SendWatchRequest(q, x) \in U
    BY <1>9
  <1>12. FoldSet(LAMBDA t, r : SendWatchRequest(r, t), base, S) \in G[S]
    BY <1>6, <1>8, <1>10, <1>11, SendFold
  <1>13. remote' \in G[S]
    BY <1>2, <1>4, <1>12
  <1>14. /\ remote'.listen = L /\ remote'.resets = {}
         /\ \A i \in DOMAIN remote'.up :
              /\ remote'.up[i].op = "watch"
              /\ remote'.up[i].key = L[remote'.up[i].id].key /\ remote'.up[i].token = L[remote'.up[i].id].token
         /\ Query \in S => \E i \in DOMAIN remote'.up : remote'.up[i].id = Query
    BY <1>7, <1>13
  <1>15. DOMAIN conn.down = {}
    BY <1>3
  <1>16. Resumes(server, remote', conn, view.synced)
    <2>1. SUFFICES ASSUME Watched(remote')
                   PROVE  /\ Asked(server, remote', view.synced) /\ Rewatched(remote', conn)
                          /\ Listed(server, remote', conn, view.synced)
      BY DEF Resumes
    <2>2. L[Query].key = All /\ Complete(server, view.synced, L[Query].token) /\ Query \in S
      BY <1>4, <1>14, <2>1 DEF QInv, Resumes, Asked, Watched
    <2>3. Asked(server, remote', view.synced)
      BY <1>14, <2>2 DEF Asked, Asks
    <2>4. Rewatched(remote', conn)
      BY <1>14, <1>15 DEF Rewatched
    <2>5. ~Silent(remote')
      BY <1>14, <2>2 DEF Silent
    <2>. QED
      BY <2>3, <2>4, <2>5 DEF Listed
  <1>17. Kept' /\ Uncounted'
    BY <1>2, <1>4, <1>14 DEF Kept, Uncounted, QInv, Watched
  <1>. QED
    BY <1>2, <1>16, <1>17 DEF QInv

-----------------------------------------------------------------------------
(* A message is taken                                                      *)

\* The first message has been taken by who collects the query's documents.
LEMMA TellsTaken ==
  ASSUME NEW c \in Conns, c.down # <<>>, NEW sv, NEW B, NEW D, Tells(sv, B, c, 0),
         \A d \in Docs : /\ d \in B /\ ~Drops(Head(c.down), d) => d \in D
                         /\ Adds(Head(c.down), d) => d \in D
  PROVE  Tells(sv, D, Delivered(c), 0)
  <1>1. PICK s, w : s = c.down /\ w = Tail(s)
    OBVIOUS
  <1>2. s \in Seq(Messages) /\ s # <<>> /\ Delivered(c).down = w /\ Delivered(c).watched = c.watched
    BY <1>1 DEF Conns, Delivered
  <1>3. DOMAIN w = 1..(Len(s) - 1) /\ DOMAIN s = 1..Len(s) /\ Len(s) \in Nat /\ Len(w) + 1 = Len(s) /\ Len(s) > 0
        /\ Head(s) = s[1] /\ \A i \in DOMAIN w : i \in Nat /\ i + 1 \in DOMAIN s /\ w[i] = s[i + 1]
    BY <1>1, <1>2, TailFacts
  <1>4. ASSUME NEW p \in Nat, p > 0
        PROVE  Held(B, s, 0, p + 1) \subseteq Held(D, w, 0, p)
    <2>1. ASSUME NEW d \in Docs, Holds(d, B, s, 0, p + 1)
          PROVE  Holds(d, D, w, 0, p)
      <3>1. (d \in B /\ ~Drops(s[1], d) => d \in D) /\ (Adds(s[1], d) => d \in D)
        BY <1>1, <1>3
      <3>. QED
        BY <1>1, <1>2, <1>4, <2>1, <3>1, HoldsTaken
    <2>. QED
      BY <2>1 DEF Held
  <1>5. ASSUME NEW p \in DOMAIN w, w[p].type = "snapshot"
        PROVE  Complete(sv, Held(D, w, 0, p), w[p].ver)
    <2>1. p \in Nat /\ p > 0 /\ p + 1 \in DOMAIN s /\ w[p] = s[p + 1] /\ 0 < p + 1
      BY <1>3
    <2>2. Complete(sv, Held(B, s, 0, p + 1), w[p].ver)
      BY <1>1, <1>5, <2>1, Zenon DEF Tells
    <2>. QED
      BY <1>4, <2>1, <2>2 DEF Complete
  <1>6. Query \in DOMAIN c.watched /\ c.watched[Query].key = All
    BY DEF Tells
  <1>7. Complete(sv, Held(D, w, 0, Len(w) + 1), c.watched[Query].sent)
    <2>1. Complete(sv, Held(B, s, 0, Len(s) + 1), c.watched[Query].sent)
      BY <1>1 DEF Tells
    <2>2. Held(B, s, 0, Len(s) + 1) \subseteq Held(D, w, 0, Len(s))
      BY <1>3, <1>4
    <2>. QED
      BY <1>3, <2>1, <2>2 DEF Complete
  <1>. QED
    BY <1>2, <1>5, <1>6, <1>7, Zenon DEF Tells

\* The first message has been taken, but it is not yet time to collect.
LEMMA TellsLater ==
  ASSUME NEW c \in Conns, c.down # <<>>, NEW sv, NEW B, NEW a \in Nat, Tells(sv, B, c, a + 1)
  PROVE  Tells(sv, B, Delivered(c), a)
  <1>1. PICK s, w : s = c.down /\ w = Tail(s)
    OBVIOUS
  <1>2. s \in Seq(Messages) /\ s # <<>> /\ Delivered(c).down = w /\ Delivered(c).watched = c.watched
    BY <1>1 DEF Conns, Delivered
  <1>3. DOMAIN w = 1..(Len(s) - 1) /\ DOMAIN s = 1..Len(s) /\ Len(s) \in Nat /\ Len(w) + 1 = Len(s) /\ Len(s) > 0
        /\ \A i \in DOMAIN w : i \in Nat /\ i + 1 \in DOMAIN s /\ w[i] = s[i + 1]
    BY <1>1, <1>2, TailFacts
  <1>4. ASSUME NEW p \in Nat
        PROVE  Held(B, s, a + 1, p + 1) \subseteq Held(B, w, a, p)
    <2>1. ASSUME NEW d \in Docs, Holds(d, B, s, a + 1, p + 1)
          PROVE  Holds(d, B, w, a, p)
      BY <1>1, <1>2, <1>4, <2>1, HoldsTail
    <2>. QED
      BY <2>1 DEF Held
  <1>5. ASSUME NEW p \in DOMAIN w, a < p, w[p].type = "snapshot"
        PROVE  Complete(sv, Held(B, w, a, p), w[p].ver)
    <2>1. p \in Nat /\ p + 1 \in DOMAIN s /\ w[p] = s[p + 1] /\ a + 1 < p + 1
      BY <1>3, <1>5
    <2>2. Complete(sv, Held(B, s, a + 1, p + 1), w[p].ver)
      BY <1>1, <1>5, <2>1, Zenon DEF Tells
    <2>. QED
      BY <1>4, <2>1, <2>2 DEF Complete
  <1>6. Query \in DOMAIN c.watched /\ c.watched[Query].key = All
    BY DEF Tells
  <1>7. Complete(sv, Held(B, w, a, Len(w) + 1), c.watched[Query].sent)
    <2>1. Complete(sv, Held(B, s, a + 1, Len(s) + 1), c.watched[Query].sent)
      BY <1>1 DEF Tells
    <2>2. Held(B, s, a + 1, Len(s) + 1) \subseteq Held(B, w, a, Len(s))
      BY <1>3, <1>4
    <2>. QED
      BY <1>3, <2>1, <2>2 DEF Complete
  <1>. QED
    BY <1>2, <1>5, <1>6, <1>7, Zenon DEF Tells

\* A query that is watched again is so without the first message.
LEMMA RewatchedTaken ==
  ASSUME NEW c \in Conns, c.down # <<>>, NEW r, Rewatched(r, c)
  PROVE  Rewatched(r, Delivered(c))
  <1>1. PICK s, w : s = c.down /\ w = Tail(s)
    OBVIOUS
  <1>2. s \in Seq(Messages) /\ s # <<>> /\ Delivered(c).down = w
    BY <1>1 DEF Conns, Delivered
  <1>3. ASSUME NEW i \in DOMAIN w, w[i].type = "removed", w[i].id = Query,
               ~\E j \in DOMAIN r.up : Asks(r.up[j])
        PROVE  \E j \in DOMAIN w : j > i /\ w[j] \in Answers(Query)
    <2>1. i \in Nat /\ i + 1 \in DOMAIN s /\ w[i] = s[i + 1] /\ DOMAIN s = 1..Len(s) /\ Len(s) \in Nat
          /\ DOMAIN w = 1..(Len(s) - 1)
      BY <1>1, <1>2, TailFacts
    <2>2. PICK j \in DOMAIN s : j > i + 1 /\ s[j] \in Answers(Query)
      BY <1>1, <1>3, <2>1, Zenon DEF Rewatched
    <2>3. j - 1 \in DOMAIN w /\ j - 1 > i /\ (j - 1) + 1 = j
      BY <2>1, <2>2
    <2>4. w[j - 1] = s[(j - 1) + 1]
      BY <1>1, <1>2, <2>3, TailFacts, SMTT(40)
    <2>. QED
      BY <2>2, <2>3, <2>4
  <1>. QED
    BY <1>2, <1>3 DEF Rewatched

\* Where to begin is one message nearer.
LEMMA StartsTaken ==
  ASSUME NEW c \in Conns, c.down # <<>>, NEW r, NEW q, State(r, Query).out # 0, State(q, Query).out # 0,
         NEW a \in Starts(q, Delivered(c))
  PROVE  a \in Nat /\ a + 1 \in Starts(r, c)
  <1>1. PICK s, w : s = c.down /\ w = Tail(s)
    OBVIOUS
  <1>2. s \in Seq(Messages) /\ s # <<>> /\ Delivered(c).down = w
    BY <1>1 DEF Conns, Delivered
  <1>3. a \in DOMAIN w /\ w[a].type = "added" /\ w[a].id = Query
        /\ \A b \in DOMAIN w : b > a => w[b] \notin Answers(Query)
    BY <1>2 DEF Starts
  <1>4. a \in Nat /\ a + 1 \in DOMAIN s /\ w[a] = s[a + 1] /\ DOMAIN s = 1..Len(s) /\ Len(s) \in Nat
        /\ DOMAIN w = 1..(Len(s) - 1)
    BY <1>1, <1>2, <1>3, TailFacts
  <1>5. ASSUME NEW b \in DOMAIN s, b > a + 1
        PROVE  s[b] \notin Answers(Query)
    <2>1. b - 1 \in DOMAIN w /\ b - 1 > a /\ (b - 1) + 1 = b
      BY <1>4, <1>5
    <2>2. w[b - 1] = s[(b - 1) + 1]
      BY <1>1, <1>2, <2>1, TailFacts
    <2>. QED
      BY <1>3, <2>1, <2>2
  <1>. QED
    BY <1>1, <1>3, <1>4, <1>5 DEF Starts

\* What is asked and answered about the query is the same in q as in r.
Apart(q, r) == q.open = r.open /\ SameListen(q, r) /\ Continues(q, r)

\* D is B after the message m.
Taking(B, D, m) ==
    \A d \in Docs : /\ d \in B /\ ~Drops(m, d) => d \in D
                    /\ Adds(m, d) => d \in D

\* A message after which the query waits for as many answers as before.
LEMMA TakenQuery ==
  ASSUME NEW c \in Conns, c.down # <<>>, NEW r, NEW q, Apart(q, r), NEW sv, NEW synced,
         Resumes(sv, r, c, synced), Query \in r.resets => Query \in q.resets,
         State(q, Query).out = State(r, Query).out,
         State(r, Query).out = 0 /\ Query \notin q.resets
            => Taking(Base(r, synced), Base(q, synced), Head(c.down)),
         State(r, Query).out # 0 => Base(q, synced) = Base(r, synced)
  PROVE  Resumes(sv, q, Delivered(c), synced)
  <1>1. SUFFICES ASSUME Watched(q)
                 PROVE  /\ Asked(sv, q, synced) /\ Rewatched(q, Delivered(c))
                        /\ Listed(sv, q, Delivered(c), synced)
    BY DEF Resumes
  <1>2. Asked(sv, r, synced) /\ Rewatched(r, c) /\ Listed(sv, r, c, synced)
    BY <1>1 DEF Resumes, Apart, SameListen
  <1>3. Asked(sv, q, synced)
    BY <1>1, <1>2, AskedSame DEF Apart, SameListen
  <1>4. Rewatched(q, Delivered(c))
    BY <1>2, RewatchedSame, RewatchedTaken DEF Apart
  <1>5. Listed(sv, q, Delivered(c), synced)
    <2>1. SUFFICES ASSUME q.open, Query \notin q.resets, Silent(q), NEW a \in Starts(q, Delivered(c))
                   PROVE  Tells(sv, Base(q, synced), Delivered(c), a)
      BY DEF Listed
    <2>2. r.open /\ Query \notin r.resets /\ Silent(r)
      BY <2>1, ContinuesFacts DEF Apart
    <2>3. \A b \in Starts(r, c) : Tells(sv, Base(r, synced), c, b)
      BY <1>2, <2>2 DEF Listed
    <2>4. CASE State(r, Query).out = 0
      <3>1. a = 0 /\ 0 \in Starts(r, c)
        BY <2>1, <2>4 DEF Starts
      <3>2. Tells(sv, Base(r, synced), c, 0)
        BY <2>3, <3>1
      <3>. QED
        BY <2>1, <2>4, <3>1, <3>2, TellsTaken DEF Taking
    <2>5. CASE State(r, Query).out # 0
      <3>1. a \in Nat /\ a + 1 \in Starts(r, c)
        BY <2>1, <2>5, StartsTaken
      <3>2. Tells(sv, Base(r, synced), c, a + 1)
        BY <2>3, <3>1
      <3>. QED
        BY <2>5, <3>1, <3>2, TellsLater
    <2>. QED
      BY <2>4, <2>5
  <1>. QED
    BY <1>3, <1>4, <1>5

\* A message that says nothing of the query, and a client that is for it the same.
LEMMA TakenElsewhere ==
  ASSUME NEW c \in Conns, c.down # <<>>, NEW r, NEW q, SameQuery(q, r), NEW sv, NEW synced,
         Resumes(sv, r, c, synced), \A d \in Docs : ~Adds(Head(c.down), d)
  PROVE  Resumes(sv, q, Delivered(c), synced)
  <1>1. Base(q, synced) = Base(r, synced) /\ Apart(q, r) /\ q.resets = r.resets
        /\ State(q, Query).out = State(r, Query).out
    BY Zenon DEF SameQuery, Base, Apart
  <1>2. Taking(Base(r, synced), Base(q, synced), Head(c.down))
    BY <1>1 DEF Taking
  <1>. QED
    BY <1>1, <1>2, TakenQuery

\* A document is in the base when it is known and not removed, or added.
LEMMA MarkingFacts ==
  ASSUME NEW st, NEW synced, NEW d
  PROVE  d \in Marking(st, synced) <=>
           IF d \in DOMAIN st.changes
           THEN st.changes[d] # "removed" /\ (d \in synced \/ st.changes[d] = "added")
           ELSE d \in synced
  BY DEF Marking, Marked

\* What a change of the document d makes of the base.
LEMMA ChangedMarking ==
  ASSUME NEW r \in Remotes, view.synced \subseteq Docs, Resolving(r), NEW d \in Docs, NEW e \in BOOLEAN
  PROVE  /\ e => d \in Marking(ChangeDocument(r, Query, d, e), view.synced)
         /\ \A x : x # d => (x \in Marking(ChangeDocument(r, Query, d, e), view.synced)
                               <=> x \in Base(r, view.synced))
         /\ ChangeDocument(r, Query, d, e).out = State(r, Query).out
  <1>1. PICK st, sp : st = State(r, Query) /\ sp = ChangeDocument(r, Query, d, e)
    OBVIOUS
  <1>2. st \in States /\ st.changes \in Maps(Docs, Kinds)
    BY <1>1, StateTyped DEF States
  <1>3. RemoteKeys(r, Query) = view.synced
    <2>1. Query \notin DOMAIN r.resolutions
      BY DEF Resolving
    <2>. QED
      BY <2>1 DEF RemoteKeys
  <1>5. PICK ch : ch = IF e THEN With(st.changes, d, IF d \in view.synced THEN "modified" ELSE "added")
                       ELSE IF d \in view.synced THEN With(st.changes, d, "removed") ELSE Without(st.changes, d)
    OBVIOUS
  <1>6. sp = [st EXCEPT !.dirty = TRUE, !.changes = ch]
    BY <1>1, <1>2, <1>3, <1>5 DEF ChangeDocument, States
  <1>7. sp.changes = ch /\ sp.out = st.out
    BY <1>2, <1>6 DEF States
  <1>8. \A x : x # d => /\ x \in DOMAIN ch <=> x \in DOMAIN st.changes
                        /\ x \in DOMAIN ch => ch[x] = st.changes[x]
    <2>1. \A k \in Kinds : Maplet(With(st.changes, d, k), st.changes, d, k)
      BY <1>2, WithFacts
    <2>2. Dropping(Without(st.changes, d), st.changes, d)
      BY <1>2, WithoutFacts
    <2>3. \/ \E k \in Kinds : Maplet(ch, st.changes, d, k)
          \/ Dropping(ch, st.changes, d)
      BY <1>5, <2>1, <2>2 DEF Kinds
    <2>. QED
      BY <2>3 DEF Maplet, Dropping
  <1>9. e => d \in DOMAIN ch /\ ch[d] = IF d \in view.synced THEN "modified" ELSE "added"
    <2>1. \A k \in Kinds : Maplet(With(st.changes, d, k), st.changes, d, k)
      BY <1>2, WithFacts
    <2>2. PICK k \in Kinds : k = IF d \in view.synced THEN "modified" ELSE "added"
      BY DEF Kinds
    <2>3. e => ch = With(st.changes, d, k)
      BY <1>5, <2>2
    <2>. QED
      BY <2>1, <2>2, <2>3 DEF Maplet
  <1>10. e => d \in Marking(sp, view.synced)
    <2>1. ASSUME e
          PROVE  d \in Marking(sp, view.synced)
      <3>1. d \in DOMAIN sp.changes /\ sp.changes[d] = IF d \in view.synced THEN "modified" ELSE "added"
        BY <2>1, <1>7, <1>9
      <3>2. sp.changes[d] # "removed" /\ (d \in view.synced \/ sp.changes[d] = "added")
        BY <3>1
      <3>. QED
        BY <3>1, <3>2, MarkingFacts
    <2>. QED
      BY <2>1
  <1>11. \A x : x # d => (x \in Marking(sp, view.synced) <=> x \in Marking(st, view.synced))
    BY <1>7, <1>8, MarkingFacts
  <1>. QED
    BY <1>1, <1>7, <1>10, <1>11 DEF Base

\* The states of the targets after a document message.
LEMMA DocumentChangeShape ==
  ASSUME NEW r \in Remotes, NEW ts, NEW d, NEW doc
  PROVE  /\ HandleDocumentChange(r, ts, d, doc).resets = r.resets
         /\ HandleDocumentChange(r, ts, d, doc).enqueued = r.enqueued
         /\ \A t : State(HandleDocumentChange(r, ts, d, doc), t) =
                     IF t \in ts /\ IsActive(r, t) THEN ChangeDocument(r, t, d, doc.exists) ELSE State(r, t)
  <1>1. PICK active : active = {t \in ts : IsActive(r, t)}
    OBVIOUS
  <1>2. CASE active = {}
    <2>1. HandleDocumentChange(r, ts, d, doc) = r
      BY <1>1, <1>2 DEF HandleDocumentChange
    <2>2. \A t : ~(t \in ts /\ IsActive(r, t))
      BY <1>1, <1>2
    <2>. QED
      BY <2>1, <2>2
  <1>3. CASE active # {}
    <2>1. PICK us, tg : /\ us = With(r.updates, d, doc)
                        /\ tg = [t \in DOMAIN r.targets \cup active |->
                                   IF t \in active THEN ChangeDocument(r, t, d, doc.exists) ELSE r.targets[t]]
      OBVIOUS
    <2>2. PICK q : q = [r EXCEPT !.updates = us, !.targets = tg]
      OBVIOUS
    <2>3. HandleDocumentChange(r, ts, d, doc) = q
      BY <1>1, <1>3, <2>1, <2>2 DEF HandleDocumentChange
    <2>4. q.resets = r.resets /\ q.targets = tg /\ q.enqueued = r.enqueued
      BY <2>2 DEF Remotes
    <2>5. \A t : State(q, t) = IF t \in active THEN ChangeDocument(r, t, d, doc.exists) ELSE State(r, t)
      BY <2>1, <2>4 DEF State
    <2>. QED
      BY <1>1, <2>3, <2>4, <2>5
  <1>. QED
    BY <1>2, <1>3

\* The aggregator changes, the listens and the requests do not.
LEMMA SameListensApart ==
  ASSUME NEW q, NEW r, SameListens(q, r)
  PROVE  /\ Apart(q, r)
         /\ q.resets = r.resets /\ State(q, Query) = State(r, Query) => SameQuery(q, r)
  <1>1. Continues(q, r)
    BY DEF Continues, SameListens
  <1>2. SameListen(q, r)
    BY DEF SameListen, Watched, SameListens
  <1>. QED
    BY <1>1, <1>2 DEF SameQuery, Apart, SameListens

\* The state of one target is written.
LEMMA SetTargetQuery ==
  ASSUME NEW r \in Remotes, NEW t \in Nat, NEW st \in States
  PROVE  /\ Apart(SetTarget(r, t, st), r) /\ SetTarget(r, t, st).resets = r.resets
         /\ t # Query => SameQuery(SetTarget(r, t, st), r)
         /\ State(SetTarget(r, t, st), t) = st
  <1>1. TargetSet(SetTarget(r, t, st), r, t, st)
    BY SetTargetFields
  <1>2. PICK q : q = SetTarget(r, t, st)
    OBVIOUS
  <1>3. TargetSet(q, r, t, st)
    BY <1>1, <1>2
  <1>4. SameListens(q, r) /\ q.resets = r.resets /\ (t # Query => State(q, Query) = State(r, Query)) /\ State(q, t) = st
    BY <1>3, Zenon DEF TargetSet
  <1>5. Apart(q, r) /\ (t # Query => SameQuery(q, r))
    BY <1>4, SameListensApart
  <1>. QED
    BY <1>2, <1>4, <1>5

\* The message m is taken.
Coming(m) == IInv /\ conn.down # <<>> /\ m = Head(conn.down)
Arriving(m) == IInv /\ QInv /\ conn.down # <<>> /\ m = Head(conn.down)

\* Who takes it and what it is.
LEMMA ComingFacts ==
  ASSUME NEW m, Coming(m)
  PROVE  /\ conn \in Conns /\ remote \in Remotes /\ remote.open /\ Wired(remote, conn)
         /\ Resolving(remote) /\ remote \in Good(conn, view.synced)
         /\ view.synced \subseteq Docs /\ m \in Messages /\ m \in FitMessages(remote)
         /\ Delivered(conn) \in Conns
  <1>1. conn \in Conns /\ remote \in Good(conn, view.synced) /\ view \in Views
    BY DEF Coming, IInv
  <1>2. remote \in Remotes /\ Wired(remote, conn) /\ Resolving(remote) /\ view.synced \subseteq Docs
    BY <1>1 DEF Good, Sound, Wired, Views
  <1>3. m \in Messages /\ m \in FitMessages(remote) /\ remote.open /\ Delivered(conn) \in Conns
    BY <1>1, <1>2, DeliveredWired DEF Coming
  <1>. QED
    BY <1>1, <1>2, <1>3

\* The parts of what is known.
LEMMA ArrivingFacts ==
  ASSUME NEW m, Arriving(m)
  PROVE  /\ conn \in Conns /\ remote \in Remotes /\ remote.open /\ Wired(remote, conn)
         /\ Resolving(remote) /\ remote \in Good(conn, view.synced)
         /\ view.synced \subseteq Docs /\ m \in Messages /\ m \in FitMessages(remote)
         /\ Delivered(conn) \in Conns
         /\ Resumes(server, remote, conn, view.synced)
  <1>1. Coming(m)
    BY DEF Arriving, Coming
  <1>. QED
    BY <1>1, ComingFacts DEF Arriving, QInv

\* A client that does not listen to its query has nothing to know.
LEMMA NotActive ==
  ASSUME NEW q, NEW r, Apart(q, r), NEW sv, NEW c, NEW synced,
         ~IsActive(r, Query), State(r, Query).out = 0
  PROVE  Resumes(sv, q, c, synced)
  BY DEF Apart, SameListen, Watched, IsActive, Resumes

\* A document message.
LEMMA DocumentQuery ==
  ASSUME NEW m, Arriving(m), m.type = "document"
  PROVE  /\ Resumes(server, HandleDocumentChange(remote, m.ids, m.key, m.doc), Delivered(conn), view.synced)
         /\ HandleDocumentChange(remote, m.ids, m.key, m.doc).resets = remote.resets
  <1>1. /\ conn \in Conns /\ remote \in Remotes /\ remote.open /\ Resolving(remote)
        /\ remote \in Good(conn, view.synced) /\ view.synced \subseteq Docs /\ m \in Messages
        /\ m \in FitMessages(remote) /\ Resumes(server, remote, conn, view.synced)
    BY ArrivingFacts
  <1>2. PICK ids, d, doc : ids = m.ids /\ d = m.key /\ doc = m.doc
    OBVIOUS
  <1>3. d \in Docs /\ ids \subseteq Nat /\ doc \in Versions
    BY <1>1, <1>2, MessageFields
  <1>4. ASSUME NEW t \in ids, IsActive(remote, t), t # Query
        PROVE  remote.listen[t].key = d
    <2>1. Suits(remote, t, d)
      BY <1>1, <1>2 DEF FitMessages
    <2>2. t \in DOMAIN remote.resolutions /\ remote.listen[t].key = remote.resolutions[t].key
      BY <1>1, <1>4 DEF Resolving, IsActive
    <2>. QED
      BY <2>1, <2>2 DEF Suits
  <1>5. PICK q : q = HandleDocumentChange(remote, ids, d, doc)
    OBVIOUS
  <1>6. SameListens(q, remote)
    <2>1. SameListens(HandleDocumentChange(remote, ids, d, doc), remote)
      BY <1>1, <1>3, <1>4, HandleDocumentChangeSound
    <2>. QED
      BY <2>1, <1>5
  <1>7. /\ q.resets = remote.resets
        /\ State(q, Query) = IF Query \in ids /\ IsActive(remote, Query)
                             THEN ChangeDocument(remote, Query, d, doc.exists) ELSE State(remote, Query)
    BY <1>1, <1>5, DocumentChangeShape
  <1>8. Apart(q, remote) /\ (State(q, Query) = State(remote, Query) => SameQuery(q, remote))
    BY <1>6, <1>7, SameListensApart
  <1>9. conn.down # <<>> /\ m = Head(conn.down)
    BY DEF Arriving
  <1>10. CASE Query \notin ids
    <2>1. SameQuery(q, remote)
      BY <1>7, <1>8, <1>10
    <2>2. \A x \in Docs : ~Adds(m, x)
      BY <1>2, <1>10 DEF Adds
    <2>. QED
      BY <1>1, <1>2, <1>5, <1>7, <1>9, <2>1, <2>2, TakenElsewhere
  <1>11. CASE Query \in ids /\ ~IsActive(remote, Query)
    <2>1. SameQuery(q, remote)
      BY <1>7, <1>8, <1>11
    <2>2. CASE State(remote, Query).out = 0
      BY <1>2, <1>5, <1>7, <1>8, <1>11, <2>2, NotActive
    <2>3. CASE State(remote, Query).out # 0
      <3>1. State(q, Query).out = State(remote, Query).out /\ Base(q, view.synced) = Base(remote, view.synced)
        BY <2>1 DEF SameQuery, Base
      <3>. QED
        BY <1>1, <1>2, <1>5, <1>7, <1>8, <1>9, <2>3, <3>1, TakenQuery
    <2>. QED
      BY <2>2, <2>3
  <1>12. CASE Query \in ids /\ IsActive(remote, Query)
    <2>1. PICK e \in BOOLEAN : e = doc.exists
      BY <1>3 DEF Versions
    <2>2. State(q, Query) = ChangeDocument(remote, Query, d, e)
      BY <1>7, <1>12, <2>1
    <2>3. /\ e => d \in Base(q, view.synced)
          /\ \A x : x # d => (x \in Base(q, view.synced) <=> x \in Base(remote, view.synced))
          /\ State(q, Query).out = State(remote, Query).out
      <3>1. /\ e => d \in Marking(ChangeDocument(remote, Query, d, e), view.synced)
            /\ \A x : x # d => (x \in Marking(ChangeDocument(remote, Query, d, e), view.synced)
                               <=> x \in Base(remote, view.synced))
            /\ ChangeDocument(remote, Query, d, e).out = State(remote, Query).out
        BY <1>1, <1>3, ChangedMarking
      <3>2. Base(q, view.synced) = Marking(ChangeDocument(remote, Query, d, e), view.synced)
        BY <2>2 DEF Base
      <3>. QED
        BY <3>1, <3>2, <2>2
    <2>4. Taking(Base(remote, view.synced), Base(q, view.synced), m)
      <3>1. \A x : Adds(m, x) => x = d /\ e
        BY <1>2, <2>1 DEF Adds
      <3>2. Drops(m, d) <=> ~e
        BY <1>2, <1>12, <2>1 DEF Drops
      <3>. QED
        BY <2>3, <3>1, <3>2 DEF Taking
    <2>5. State(remote, Query).out = 0
      BY <1>12 DEF IsActive
    <2>. QED
      BY <1>1, <1>2, <1>5, <1>7, <1>8, <1>9, <2>3, <2>4, <2>5, TakenQuery
  <1>. QED
    BY <1>10, <1>11, <1>12

\* A target is current: what is marked stays.
LEMMA CurrentQuery ==
  ASSUME NEW m, Arriving(m), m.type = "current"
  PROVE  /\ Resumes(server, TargetCurrent(remote, m.id, m.token), Delivered(conn), view.synced)
         /\ TargetCurrent(remote, m.id, m.token).resets = remote.resets
  <1>1. /\ conn \in Conns /\ remote \in Remotes /\ m \in Messages
        /\ Resumes(server, remote, conn, view.synced)
    BY ArrivingFacts
  <1>2. PICK t, token : t = m.id /\ token = m.token
    OBVIOUS
  <1>3. t \in Nat /\ token \in Tokens
    BY <1>1, <1>2, MessageFields
  <1>4. \A d \in Docs : ~Adds(m, d) /\ ~Drops(m, d)
    BY DEF Adds, Drops
  <1>5. conn.down # <<>> /\ m = Head(conn.down)
    BY DEF Arriving
  <1>6. CASE ~IsActive(remote, t)
    <2>1. TargetCurrent(remote, t, token) = remote
      BY <1>6 DEF TargetCurrent
    <2>2. SameQuery(remote, remote)
      BY SameQueryFields
    <2>. QED
      BY <1>1, <1>2, <1>4, <1>5, <2>1, <2>2, TakenElsewhere
  <1>7. CASE IsActive(remote, t)
    <2>1. PICK st : st = [State(remote, t) EXCEPT !.current = TRUE, !.dirty = TRUE, !.token = token]
      OBVIOUS
    <2>2. State(remote, t) \in States
      BY <1>1, StateTyped
    <2>3. st \in States /\ st.out = State(remote, t).out /\ st.changes = State(remote, t).changes
      BY <1>3, <2>1, <2>2 DEF States
    <2>4. PICK q : q = SetTarget(remote, t, st)
      OBVIOUS
    <2>5. /\ Apart(q, remote) /\ q.resets = remote.resets /\ (t # Query => SameQuery(q, remote))
          /\ State(q, t) = st
      BY <1>1, <1>3, <2>3, <2>4, SetTargetQuery
    <2>6. TargetCurrent(remote, t, token) = q
      BY <1>7, <2>1, <2>4 DEF TargetCurrent
    <2>7. CASE t # Query
      BY <1>1, <1>2, <1>4, <1>5, <2>5, <2>6, <2>7, TakenElsewhere
    <2>8. CASE t = Query
      <3>1. State(q, Query).out = State(remote, Query).out /\ Base(q, view.synced) = Base(remote, view.synced)
        BY <2>3, <2>5, <2>8 DEF Base, Marking, Marked
      <3>2. Taking(Base(remote, view.synced), Base(q, view.synced), m)
        BY <1>4, <3>1 DEF Taking
      <3>. QED
        BY <1>1, <1>2, <1>5, <2>5, <2>6, <3>1, <3>2, TakenQuery
    <2>. QED
      BY <2>7, <2>8
  <1>. QED
    BY <1>6, <1>7

\* What a reset makes of a target.
LEMMA ResetShape ==
  ASSUME NEW m, Arriving(m), NEW t \in Nat, IsActive(remote, t)
  PROVE  /\ Apart(ResetTarget(remote, t), remote) /\ ResetTarget(remote, t).resets = remote.resets
         /\ t # Query => SameQuery(ResetTarget(remote, t), remote)
         /\ State(ResetTarget(remote, t), t).out = 0
         /\ ResetTarget(remote, t) \in Remotes
  <1>1. remote \in Remotes /\ view.synced \subseteq Docs
    BY ArrivingFacts
  <1>2. PICK keys, st : /\ keys = RemoteKeys(remote, t)
                        /\ st = [Blank EXCEPT !.changes = [d \in keys |-> "removed"], !.dirty = keys # {}]
    OBVIOUS
  <1>3. keys \subseteq Docs
    BY <1>1, <1>2, RemoteKeysKnown
  <1>4. PICK ch : ch = [d \in keys |-> "removed"]
    OBVIOUS
  <1>5. ch \in Maps(Docs, Kinds)
    BY <1>3, <1>4 DEF Maps, Kinds
  <1>6. st = [Blank EXCEPT !.changes = ch, !.dirty = keys # {}]
    BY <1>2, <1>4
  <1>7. st \in States /\ st.out = 0
    <2>1. (keys # {}) \in BOOLEAN
      OBVIOUS
    <2>2. PICK b \in BOOLEAN : b = (keys # {})
      BY <2>1, Zenon
    <2>3. st = [Blank EXCEPT !.changes = ch, !.dirty = b]
      BY <1>6, <2>2, Zenon
    <2>. QED
      BY <1>5, <2>3, BlankState DEF States
  <1>8. ResetTarget(remote, t) = SetTarget(remote, t, st)
    BY <1>2 DEF ResetTarget
  <1>9. /\ Apart(SetTarget(remote, t, st), remote) /\ SetTarget(remote, t, st).resets = remote.resets
        /\ t # Query => SameQuery(SetTarget(remote, t, st), remote)
        /\ State(SetTarget(remote, t, st), t) = st
    BY <1>1, <1>7, SetTargetQuery
  <1>10. SetTarget(remote, t, st) \in Remotes
    BY <1>1, <1>7, SetTargetFields
  <1>. QED
    BY <1>7, <1>8, <1>9, <1>10

\* A target is reset: the query has nothing, and is told everything.
LEMMA ResetQuery ==
  ASSUME NEW m, Arriving(m), m.type = "reset"
  PROVE  /\ Resumes(server, TargetReset(remote, m.id), Delivered(conn), view.synced)
         /\ TargetReset(remote, m.id).resets = remote.resets
  <1>1. /\ conn \in Conns /\ remote \in Remotes /\ m \in Messages
        /\ Resumes(server, remote, conn, view.synced)
    BY ArrivingFacts
  <1>2. PICK t : t = m.id
    OBVIOUS
  <1>3. t \in Nat
    BY <1>1, <1>2, MessageFields
  <1>4. \A d \in Docs : ~Adds(m, d) /\ (t = Query => Drops(m, d))
    BY <1>2 DEF Adds, Drops
  <1>5. conn.down # <<>> /\ m = Head(conn.down)
    BY DEF Arriving
  <1>6. CASE ~IsActive(remote, t)
    <2>1. TargetReset(remote, t) = remote
      BY <1>6 DEF TargetReset
    <2>2. SameQuery(remote, remote)
      BY SameQueryFields
    <2>. QED
      BY <1>1, <1>2, <1>4, <1>5, <2>1, <2>2, TakenElsewhere
  <1>7. CASE IsActive(remote, t)
    <2>1. PICK q : q = ResetTarget(remote, t)
      OBVIOUS
    <2>2. /\ Apart(q, remote) /\ q.resets = remote.resets /\ (t # Query => SameQuery(q, remote))
          /\ State(q, t).out = 0
      BY <1>3, <1>7, <2>1, ResetShape
    <2>3. TargetReset(remote, t) = q
      BY <1>7, <2>1 DEF TargetReset
    <2>4. CASE t # Query
      BY <1>1, <1>2, <1>4, <1>5, <2>2, <2>3, <2>4, TakenElsewhere
    <2>5. CASE t = Query
      <3>1. State(remote, Query).out = 0 /\ State(q, Query).out = 0
        BY <1>7, <2>2, <2>5 DEF IsActive
      <3>2. Taking(Base(remote, view.synced), Base(q, view.synced), m)
        BY <1>4, <2>5 DEF Taking
      <3>. QED
        BY <1>1, <1>2, <1>5, <2>2, <2>3, <3>1, <3>2, TakenQuery
    <2>. QED
      BY <2>4, <2>5
  <1>. QED
    BY <1>6, <1>7

\* An existence filter: a query whose documents do not add up is to be watched again.
LEMMA FilterQuery ==
  ASSUME NEW m, Arriving(m), m.type = "filter"
  PROVE  /\ Resumes(server, HandleExistenceFilter(remote, m.id, m.count), Delivered(conn), view.synced)
         /\ \/ HandleExistenceFilter(remote, m.id, m.count).resets = remote.resets
            \/ m.id = Query /\ Watched(remote)
  <1>1. /\ conn \in Conns /\ remote \in Remotes /\ remote.open /\ Resolving(remote)
        /\ remote \in Good(conn, view.synced) /\ view.synced \subseteq Docs /\ m \in Messages
        /\ m \in FitMessages(remote) /\ Resumes(server, remote, conn, view.synced)
    BY ArrivingFacts
  <1>2. PICK t, count : t = m.id /\ count = m.count
    OBVIOUS
  <1>3. t \in Nat
    BY <1>1, <1>2, MessageFields
  <1>4. \A d \in Docs : ~Adds(m, d) /\ ~Drops(m, d)
    BY DEF Adds, Drops
  <1>5. conn.down # <<>> /\ m = Head(conn.down)
    BY DEF Arriving
  <1>6. PICK q : q = HandleExistenceFilter(remote, t, count)
    OBVIOUS
  <1>7. ASSUME SameQuery(q, remote)
        PROVE  Resumes(server, q, Delivered(conn), view.synced) /\ q.resets = remote.resets
    <2>1. q.resets = remote.resets
      BY <1>7 DEF SameQuery
    <2>2. Resumes(server, q, Delivered(conn), view.synced)
      BY <1>1, <1>4, <1>5, <1>7, TakenElsewhere
    <2>. QED
      BY <2>1, <2>2
  <1>8. SameQuery(remote, remote)
    BY SameQueryFields
  <1>9. CASE ~IsActive(remote, t)
    <2>1. q = remote
      BY <1>6, <1>9 DEF HandleExistenceFilter
    <2>. QED
      BY <1>2, <1>6, <1>7, <1>8, <2>1
  <1>10. CASE IsActive(remote, t) /\ t # Query
    <2>1. CASE count = 0
      <3>1. t \in DOMAIN remote.resolutions /\ remote.listen[t].key \in Docs
        BY <1>1, <1>10, ActiveFacts
      <3>2. PICK d : d = remote.listen[t].key
        OBVIOUS
      <3>3. None \in Versions /\ d \in Docs
        BY <3>1, <3>2, TargetsAssumption DEF None, Versions
      <3>4. q = HandleDocumentChange(remote, {t}, d, None)
        BY <1>6, <1>10, <2>1, <3>2 DEF HandleExistenceFilter
      <3>5. SameListens(q, remote)
        <4>1. \A u \in {t} : IsActive(remote, u) /\ u # Query => remote.listen[u].key = d
          BY <3>2
        <4>2. SameListens(HandleDocumentChange(remote, {t}, d, None), remote)
          BY <1>1, <3>3, <4>1, HandleDocumentChangeSound
        <4>. QED
          BY <3>4, <4>2
      <3>6. q.resets = remote.resets /\ State(q, Query) = State(remote, Query)
        BY <1>1, <1>10, <3>4, DocumentChangeShape
      <3>7. SameQuery(q, remote)
        BY <3>5, <3>6, SameListensApart
      <3>. QED
        BY <1>2, <1>6, <1>7, <3>7
    <2>2. CASE count # 0
      <3>1. q = [remote EXCEPT !.ok = @ /\ count = 1]
        BY <1>6, <1>10, <2>2 DEF HandleExistenceFilter
      <3>2. q.open = remote.open /\ q.resets = remote.resets /\ q.targets = remote.targets
            /\ q.up = remote.up /\ q.listen = remote.listen
        BY <1>1, <3>1 DEF Remotes
      <3>3. SameQuery(q, remote)
        BY <3>2, SameQueryFields, Zenon
      <3>. QED
        BY <1>2, <1>6, <1>7, <3>3
    <2>. QED
      BY <2>1, <2>2
  <1>11. CASE IsActive(remote, t) /\ t = Query
    <2>1. CASE CurrentCount(remote, t) = count
      <3>1. q = remote
        BY <1>6, <1>11, <2>1 DEF HandleExistenceFilter
      <3>. QED
        BY <1>2, <1>6, <1>7, <1>8, <3>1
    <2>2. CASE CurrentCount(remote, t) # count
      <3>1. PICK p : p = ResetTarget(remote, t)
        OBVIOUS
      <3>2. Apart(p, remote) /\ State(p, Query).out = 0 /\ p \in Remotes
        BY <1>3, <1>11, <3>1, ResetShape
      <3>3. q = [p EXCEPT !.resets = @ \cup {t}]
        BY <1>6, <1>11, <2>2, <3>1 DEF HandleExistenceFilter
      <3>4. /\ q.open = p.open /\ q.listen = p.listen /\ q.up = p.up /\ q.targets = p.targets
            /\ q.resets = p.resets \cup {t}
        BY <3>2, <3>3 DEF Remotes
      <3>5. Apart(q, remote) /\ State(q, Query).out = 0 /\ Query \in q.resets
        BY <1>11, <3>2, <3>4 DEF Apart, SameListen, Watched, Continues, State
      <3>6. State(remote, Query).out = 0 /\ Watched(remote)
        BY <1>11 DEF IsActive, Watched
      <3>7. Resumes(server, q, Delivered(conn), view.synced)
        BY <1>1, <1>5, <3>5, <3>6, TakenQuery
      <3>. QED
        BY <1>2, <1>6, <1>11, <3>6, <3>7
    <2>. QED
      BY <2>1, <2>2
  <1>. QED
    BY <1>9, <1>10, <1>11

\* The query is answered: when nothing more is awaited, the documents are collected
\* from here on, unless the target is to be watched again.
LEMMA AnswerQuery ==
  ASSUME NEW m, Arriving(m), m.type \in {"added", "removed"}, m.id = Query,
         NEW q \in Good(Delivered(conn), view.synced), Apart(q, remote), q.resets = remote.resets,
         Watched(remote) => Base(q, view.synced) = Base(remote, view.synced),
         State(remote, Query).out # 0
  PROVE  Resumes(server, q, Delivered(conn), view.synced)
  <1>1. /\ conn \in Conns /\ Delivered(conn) \in Conns /\ Resumes(server, remote, conn, view.synced)
        /\ m \in Messages /\ q \in Remotes
    BY ArrivingFacts DEF Good
  <1>2. conn.down # <<>> /\ m = Head(conn.down)
    BY DEF Arriving
  <1>3. PICK c, synced, r : c = conn /\ synced = view.synced /\ r = remote
    OBVIOUS
  <1>4. SUFFICES ASSUME Watched(q)
                 PROVE  /\ Asked(server, q, synced) /\ Rewatched(q, Delivered(c))
                        /\ Listed(server, q, Delivered(c), synced)
    BY <1>3 DEF Resumes
  <1>5. Asked(server, r, synced) /\ Rewatched(r, c) /\ Listed(server, r, c, synced) /\ Watched(r)
    BY <1>1, <1>3, <1>4 DEF Resumes, Apart, SameListen
  <1>6. Asked(server, q, synced)
    BY <1>3, <1>4, <1>5, AskedSame DEF Apart, SameListen
  <1>7. Rewatched(q, Delivered(c))
    BY <1>1, <1>2, <1>3, <1>5, RewatchedSame, RewatchedTaken DEF Apart
  <1>8. PICK s, w : s = c.down /\ w = Tail(s)
    OBVIOUS
  <1>9. s \in Seq(Messages) /\ s # <<>> /\ Delivered(c).down = w
    BY <1>1, <1>2, <1>3, <1>8 DEF Conns, Delivered
  <1>10. State(q, Query).out = 0 => \A i \in DOMAIN w : w[i] \notin Answers(Query)
    <2>1. Owed(q, Delivered(c)) /\ Query \in Nat
      BY <1>3 DEF Good, Sound, Query
    <2>2. State(q, Query).out = Pending(q, Delivered(c), Query)
      BY <1>4, <2>1 DEF Owed, Watched
    <2>3. Pending(q, Delivered(c), Query) = 0 => \A i \in DOMAIN Delivered(c).down : Delivered(c).down[i] \notin Answers(Query)
      BY <1>1, <1>3, PendingFacts
    <2>. QED
      BY <1>9, <2>2, <2>3
  <1>11. \A b \in DOMAIN s : b > 1 => b - 1 \in DOMAIN w /\ w[b - 1] = s[b]
    <2>1. ASSUME NEW b \in DOMAIN s, b > 1
          PROVE  b - 1 \in DOMAIN w /\ w[b - 1] = s[b]
      <3>1. DOMAIN s = 1..Len(s) /\ Len(s) \in Nat /\ DOMAIN w = 1..(Len(s) - 1)
        BY <1>8, <1>9
      <3>2. b - 1 \in DOMAIN w /\ (b - 1) + 1 = b
        BY <2>1, <3>1
      <3>3. w[b - 1] = s[(b - 1) + 1]
        BY <1>8, <1>9, <3>2, TailFacts
      <3>. QED
        BY <3>2, <3>3
    <2>. QED
      BY <2>1
  <1>12. 1 \in DOMAIN s /\ s[1] = m
    BY <1>2, <1>3, <1>8, <1>9
  <1>13. Listed(server, q, Delivered(c), synced)
    <2>1. SUFFICES ASSUME q.open, Query \notin q.resets, Silent(q), NEW a \in Starts(q, Delivered(c))
                   PROVE  Tells(server, Base(q, synced), Delivered(c), a)
      BY DEF Listed
    <2>2. r.open /\ Query \notin r.resets /\ Silent(r)
      BY <1>3, <2>1, ContinuesFacts DEF Apart
    <2>3. \A b \in Starts(r, c) : Tells(server, Base(r, synced), c, b)
      BY <1>5, <2>2 DEF Listed
    <2>4. Base(q, synced) = Base(r, synced)
      BY <1>3, <1>5
    <2>5. CASE State(q, Query).out = 0
      <3>1. a = 0
        BY <2>1, <2>5 DEF Starts
      <3>2. \A b \in DOMAIN s : b > 1 => s[b] \notin Answers(Query)
        BY <1>10, <1>11, <2>5
      <3>3. CASE m.type = "added"
        <4>1. 1 \in Starts(r, c)
          BY <1>3, <1>8, <1>12, <3>2, <3>3 DEF Starts
        <4>2. Tells(server, Base(r, synced), c, 0 + 1)
          BY <2>3, <4>1
        <4>. QED
          BY <1>1, <1>2, <1>3, <2>4, <3>1, <4>2, TellsLater
      <3>4. CASE m.type = "removed"
        <4>1. \/ \E j \in DOMAIN r.up : Asks(r.up[j])
              \/ \E j \in DOMAIN s : j > 1 /\ s[j] \in Answers(Query)
          BY <1>5, <1>8, <1>12, <3>4, Zenon DEF Rewatched
        <4>. QED
          BY <2>2, <3>2, <4>1 DEF Silent, Asks
      <3>. QED
        BY <3>3, <3>4
    <2>6. CASE State(q, Query).out # 0
      <3>1. a \in Nat /\ a + 1 \in Starts(r, c)
        BY <1>1, <1>2, <1>3, <2>1, <2>6, StartsTaken
      <3>2. Tells(server, Base(r, synced), c, a + 1)
        BY <2>3, <3>1
      <3>. QED
        BY <1>1, <1>2, <1>3, <2>4, <3>1, <3>2, TellsLater
    <2>. QED
      BY <2>5, <2>6
  <1>. QED
    BY <1>6, <1>7, <1>13

\* An unmarked target has the documents of the query.
LEMMA UnmarkedBase ==
  ASSUME NEW r, NEW synced, DOMAIN State(r, Query).changes = {}
  PROVE  Base(r, synced) = synced
  BY DEF Base, Marking, Marked

\* A target has been added.
LEMMA AddedQuery ==
  ASSUME NEW m, Arriving(m), m.type = "added"
  PROVE  /\ Resumes(server, TargetAdded(remote, m.id), Delivered(conn), view.synced)
         /\ TargetAdded(remote, m.id).resets = remote.resets
  <1>1. /\ conn \in Conns /\ remote \in Remotes /\ m \in Messages /\ remote \in Good(conn, view.synced)
        /\ Resumes(server, remote, conn, view.synced)
    BY ArrivingFacts
  <1>2. PICK t : t = m.id
    OBVIOUS
  <1>3. t \in Nat /\ m \in Answers(t)
    BY <1>1, <1>2, MessageFields
  <1>4. conn.down # <<>> /\ m = Head(conn.down)
    BY DEF Arriving
  <1>5. \A d \in Docs : ~Adds(m, d)
    BY DEF Adds
  <1>6. PICK old, st, new : /\ old = State(remote, t) /\ st = [old EXCEPT !.out = @ - 1]
                            /\ new = IF st.out = 0 THEN [st EXCEPT !.changes = <<>>, !.dirty = FALSE] ELSE st
    OBVIOUS
  <1>7. old \in States /\ old.out \in Nat /\ old.out >= 1
        /\ (t \in DOMAIN remote.listen => DOMAIN old.changes = {})
    BY <1>1, <1>3, <1>4, <1>6, Answered, StateTyped
  <1>8. old.out - 1 \in Nat
    BY <1>7
  <1>9. st \in States /\ st.changes = old.changes
    BY <1>6, <1>7, <1>8 DEF States
  <1>10. PICK e : e = <<>> /\ e \in Maps(Docs, Kinds) /\ DOMAIN e = {}
    BY EmptyMap
  <1>11. [st EXCEPT !.changes = e, !.dirty = FALSE] \in States
         /\ [st EXCEPT !.changes = e, !.dirty = FALSE].changes = e
    BY <1>9, <1>10 DEF States
  <1>12. new \in States /\ (t \in DOMAIN remote.listen => DOMAIN new.changes = {})
    BY <1>6, <1>7, <1>9, <1>10, <1>11
  <1>13. PICK q : q = SetTarget(remote, t, new)
    OBVIOUS
  <1>14. TargetAdded(remote, t) = q
    BY <1>6, <1>13 DEF TargetAdded
  <1>15. /\ Apart(q, remote) /\ q.resets = remote.resets /\ (t # Query => SameQuery(q, remote))
         /\ State(q, t) = new
    BY <1>1, <1>3, <1>12, <1>13, SetTargetQuery
  <1>16. CASE t # Query
    BY <1>1, <1>2, <1>4, <1>5, <1>14, <1>15, <1>16, TakenElsewhere
  <1>17. CASE t = Query
    <2>1. q \in Good(Delivered(conn), view.synced)
      BY <1>1, <1>3, <1>4, <1>14, TargetAddedSound
    <2>2. Watched(remote) => Base(q, view.synced) = Base(remote, view.synced)
      BY <1>6, <1>7, <1>12, <1>15, <1>17, UnmarkedBase DEF Watched
    <2>3. State(remote, Query).out # 0
      BY <1>6, <1>7, <1>17
    <2>4. Resumes(server, q, Delivered(conn), view.synced)
      BY <1>2, <1>15, <1>17, <2>1, <2>2, <2>3, AnswerQuery
    <2>. QED
      BY <1>2, <1>14, <1>15, <2>4
  <1>. QED
    BY <1>16, <1>17

\* A target has been removed.
LEMMA RemovedQuery ==
  ASSUME NEW m, Arriving(m), m.type = "removed"
  PROVE  /\ Resumes(server, TargetRemoved(remote, m.id), Delivered(conn), view.synced)
         /\ TargetRemoved(remote, m.id).resets = remote.resets
  <1>1. /\ conn \in Conns /\ remote \in Remotes /\ m \in Messages /\ remote \in Good(conn, view.synced)
        /\ Resumes(server, remote, conn, view.synced)
    BY ArrivingFacts
  <1>2. PICK t : t = m.id
    OBVIOUS
  <1>3. t \in Nat /\ m \in Answers(t)
    BY <1>1, <1>2, MessageFields
  <1>4. conn.down # <<>> /\ m = Head(conn.down)
    BY DEF Arriving
  <1>5. \A d \in Docs : ~Adds(m, d)
    BY DEF Adds
  <1>6. PICK old : old = State(remote, t)
    OBVIOUS
  <1>7. old \in States /\ old.out \in Nat /\ old.out >= 1
        /\ (t \in DOMAIN remote.listen => DOMAIN old.changes = {})
    BY <1>1, <1>3, <1>4, <1>6, Answered, StateTyped
  <1>8. PICK q : q = TargetRemoved(remote, t)
    OBVIOUS
  <1>9. /\ Apart(q, remote) /\ q.resets = remote.resets /\ (t # Query => SameQuery(q, remote))
        /\ t \in DOMAIN remote.listen => DOMAIN State(q, t).changes = {}
    <2>1. CASE old.out # 1
      <3>1. PICK st : st = [old EXCEPT !.out = @ - 1]
        OBVIOUS
      <3>2. old.out - 1 \in Nat
        BY <1>7
      <3>3. st \in States /\ st.changes = old.changes
        BY <1>7, <3>1, <3>2 DEF States
      <3>4. q = SetTarget(remote, t, st)
        BY <1>6, <1>8, <2>1, <3>1 DEF TargetRemoved
      <3>5. /\ Apart(q, remote) /\ q.resets = remote.resets /\ (t # Query => SameQuery(q, remote))
            /\ State(q, t) = st
        BY <1>1, <1>3, <3>3, <3>4, SetTargetQuery
      <3>. QED
        BY <1>7, <3>3, <3>5
    <2>2. CASE old.out = 1
      <3>1. PICK ts : ts = Without(remote.targets, t)
        OBVIOUS
      <3>2. q = [remote EXCEPT !.targets = ts]
        BY <1>6, <1>8, <2>2, <3>1 DEF TargetRemoved
      <3>3. remote.targets \in Maps(Nat, States)
        BY <1>1 DEF Remotes
      <3>4. Dropping(ts, remote.targets, t)
        BY <3>1, <3>3, WithoutFacts
      <3>5. SameListens(q, remote) /\ q.resets = remote.resets /\ q.targets = ts
        BY <1>1, <3>2 DEF Remotes, SameListens
      <3>6. State(q, t) = Blank /\ \A u : u # t => State(q, u) = State(remote, u)
        BY <3>4, <3>5 DEF Dropping, State
      <3>7. Apart(q, remote) /\ (t # Query => SameQuery(q, remote))
        BY <3>5, <3>6, SameListensApart
      <3>. QED
        BY <3>5, <3>6, <3>7, BlankState
    <2>. QED
      BY <2>1, <2>2
  <1>10. CASE t # Query
    BY <1>1, <1>2, <1>4, <1>5, <1>8, <1>9, <1>10, TakenElsewhere
  <1>11. CASE t = Query
    <2>1. q \in Good(Delivered(conn), view.synced)
      BY <1>1, <1>3, <1>4, <1>8, TargetRemovedSound
    <2>2. Watched(remote) => Base(q, view.synced) = Base(remote, view.synced)
      BY <1>6, <1>7, <1>9, <1>11, UnmarkedBase DEF Watched
    <2>3. State(remote, Query).out # 0
      BY <1>6, <1>7, <1>11
    <2>4. Resumes(server, q, Delivered(conn), view.synced)
      BY <1>2, <1>9, <1>11, <2>1, <2>2, <2>3, AnswerQuery
    <2>. QED
      BY <1>2, <1>8, <1>9, <2>4
  <1>. QED
    BY <1>10, <1>11

\* What the snapshot or a refusal makes of the query's documents and token.
Applied(changes) ==
    IF Query \in DOMAIN changes
    THEN /\ view'.synced = Marking(changes[Query], view.synced)
         /\ store'.token = PersistedToken(store.token, changes[Query])
    ELSE view'.synced = view.synced /\ store'.token = store.token

\* EmitNewSnapshots is called for the view v over the store s, which have what
\* the event has brought.
Emits(r, c, changes, v, s) ==
    /\ v \in Views /\ s \in Stores /\ r \in Good(c, v.synced) /\ v.limbo = view.limbo
    /\ s.mine = store.mine /\ view.own \cap store.mine \subseteq v.own
    /\ IF Query \in DOMAIN changes
       THEN /\ v.synced = Marking(changes[Query], view.synced)
            /\ s.token = PersistedToken(store.token, changes[Query])
       ELSE v.synced = view.synced /\ s.token = store.token
    /\ Emit(r, v, s)

\* SyncEngine::ApplyRemoteEvent ends with it.
LEMMA ApplyEmits ==
  ASSUME NEW c \in Conns, view \in Views, store \in Stores, NEW r, NEW changes,
         NEW updates \in Maps(Docs, Versions), NEW snapshot \in SUBSET Docs,
         Query \notin DOMAIN changes => UpdateResolutions(r, changes) \in Good(c, view.synced),
         Query \in DOMAIN changes =>
            /\ \A synced : UpdateResolutions(r, changes) \in Good(c, synced)
            /\ changes[Query] \in States
            /\ Marked(changes[Query], "modified") \subseteq view.synced,
         ApplyRemoteEvent(r, changes, updates, snapshot)
  PROVE  \E v, s : Emits(UpdateResolutions(r, changes), c, changes, v, s)
  <1>1. PICK replaced, r1, cache, s1, v1 :
           /\ replaced = Replaced(updates)
           /\ r1 = UpdateResolutions(r, changes)
           /\ cache = [d \in Docs |-> IF d \in replaced THEN updates[d] ELSE store.cache[d]]
           /\ s1 = [store EXCEPT !.committed = @ \ replaced, !.cache = cache]
           /\ v1 = [view EXCEPT !.own = @ \ (replaced \ store.mine)]
    OBVIOUS
  <1>2. replaced \subseteq DOMAIN updates /\ \A d \in DOMAIN updates : updates[d] \in Versions
    BY <1>1, MapFacts DEF Replaced
  <1>3. cache \in [Docs -> Versions]
    BY <1>1, <1>2 DEF Stores
  <1>4. /\ s1 \in Stores /\ v1 \in Views /\ v1.synced = view.synced /\ s1.token \in Tokens
        /\ s1.token = store.token /\ v1.limbo = view.limbo
        /\ s1.mine = store.mine /\ view.own \cap store.mine \subseteq v1.own
    BY <1>1, <1>3 DEF Stores, Views
  <1>5. s1 = [store EXCEPT !.committed = @ \ replaced,
                !.cache = [d \in Docs |-> IF d \in replaced THEN updates[d] ELSE @[d]]]
    BY <1>1
  <1>6. CASE Query \notin DOMAIN changes
    <2>1. Emit(r1, v1, s1)
      BY <1>1, <1>5, <1>6 DEF ApplyRemoteEvent
    <2>2. r1 \in Good(c, v1.synced)
      BY <1>1, <1>4, <1>6
    <2>3. Emits(r1, c, changes, v1, s1)
      BY <1>4, <1>6, <2>1, <2>2 DEF Emits
    <2>. QED
      BY <1>1, <2>3
  <1>7. CASE Query \in DOMAIN changes
    <2>1. PICK q, token, synced : /\ q = changes[Query]
                                  /\ token = PersistedToken(s1.token, q)
                                  /\ synced = (view.synced \cup Marked(q, "added")) \ Marked(q, "removed")
      OBVIOUS
    <2>2. q \in States /\ Marked(q, "modified") \subseteq view.synced
      BY <1>7, <2>1
    <2>3. q.current \in BOOLEAN /\ q.token \in Tokens /\ DOMAIN q.changes \subseteq Docs
      <3>1. q.changes \in Maps(Docs, Kinds)
        BY <2>2 DEF States
      <3>. QED
        BY <2>2, <3>1, MapFacts DEF States
    <2>4. token \in Tokens
      BY <1>4, <2>1, <2>3 DEF PersistedToken
    <2>5. synced \in SUBSET Docs
      BY <2>1, <2>3 DEF Marked, Views
    <2>6. PICK v2, s2 : /\ v2 = [v1 EXCEPT !.synced = synced, !.current = q.current]
                        /\ s2 = [s1 EXCEPT !.token = token, !.snapshot = snapshot]
      OBVIOUS
    <2>7. /\ v2 \in Views /\ s2 \in Stores /\ v2.synced = synced /\ s2.token = token /\ v2.limbo = view.limbo
          /\ s2.mine = store.mine /\ view.own \cap store.mine \subseteq v2.own
      BY <1>4, <2>3, <2>4, <2>5, <2>6 DEF Views, Stores
    <2>8. r1 \in Good(c, v2.synced)
      BY <1>1, <1>7
    <2>9. [r1 EXCEPT !.ok = @ /\ Marked(q, "modified") \subseteq view.synced] = r1
      BY <2>2, <2>8 DEF Good, Sound, Remotes
    <2>10. v2 = [v1 EXCEPT !.synced = (@ \cup Marked(q, "added")) \ Marked(q, "removed"),
                           !.current = q.current]
      BY <1>4, <2>1, <2>6
    <2>11. s2 = [s1 EXCEPT !.token = PersistedToken(@, q), !.snapshot = snapshot]
      BY <2>1, <2>6
    <2>12. Emit([r1 EXCEPT !.ok = @ /\ Marked(q, "modified") \subseteq view.synced],
                [v1 EXCEPT !.synced = (@ \cup Marked(q, "added")) \ Marked(q, "removed"),
                           !.current = q.current],
                [s1 EXCEPT !.token = PersistedToken(@, q), !.snapshot = snapshot])
      BY <1>1, <1>5, <1>7, <2>1 DEF ApplyRemoteEvent
    <2>13. Emit(r1, v2, s2)
      BY <2>9, <2>10, <2>11, <2>12
    <2>14. synced = Marking(changes[Query], view.synced) /\ token = PersistedToken(store.token, changes[Query])
      BY <1>4, <2>1 DEF Marking
    <2>15. Emits(r1, c, changes, v2, s2)
      BY <1>7, <2>7, <2>8, <2>13, <2>14 DEF Emits
    <2>. QED
      BY <1>1, <2>15
  <1>. QED
    BY <1>6, <1>7

\* SyncEngine::ApplyRemoteEvent, besides what it notes of the resolutions, leaves
\* the query's listen alone.
LEMMA ApplyShape ==
  ASSUME NEW c \in Conns, view \in Views, store \in Stores, NEW r, NEW changes,
         NEW updates \in Maps(Docs, Versions), NEW snapshot \in SUBSET Docs,
         Query \notin DOMAIN changes => UpdateResolutions(r, changes) \in Good(c, view.synced),
         Query \in DOMAIN changes =>
            /\ \A synced : UpdateResolutions(r, changes) \in Good(c, synced)
            /\ changes[Query] \in States
            /\ Marked(changes[Query], "modified") \subseteq view.synced,
         ApplyRemoteEvent(r, changes, updates, snapshot)
  PROVE  SameQuery(remote', UpdateResolutions(r, changes)) /\ Applied(changes)
  <1>1. PICK v, s : Emits(UpdateResolutions(r, changes), c, changes, v, s)
    BY ApplyEmits
  <1>2. SameQuery(remote', UpdateResolutions(r, changes)) /\ view'.synced = v.synced /\ store' = s
    BY <1>1, EmitSame DEF Emits
  <1>. QED
    BY <1>1, <1>2 DEF Emits, Applied

\* The query has been refused: r no longer listens to it.
Refused(r) ==
    /\ r \in Good(Delivered(conn), view.synced) /\ ~Watched(r)
    /\ r.resets = remote.resets /\ SameLimbo(r, remote)
    /\ RemoveAndCleanupTarget(r)

\* A limbo target has been refused: q has given it up, and its document is gone.
GivenUp(q, t) ==
    /\ q \in Good(Delivered(conn), view.synced) /\ SameQuery(q, remote)
    /\ t \in DOMAIN remote.resolutions /\ q.enqueued = remote.enqueued
    /\ q.byKey = Without(remote.byKey, remote.resolutions[t].key)
    /\ q.resolutions = Without(remote.resolutions, t)
    /\ \E v, s : Emits(PumpEnqueuedLimboResolutions(q), Delivered(conn), <<>>, v, s)

\* The server has refused a target.
LEMMA RejectedShape ==
  ASSUME NEW m, Coming(m), m.type = "rejected", HandleRejectedListen(m.id)
  PROVE  \/ remote' = remote /\ view' = view /\ store' = store
         \/ \E r : Refused(r)
         \/ \E q : GivenUp(q, m.id)
  <1>0. /\ conn \in Conns /\ conn.down # <<>> /\ remote \in Good(conn, view.synced) /\ remote \in Remotes
        /\ remote.ok /\ Resolving(remote) /\ m = Head(conn.down) /\ m \in Messages /\ Delivered(conn) \in Conns
    BY ComingFacts DEF Coming, Good, Sound
  <1>s. view \in Views /\ store \in Stores
    BY DEF Coming, IInv
  <1>3. PICK t, b : t = m.id /\ b = Delivered(conn)
    OBVIOUS
  <1>4. t \in Nat /\ m \in Answers(t) /\ b \in Conns
    BY <1>0, <1>3, MessageFields
  <1>5. CASE t \notin DOMAIN remote.listen
    BY <1>3, <1>5 DEF HandleRejectedListen
  <1>6. PICK ls, tg, r : /\ ls = Without(remote.listen, t) /\ tg = Without(remote.targets, t)
                         /\ r = [remote EXCEPT !.listen = ls, !.targets = tg]
    OBVIOUS
  <1>7. /\ remote.listen \in Maps(Nat, Listens) /\ remote.targets \in Maps(Nat, States)
        /\ remote.resolutions \in Maps(Nat, Resolutions) /\ remote.byKey \in Maps(Docs, Nat)
    BY <1>0 DEF Remotes
  <1>8. ls \in Maps(Nat, Listens) /\ Dropping(ls, remote.listen, t)
    BY <1>6, <1>7, WithoutFacts
  <1>9. tg \in Maps(Nat, States) /\ Dropping(tg, remote.targets, t)
    BY <1>6, <1>7, WithoutFacts
  <1>10. /\ r \in Remotes /\ r.ok /\ r.listen = ls /\ r.targets = tg
         /\ r.open = remote.open /\ r.up = remote.up /\ r.resets = remote.resets
         /\ r.next = remote.next /\ r.resolutions = remote.resolutions /\ r.byKey = remote.byKey
         /\ r.enqueued = remote.enqueued
    BY <1>0, <1>6, <1>8, <1>9 DEF Remotes
  <1>11. CASE t = Query /\ t \in DOMAIN remote.listen
    <2>1. RemoveAndCleanupTarget(r)
      BY <1>3, <1>6, <1>11 DEF HandleRejectedListen
    <2>2. Resolving(r)
      BY <1>0, <1>8, <1>10, <1>11 DEF Resolving, Dropping
    <2>3. r \in Good(b, view.synced)
      <3>1. \A u \in DOMAIN r.resolutions : u \in DOMAIN remote.resolutions /\ r.resolutions[u] = remote.resolutions[u]
        BY <1>10
      <3>2. \A u \in DOMAIN remote.resolutions : u # t => u \in DOMAIN r.resolutions
        BY <1>10
      <3>3. r.listen = Without(remote.listen, t) /\ r.targets = Without(remote.targets, t)
        BY <1>6, <1>10
      <3>. QED
        BY <1>0, <1>3, <1>10, <1>11, <2>2, <3>1, <3>2, <3>3, RefusedTarget
    <2>4. ~Watched(r)
      BY <1>8, <1>10, <1>11 DEF Watched, Dropping
    <2>5. SameLimbo(r, remote)
      BY <1>10 DEF SameLimbo
    <2>6. Refused(r)
      BY <1>3, <1>10, <2>1, <2>3, <2>4, <2>5 DEF Refused
    <2>. QED
      BY <2>6
  <1>12. CASE t # Query /\ t \in DOMAIN remote.listen
    <2>1. PICK d, bk, rs, q :
             /\ d = remote.resolutions[t].key
             /\ bk = Without(remote.byKey, d) /\ rs = Without(remote.resolutions, t)
             /\ q = [r EXCEPT !.byKey = bk, !.resolutions = rs]
      OBVIOUS
    <2>2. t \in DOMAIN remote.resolutions
      BY <1>0, <1>12 DEF Resolving
    <2>3. d \in Docs
      <3>1. remote.resolutions[t] \in Resolutions
        BY <1>7, <2>2, MapFacts
      <3>. QED
        BY <2>1, <3>1 DEF Resolutions
    <2>4. bk \in Maps(Docs, Nat) /\ Dropping(bk, remote.byKey, d)
      BY <1>7, <2>1, WithoutFacts
    <2>5. rs \in Maps(Nat, Resolutions) /\ Dropping(rs, remote.resolutions, t)
      BY <1>7, <2>1, WithoutFacts
    <2>6. /\ q \in Remotes /\ q.ok /\ q.listen = ls /\ q.targets = tg
          /\ q.open = remote.open /\ q.up = remote.up /\ q.resets = remote.resets
          /\ q.next = remote.next /\ q.resolutions = rs /\ q.byKey = bk /\ q.enqueued = remote.enqueued
      BY <1>10, <2>1, <2>4, <2>5 DEF Remotes
    <2>7. Resolving(q)
      <3>1. DOMAIN rs = DOMAIN ls \ {Query}
        BY <1>0, <1>8, <2>5 DEF Dropping, Resolving
      <3>2. \A u \in DOMAIN rs : ls[u].key = rs[u].key
        BY <1>0, <1>8, <2>5 DEF Dropping, Resolving
      <3>3. ASSUME NEW e \in DOMAIN bk
            PROVE  bk[e] \in DOMAIN rs /\ rs[bk[e]].key = e
        <4>1. e \in DOMAIN remote.byKey /\ e # d /\ bk[e] = remote.byKey[e]
          BY <2>4, <3>3 DEF Dropping
        <4>2. remote.byKey[e] \in DOMAIN remote.resolutions /\ remote.resolutions[remote.byKey[e]].key = e
          BY <1>0, <4>1 DEF Resolving
        <4>3. remote.byKey[e] # t
          BY <2>1, <4>1, <4>2
        <4>. QED
          BY <2>5, <4>1, <4>2, <4>3 DEF Dropping
      <3>4. q.resolutions = rs /\ q.listen = ls /\ q.byKey = bk
        BY <2>6
      <3>. QED
        BY <3>1, <3>2, <3>3, <3>4 DEF Resolving
    <2>8. q \in Good(b, view.synced)
      <3>1. \A u \in DOMAIN q.resolutions : u \in DOMAIN remote.resolutions /\ q.resolutions[u] = remote.resolutions[u]
        BY <2>5, <2>6 DEF Dropping
      <3>2. \A u \in DOMAIN remote.resolutions : u # t => u \in DOMAIN q.resolutions
        BY <2>5, <2>6 DEF Dropping
      <3>3. q.listen = Without(remote.listen, t) /\ q.targets = Without(remote.targets, t)
        BY <1>6, <2>6
      <3>. QED
        BY <1>0, <1>3, <1>12, <2>6, <2>7, <3>1, <3>2, <3>3, RefusedTarget
    <2>9. PICK p, e, ups : /\ p = PumpEnqueuedLimboResolutions(q) /\ e = <<>>
                           /\ ups = With(e, d, None)
      OBVIOUS
    <2>10. p \in Good(b, view.synced) /\ SameQuery(p, q)
      BY <1>4, <2>8, <2>9, PumpSame DEF GoodAs
    <2>11. ApplyRemoteEvent(p, e, ups, store.snapshot)
      <3>1. q = [r EXCEPT !.byKey = Without(@, d), !.resolutions = Without(@, t)]
        BY <1>10, <2>1
      <3>. QED
        BY <1>3, <1>6, <1>12, <2>1, <2>9, <3>1 DEF HandleRejectedListen
    <2>12. ups \in Maps(Docs, Versions) /\ DOMAIN e = {}
      <3>1. None \in Versions
        BY TargetsAssumption DEF None, Versions
      <3>2. e \in Maps(Docs, Versions) /\ DOMAIN e = {}
        BY <2>9, EmptyMap
      <3>. QED
        BY <2>3, <2>9, <3>1, <3>2, WithFacts
    <2>13. UpdateResolutions(p, e) = p
      BY <2>9, <2>10, UpdateNoResolutions DEF Good, Sound
    <2>14. store.snapshot \in SUBSET Docs
      BY <1>s DEF Stores
    <2>15. \E v, s : Emits(p, b, e, v, s)
      <3>1. \E v, s : Emits(UpdateResolutions(p, e), b, e, v, s)
        BY <1>s, <1>4, <2>10, <2>11, <2>12, <2>13, <2>14, ApplyEmits
      <3>. QED
        BY <2>13, <3>1
    <2>16. SameQuery(q, remote)
      <3>1. Continues(q, remote)
        BY <2>6 DEF Continues
      <3>2. SameListen(q, remote)
        BY <1>8, <1>12, <2>6 DEF SameListen, Watched, Dropping
      <3>3. State(q, Query) = State(remote, Query)
        BY <1>9, <1>12, <2>6 DEF State, Dropping
      <3>. QED
        BY <2>6, <3>1, <3>2, <3>3 DEF SameQuery
    <2>17. q.byKey = Without(remote.byKey, remote.resolutions[t].key) /\ q.resolutions = Without(remote.resolutions, t)
      BY <2>1, <2>6
    <2>18. \E v, s : Emits(PumpEnqueuedLimboResolutions(q), Delivered(conn), <<>>, v, s)
      BY <1>3, <2>9, <2>15
    <2>19. GivenUp(q, t)
      BY <1>3, <2>2, <2>6, <2>8, <2>16, <2>17, <2>18 DEF GivenUp
    <2>. QED
      BY <1>3, <2>19
  <1>. QED
    BY <1>5, <1>11, <1>12

\* One that is not the query's is dropped and its turn goes to the next; without
\* the query nothing has to be known.
LEMMA RejectedQuery ==
  ASSUME NEW m, Arriving(m), m.type = "rejected", HandleRejectedListen(m.id)
  PROVE  /\ Resumes(server, remote', Delivered(conn), view'.synced)
         /\ remote'.resets = remote.resets /\ (Watched(remote') => Watched(remote))
         /\ view'.synced = view.synced /\ store'.token = store.token
  <1>0. /\ conn \in Conns /\ conn.down # <<>> /\ remote \in Remotes /\ Coming(m)
        /\ m = Head(conn.down) /\ m \in Messages /\ Delivered(conn) \in Conns /\ view \in Views
        /\ Resumes(server, remote, conn, view.synced)
    BY ArrivingFacts, Zenon DEF Arriving, Coming, IInv
  <1>a. \A d \in Docs : ~Adds(Head(conn.down), d)
    BY <1>0 DEF Adds
  <1>b. \A q : SameQuery(q, remote) => Resumes(server, q, Delivered(conn), view.synced) /\ q.resets = remote.resets
    BY <1>0, <1>a, TakenElsewhere DEF SameQuery
  <1>1. CASE remote' = remote /\ view' = view /\ store' = store
    <2>1. SameQuery(remote, remote)
      BY SameQueryFields
    <2>. QED
      BY <1>b, <1>1, <2>1 DEF Watched
  <1>2. ASSUME NEW r, Refused(r)
        PROVE  /\ Resumes(server, remote', Delivered(conn), view'.synced)
               /\ remote'.resets = remote.resets /\ ~Watched(remote')
               /\ view'.synced = view.synced /\ store'.token = store.token
    <2>1. view.limbo \in SUBSET Docs /\ {} \in SUBSET Docs
      BY <1>0 DEF Views
    <2>2. r \in Good(Delivered(conn), view.synced)
      BY <1>2 DEF Refused
    <2>3. SameQuery(UpdateTrackedLimboDocuments(r, view.limbo, {}), r)
      BY <1>0, <2>1, <2>2, UpdateTrackedSame
    <2>4. view'.synced = view.synced /\ store' = store
          /\ remote' = UpdateTrackedLimboDocuments(r, view.limbo, {})
      BY <1>0, <1>2 DEF Refused, RemoveAndCleanupTarget, Views
    <2>5. ~Watched(remote') /\ remote'.resets = remote.resets
      BY <1>2, <2>3, <2>4 DEF Refused, SameQuery, SameListen
    <2>. QED
      BY <2>4, <2>5 DEF Resumes
  <1>3. ASSUME NEW q, GivenUp(q, m.id)
        PROVE  /\ SameQuery(remote', remote)
               /\ view'.synced = view.synced /\ store'.token = store.token
    <2>1. PICK p : p = PumpEnqueuedLimboResolutions(q)
      OBVIOUS
    <2>2. q \in Good(Delivered(conn), view.synced) /\ SameQuery(q, remote)
      BY <1>3 DEF GivenUp
    <2>3. SameQuery(p, q)
      BY <1>0, <2>1, <2>2, PumpSame DEF GoodAs
    <2>4. PICK v, s : Emits(p, Delivered(conn), <<>>, v, s)
      BY <1>3, <2>1 DEF GivenUp
    <2>5. SameQuery(remote', p) /\ view'.synced = v.synced /\ store' = s
      BY <1>0, <2>4, EmitSame DEF Emits
    <2>6. v.synced = view.synced /\ s.token = store.token
      BY <2>4 DEF Emits
    <2>7. SameQuery(remote', remote)
      BY <2>2, <2>3, <2>5, SameQueryTrans
    <2>. QED
      BY <2>5, <2>6, <2>7
  <1>. QED
    BY <1>0, <1>1, <1>2, <1>3, <1>b, RejectedShape DEF SameQuery, SameListen

-----------------------------------------------------------------------------
(* A global snapshot, one stage after the other                            *)

\* What the aggregator does to the query's target leaves the rest of q as in r.
Collects(q, r) == SameListens(q, r) /\ q.resets = r.resets /\ q.enqueued = r.enqueued

\* The resume token that comes with a snapshot.
Tokened(r, ver) ==
    [r EXCEPT !.targets = [t \in DOMAIN @ |->
        IF IsActive(r, t) THEN [@[t] EXCEPT !.token = ver, !.dirty = TRUE] ELSE @[t]]]

\* An active target has the token, and is dirty; the others are as before.
LEMMA TokenedShape ==
  ASSUME NEW r \in Remotes, NEW ver \in Tokens
  PROVE  /\ Collects(Tokened(r, ver), r)
         /\ DOMAIN Tokened(r, ver).targets = DOMAIN r.targets
         /\ IF IsActive(r, Query) /\ Query \in DOMAIN r.targets
            THEN /\ State(Tokened(r, ver), Query).changes = State(r, Query).changes
                 /\ State(Tokened(r, ver), Query).out = State(r, Query).out
                 /\ State(Tokened(r, ver), Query).token = ver
                 /\ State(Tokened(r, ver), Query).dirty
            ELSE State(Tokened(r, ver), Query) = State(r, Query)
  <1>1. PICK tg, q : /\ tg = [t \in DOMAIN r.targets |->
                          IF IsActive(r, t) THEN [r.targets[t] EXCEPT !.token = ver, !.dirty = TRUE]
                          ELSE r.targets[t]]
                     /\ q = [r EXCEPT !.targets = tg]
    OBVIOUS
  <1>2. Tokened(r, ver) = q
    BY <1>1 DEF Tokened
  <1>3. Collects(q, r) /\ q.targets = tg
    BY <1>1 DEF Remotes, Collects, SameListens
  <1>4. DOMAIN tg = DOMAIN r.targets
    BY <1>1
  <1>5. r.targets \in Maps(Nat, States)
    BY DEF Remotes
  <1>6. \A t \in DOMAIN r.targets : r.targets[t] \in States
    BY <1>5, MapFacts
  <1>7. CASE IsActive(r, Query) /\ Query \in DOMAIN r.targets
    <2>1. tg[Query] = [r.targets[Query] EXCEPT !.token = ver, !.dirty = TRUE] /\ r.targets[Query] \in States
      BY <1>1, <1>6, <1>7
    <2>2. State(q, Query) = tg[Query] /\ State(r, Query) = r.targets[Query]
      BY <1>3, <1>4, <1>7 DEF State
    <2>. QED
      BY <1>2, <1>3, <1>4, <1>7, <2>1, <2>2 DEF States
  <1>8. CASE ~(IsActive(r, Query) /\ Query \in DOMAIN r.targets)
    <2>1. State(q, Query) = State(r, Query)
      BY <1>1, <1>3, <1>4, <1>8 DEF State
    <2>. QED
      BY <1>2, <1>3, <1>4, <1>8, <2>1
  <1>. QED
    BY <1>7, <1>8

\* The deletions a snapshot makes up are those of limbo documents.
LEMMA DeletesShape ==
  ASSUME NEW c \in Conns, NEW r \in Good(c, view.synced), r.open, view.synced \subseteq Docs,
         NEW ver \in Tokens
  PROVE  /\ Collects(SynthesizeDeletes(r, ver), r)
         /\ State(SynthesizeDeletes(r, ver), Query) = State(r, Query)
         /\ Query \in DOMAIN SynthesizeDeletes(r, ver).targets <=> Query \in DOMAIN r.targets
  <1>1. r \in Remotes /\ Known(r)
    BY DEF Good, Sound, Wired
  <1>2. PICK S, U : /\ S = MissingIn(r)
                    /\ U = {q \in Good(c, view.synced) :
                              /\ Collects(q, r) /\ State(q, Query) = State(r, Query)
                              /\ Query \in DOMAIN q.targets <=> Query \in DOMAIN r.targets}
    OBVIOUS
  <1>3. IsFiniteSet(S)
    BY <1>1, <1>2, IdsFinite, FS_Subset DEF MissingIn
  <1>4. r \in U
    BY <1>2 DEF SameListens, Collects
  <1>5. [ver |-> ver, exists |-> FALSE] \in Versions
    BY DEF Versions, Tokens
  <1>6. ASSUME NEW t \in S, NEW q \in U
        PROVE  HandleDocumentChange(q, {t}, r.listen[t].key, [ver |-> ver, exists |-> FALSE]) \in U
    <2>1. IsActive(r, t) /\ t # Query
      BY <1>2 DEF MissingIn
    <2>2. r.listen[t].key \in Docs
      BY <2>1, ActiveFacts
    <2>3. q \in Good(c, view.synced) /\ q \in Remotes /\ q.open /\ q.listen = r.listen /\ Collects(q, r)
          /\ State(q, Query) = State(r, Query)
          /\ (Query \in DOMAIN q.targets <=> Query \in DOMAIN r.targets)
      BY <1>2 DEF SameListens, Collects, Good
    <2>4. PICK d, doc : d = r.listen[t].key /\ doc = [ver |-> ver, exists |-> FALSE]
      OBVIOUS
    <2>5. PICK p, ts : ts = {t} /\ p = HandleDocumentChange(q, ts, d, doc)
      OBVIOUS
    <2>6. p \in Good(c, view.synced) /\ SameListens(p, q)
      BY <1>5, <2>2, <2>3, <2>4, <2>5, HandleDocumentChangeSound
    <2>7. /\ p.resets = q.resets /\ p.enqueued = q.enqueued
          /\ \A x : State(p, x) = IF x \in ts /\ IsActive(q, x) THEN ChangeDocument(q, x, d, doc.exists) ELSE State(q, x)
      BY <2>3, <2>5, DocumentChangeShape
    <2>8. State(p, Query) = State(r, Query)
      BY <2>1, <2>3, <2>5, <2>7
    <2>9. Collects(p, r)
      BY <2>3, <2>6, <2>7 DEF SameListens, Collects
    <2>10. Query \in DOMAIN p.targets <=> Query \in DOMAIN q.targets
      BY <2>1, <2>3, <2>5 DEF HandleDocumentChange, Remotes
    <2>. QED
      BY <1>2, <2>3, <2>4, <2>5, <2>6, <2>8, <2>9, <2>10
  <1>7. SynthesizeDeletes(r, ver) \in U
    BY <1>2, <1>3, <1>4, <1>6, DeleteFold
  <1>. QED
    BY <1>2, <1>7

\* The changes have been handed on: none is marked, nothing is to be watched again.
LEMMA ClearedShape ==
  ASSUME NEW r \in Remotes
  PROVE  /\ SameListens(ClearPending(r), r) /\ ClearPending(r).enqueued = r.enqueued
         /\ ClearPending(r).resets = {}
         /\ IF Query \in DOMAIN TargetChanges(r)
            THEN /\ TargetChanges(r)[Query] = State(r, Query)
                 /\ IsActive(r, Query) /\ State(r, Query).dirty
                 /\ State(ClearPending(r), Query).out = State(r, Query).out
                 /\ DOMAIN State(ClearPending(r), Query).changes = {}
            ELSE /\ State(ClearPending(r), Query) = State(r, Query)
                 /\ Query \notin DOMAIN r.targets \/ ~IsActive(r, Query) \/ ~State(r, Query).dirty
  <1>2. PICK e : e = <<>>
    OBVIOUS
  <1>3. e \in Maps(Docs, Kinds) /\ DOMAIN e = {}
    BY <1>2, EmptyMap
  <1>4. PICK changed, tg, q :
           /\ changed = {t \in DOMAIN r.targets : IsActive(r, t) /\ r.targets[t].dirty}
           /\ tg = [t \in DOMAIN r.targets |->
                      IF t \in changed THEN [r.targets[t] EXCEPT !.changes = e, !.dirty = FALSE]
                      ELSE r.targets[t]]
           /\ q = [r EXCEPT !.updates = e, !.resets = {}, !.targets = tg]
    OBVIOUS
  <1>5. DOMAIN TargetChanges(r) = changed /\ \A t \in changed : TargetChanges(r)[t] = r.targets[t]
    BY <1>4 DEF TargetChanges
  <1>6. ClearPending(r) = q
    BY <1>2, <1>4, <1>5 DEF ClearPending
  <1>7. r.targets \in Maps(Nat, States)
    BY DEF Remotes
  <1>8. \A t \in DOMAIN r.targets : r.targets[t] \in States
    BY <1>7, MapFacts
  <1>9. SameListens(q, r) /\ q.enqueued = r.enqueued /\ q.resets = {} /\ q.targets = tg
    BY <1>4 DEF Remotes, SameListens
  <1>10. DOMAIN tg = DOMAIN r.targets
    BY <1>4
  <1>11. CASE Query \in changed
    <2>1. /\ Query \in DOMAIN r.targets /\ IsActive(r, Query) /\ r.targets[Query].dirty
          /\ State(r, Query) = r.targets[Query] /\ r.targets[Query] \in States
      BY <1>4, <1>8, <1>11 DEF State
    <2>2. tg[Query] = [r.targets[Query] EXCEPT !.changes = e, !.dirty = FALSE]
      BY <1>4, <1>11, <2>1
    <2>3. tg[Query].out = r.targets[Query].out /\ tg[Query].changes = e
      BY <2>1, <2>2 DEF States
    <2>4. State(q, Query) = tg[Query]
      BY <1>9, <1>10, <2>1 DEF State
    <2>. QED
      BY <1>3, <1>5, <1>6, <1>9, <1>11, <2>1, <2>3, <2>4
  <1>12. CASE Query \notin changed
    <2>1. State(q, Query) = State(r, Query)
      BY <1>4, <1>9, <1>10, <1>12 DEF State
    <2>2. Query \in DOMAIN r.targets => State(r, Query) = r.targets[Query]
      BY DEF State
    <2>3. Query \notin DOMAIN r.targets \/ ~IsActive(r, Query) \/ ~State(r, Query).dirty
      BY <1>4, <1>12, <2>2
    <2>. QED
      BY <1>5, <1>6, <1>9, <1>12, <2>1, <2>3
  <1>. QED
    BY <1>11, <1>12

\* What is listened to with other tokens is otherwise as before.
Retokened(q, r) ==
    /\ q.open = r.open /\ q.targets = r.targets /\ q.up = r.up /\ q.resets = r.resets
    /\ SameLimbo(q, r) /\ DOMAIN q.listen = DOMAIN r.listen

\* The resume tokens have been stored with the listens.
LEMMA UpdateTokensShape ==
  ASSUME NEW r \in Remotes, NEW changes, \A t \in DOMAIN changes : changes[t] \in States
  PROVE  /\ Retokened(UpdateTokens(r, changes), r)
         /\ Query \in DOMAIN r.listen =>
               IF Query \in DOMAIN changes /\ changes[Query].token # 0
               THEN UpdateTokens(r, changes).listen[Query] = [key |-> r.listen[Query].key, token |-> changes[Query].token]
               ELSE UpdateTokens(r, changes).listen[Query] = r.listen[Query]
  <1>1. PICK ls, q : /\ ls = [t \in DOMAIN r.listen |->
                                IF t \in DOMAIN changes /\ changes[t].token # 0
                                THEN [r.listen[t] EXCEPT !.token = changes[t].token] ELSE r.listen[t]]
                     /\ q = [r EXCEPT !.listen = ls]
    OBVIOUS
  <1>2. UpdateTokens(r, changes) = q
    BY <1>1 DEF UpdateTokens
  <1>3. r.listen \in Maps(Nat, Listens)
    BY DEF Remotes
  <1>4. \A t \in DOMAIN r.listen : r.listen[t] \in Listens
    BY <1>3, MapFacts
  <1>5. DOMAIN ls = DOMAIN r.listen
    BY <1>1
  <1>6. Retokened(q, r) /\ q.listen = ls
    BY <1>1, <1>5 DEF Remotes, Retokened, SameLimbo
  <1>7. ASSUME Query \in DOMAIN r.listen
        PROVE  IF Query \in DOMAIN changes /\ changes[Query].token # 0
               THEN ls[Query] = [key |-> r.listen[Query].key, token |-> changes[Query].token]
               ELSE ls[Query] = r.listen[Query]
    BY <1>1, <1>4, <1>7 DEF Listens
  <1>. QED
    BY <1>2, <1>6, <1>7

\* q has given the query up and asked for it again, from nothing.
AskedAnew(q, r) ==
    /\ q.open = r.open /\ q.resets = r.resets /\ SameLimbo(q, r)
    /\ q.listen[Query].key = r.listen[Query].key /\ q.listen[Query].token = 0
    /\ \E e, f \in Requests :
          /\ e.op = "unwatch" /\ e.id = Query
          /\ f.op = "watch" /\ f.id = Query /\ f.key = r.listen[Query].key /\ f.token = 0
          /\ q.up = Append(Append(r.up, e), f)

\* A query whose documents did not add up.
LEMMA RewatchShape ==
  ASSUME NEW r \in Remotes, Watched(r)
  PROVE  AskedAnew(Rewatch(Query, r), r)
  <1>1. Query \in DOMAIN r.listen /\ Query \in Nat /\ 0 \in Tokens
    BY TargetsAssumption DEF Watched, Tokens, Query
  <1>2. PICK s : s = [r EXCEPT !.listen[Query].token = 0]
    OBVIOUS
  <1>3. /\ s \in Remotes /\ DOMAIN s.listen = DOMAIN r.listen /\ s.listen[Query].token = 0
        /\ s.listen[Query].key = r.listen[Query].key
    BY <1>1, <1>2, RewatchTyped
  <1>4. s.open = r.open /\ s.up = r.up /\ s.resets = r.resets /\ SameLimbo(s, r)
    BY <1>2 DEF Remotes, SameLimbo
  <1>5. PICK p : p = Request(s, "unwatch", Query, 0)
    OBVIOUS
  <1>6. p \in Remotes /\ Requesting(p, s, "unwatch", Query, 0)
    BY <1>1, <1>3, <1>5, RequestFields
  <1>7. PICK e \in Requests : e.op = "unwatch" /\ e.id = Query /\ p.up = Append(s.up, e)
    BY <1>6 DEF Requesting
  <1>8. p.open = s.open /\ p.listen = s.listen /\ p.resets = s.resets /\ SameLimbo(p, s)
    BY <1>6 DEF Requesting, SameLimbo
  <1>9. PICK q : q = Request(p, "watch", Query, 0)
    OBVIOUS
  <1>10. q \in Remotes /\ Requesting(q, p, "watch", Query, 0)
    BY <1>1, <1>3, <1>6, <1>8, <1>9, RequestFields
  <1>11. PICK f \in Requests : /\ f.op = "watch" /\ f.id = Query /\ f.token = 0 /\ f.key = p.listen[Query].key
                               /\ q.up = Append(p.up, f)
    BY <1>10 DEF Requesting
  <1>12. q.open = p.open /\ q.listen = p.listen /\ q.resets = p.resets /\ SameLimbo(q, p)
    BY <1>10 DEF Requesting, SameLimbo
  <1>13. Rewatch(Query, r) = q
    <2>1. SendUnwatchRequest(s, Query) = p
      BY <1>5 DEF SendUnwatchRequest
    <2>2. SendWatchRequest(p, Query) = q
      BY <1>3, <1>8, <1>9 DEF SendWatchRequest
    <2>. QED
      BY <1>2, <2>1, <2>2 DEF Rewatch
  <1>14. q.up = Append(Append(r.up, e), f) /\ f.key = r.listen[Query].key
    BY <1>3, <1>4, <1>7, <1>8, <1>11
  <1>15. q.open = r.open /\ q.resets = r.resets /\ SameLimbo(q, r)
         /\ q.listen[Query].key = r.listen[Query].key /\ q.listen[Query].token = 0
    BY <1>3, <1>4, <1>8, <1>12 DEF SameLimbo
  <1>. QED
    BY <1>7, <1>11, <1>13, <1>14, <1>15 DEF AskedAnew

\* Only the query is watched again.
LEMMA MismatchesShape ==
  ASSUME NEW r \in Remotes, NEW resets, resets \subseteq {Query}
  PROVE  /\ ~(Query \in resets /\ Watched(r)) => RewatchMismatches(r, resets) = r
         /\ Query \in resets /\ Watched(r) => RewatchMismatches(r, resets) = Rewatch(Query, r)
  <1>1. PICK S, U, G : /\ S = resets \cap DOMAIN r.listen
                       /\ U = {q \in Remotes : S \subseteq DOMAIN q.listen}
                       /\ G = [s \in SUBSET S |-> IF s = {} THEN {r} ELSE {Rewatch(Query, r)}]
    OBVIOUS
  <1>2. S \subseteq {Query} /\ IsFiniteSet(S)
    BY <1>1, FS_Singleton, FS_Subset
  <1>3. r \in U /\ r \in G[{}]
    BY <1>1
  <1>4. ASSUME NEW t \in S, NEW q \in U
        PROVE  Rewatch(t, q) \in U
    BY <1>1, RewatchTyped
  <1>5. ASSUME NEW s \in SUBSET S, NEW t \in s, NEW q \in U, q \in G[s \ {t}]
        PROVE  Rewatch(t, q) \in G[s]
    <2>1. s = {Query} /\ t = Query /\ s \ {t} = {}
      BY <1>2
    <2>2. q = r
      BY <1>1, <1>5, <2>1
    <2>. QED
      BY <1>1, <2>1, <2>2
  <1>6. FoldSet(Rewatch, r, S) \in G[S]
    BY <1>2, <1>3, <1>4, <1>5, RewatchFold
  <1>7. RewatchMismatches(r, resets) = FoldSet(Rewatch, r, S)
    BY <1>1 DEF RewatchMismatches
  <1>8. S = {} <=> ~(Query \in resets /\ Watched(r))
    BY <1>1, <1>2 DEF Watched
  <1>. QED
    BY <1>1, <1>6, <1>7, <1>8

\* The resolutions of q are those of r, perhaps further on.
SameWork(q, r) ==
    /\ q.byKey = r.byKey /\ q.enqueued = r.enqueued
    /\ DOMAIN q.resolutions = DOMAIN r.resolutions
    /\ \A t \in DOMAIN r.resolutions : q.resolutions[t].key = r.resolutions[t].key

\* What the limbo targets have delivered does not concern the query.
LEMMA ResolutionsShape ==
  ASSUME NEW r \in Remotes, NEW changes
  PROVE  SameQuery(UpdateResolutions(r, changes), r) /\ SameWork(UpdateResolutions(r, changes), r)
  <1>1. PICK q : q = UpdateResolutions(r, changes)
    OBVIOUS
  <1>2. /\ q.open = r.open /\ q.resets = r.resets /\ q.targets = r.targets /\ q.up = r.up
        /\ q.listen = r.listen /\ q.byKey = r.byKey /\ q.enqueued = r.enqueued
    BY <1>1 DEF UpdateResolutions, Remotes
  <1>3. r.resolutions \in Maps(Nat, Resolutions)
    BY DEF Remotes
  <1>4. \A t \in DOMAIN r.resolutions : r.resolutions[t] \in Resolutions
    BY <1>3, MapFacts
  <1>5. DOMAIN q.resolutions = DOMAIN r.resolutions
        /\ \A t \in DOMAIN r.resolutions : q.resolutions[t].key = r.resolutions[t].key
    BY <1>1, <1>4 DEF UpdateResolutions, Remotes, Resolutions
  <1>. QED
    BY <1>1, <1>2, <1>5, SameQueryFields DEF SameWork

\* u is r after the snapshot m has told changes: what the query's target had
\* collected has been handed on, with the token of the snapshot.
Told(u, r, changes, m) ==
    /\ u.open = r.open /\ u.up = r.up /\ u.resets = {} /\ SameLimbo(u, r)
    /\ DOMAIN u.listen = DOMAIN r.listen
    /\ IF Query \in DOMAIN changes
       THEN /\ IsActive(r, Query) /\ State(u, Query).out = 0
            /\ changes[Query].changes = State(r, Query).changes /\ changes[Query].token = m.ver
            /\ DOMAIN State(u, Query).changes = {}
            /\ m.ver # 0 => u.listen[Query] = [key |-> r.listen[Query].key, token |-> m.ver]
       ELSE /\ State(u, Query) = State(r, Query)
            /\ Query \in DOMAIN r.listen => u.listen[Query] = r.listen[Query]

\* What ApplyRemoteEvent can be called with.
Fits(w, changes, updates) ==
    /\ updates \in Maps(Docs, Versions) /\ w \in Remotes
    /\ \A synced : UpdateResolutions(w, changes) \in Good(Delivered(conn), synced)
    /\ Query \in DOMAIN changes =>
          changes[Query] \in States /\ Marked(changes[Query], "modified") \subseteq view.synced

\* The stages of a snapshot.
LEMMA SnapshotStages ==
  ASSUME NEW m, Coming(m), m.type = "snapshot", Snapshot(m)
  PROVE  \E u, w, changes, updates :
            /\ u \in Remotes /\ w \in Remotes
            /\ Told(u, remote, changes, m) /\ Fits(w, changes, updates)
            /\ w = IF Query \in remote.resets /\ Watched(remote) THEN Rewatch(Query, u) ELSE u
            /\ ApplyRemoteEvent(w, changes, updates, m.docs)
  <1>1. /\ conn \in Conns /\ conn.down # <<>> /\ remote \in Good(conn, view.synced) /\ remote \in Remotes
        /\ remote.open /\ m = Head(conn.down) /\ m \in Messages /\ Delivered(conn) \in Conns
        /\ view.synced \subseteq Docs
    BY ComingFacts DEF Coming
  <1>2. view \in Views /\ store \in Stores
    BY DEF Coming, IInv
  <1>3. m.ver \in Tokens /\ m.docs \in SUBSET Docs /\ (\A t \in Nat : m \notin Answers(t))
    BY <1>1, MessageFields
  <1>4. PICK b, synced : b = Delivered(conn) /\ synced = view.synced
    OBVIOUS
  <1>5. b \in Conns /\ remote \in Good(b, synced)
    BY <1>1, <1>3, <1>4, DeliveredSound
  <1>6. PICK tokens, r, changes, k, u, w :
           /\ tokens = Tokened(remote, m.ver)
           /\ r = SynthesizeDeletes(tokens, m.ver)
           /\ changes = TargetChanges(r)
           /\ k = ClearPending(r)
           /\ u = UpdateTokens(k, changes)
           /\ w = RewatchMismatches(u, r.resets)
    OBVIOUS
  <1>7. ApplyRemoteEvent(w, changes, r.updates, m.docs)
    BY <1>6 DEF Snapshot, Tokened
  <1>8. /\ tokens \in Good(b, synced) /\ Collects(tokens, remote)
        /\ DOMAIN tokens.targets = DOMAIN remote.targets
        /\ IF IsActive(remote, Query) /\ Query \in DOMAIN remote.targets
           THEN /\ State(tokens, Query).changes = State(remote, Query).changes
                /\ State(tokens, Query).out = State(remote, Query).out
                /\ State(tokens, Query).token = m.ver
                /\ State(tokens, Query).dirty
           ELSE State(tokens, Query) = State(remote, Query)
    <2>1. tokens \in Good(b, synced)
      BY <1>1, <1>3, <1>5, <1>6, SnapshotTokensSound DEF Tokened
    <2>. QED
      BY <1>1, <1>3, <1>6, <2>1, TokenedShape
  <1>9. tokens.open /\ tokens \in Remotes
    BY <1>1, <1>8 DEF Collects, SameListens, Good
  <1>10. r \in Good(b, synced) /\ SameListens(r, tokens) /\ r \in Remotes
    BY <1>1, <1>3, <1>4, <1>5, <1>6, <1>8, <1>9, SynthesizeDeletesSound DEF Good
  <1>11. /\ Collects(r, tokens) /\ State(r, Query) = State(tokens, Query)
         /\ Query \in DOMAIN r.targets <=> Query \in DOMAIN tokens.targets
    BY <1>1, <1>3, <1>4, <1>5, <1>6, <1>8, <1>9, DeletesShape
  <1>12. Collects(r, remote) /\ r.open
    BY <1>8, <1>9, <1>11 DEF Collects, SameListens
  <1>13. k \in Clean(b)
    BY <1>5, <1>6, <1>10, <1>12, ClearPendingClean
  <1>14. /\ SameListens(k, r) /\ k.enqueued = r.enqueued /\ k.resets = {}
         /\ IF Query \in DOMAIN changes
            THEN /\ changes[Query] = State(r, Query)
                 /\ IsActive(r, Query) /\ State(r, Query).dirty
                 /\ State(k, Query).out = State(r, Query).out
                 /\ DOMAIN State(k, Query).changes = {}
            ELSE /\ State(k, Query) = State(r, Query)
                 /\ Query \notin DOMAIN r.targets \/ ~IsActive(r, Query) \/ ~State(r, Query).dirty
    BY <1>6, <1>10, ClearedShape
  <1>15. \A t \in DOMAIN changes : changes[t] \in States
    BY <1>5, <1>6, <1>10, TargetChangesFacts
  <1>16. u \in Clean(b) /\ u \in Remotes /\ k \in Remotes
    <2>1. PICK p : p = UpdateTokens(k, changes)
      OBVIOUS
    <2>2. p \in Clean(b)
      BY <1>5, <1>13, <1>15, <2>1, UpdateTokensClean
    <2>. QED
      BY <1>6, <1>13, <2>1, <2>2 DEF Clean, Good
  <1>17. /\ Retokened(u, k)
         /\ Query \in DOMAIN k.listen =>
               IF Query \in DOMAIN changes /\ changes[Query].token # 0
               THEN u.listen[Query] = [key |-> k.listen[Query].key, token |-> changes[Query].token]
               ELSE u.listen[Query] = k.listen[Query]
    BY <1>6, <1>15, <1>16, UpdateTokensShape
  <1>18. State(u, Query) = State(k, Query)
    BY <1>17 DEF State, Retokened
  <1>19. IsActive(r, Query) => IsActive(remote, Query)
    <2>1. State(r, Query).out = State(remote, Query).out
      BY <1>8, <1>11
    <2>. QED
      BY <1>12, <2>1 DEF IsActive, Collects, SameListens
  <1>20. IsActive(remote, Query) => IsActive(r, Query)
    <2>1. State(r, Query).out = State(remote, Query).out
      BY <1>8, <1>11
    <2>. QED
      BY <1>12, <2>1 DEF IsActive, Collects, SameListens
  <1>21. k.listen = remote.listen /\ k.open = remote.open /\ k.up = remote.up /\ SameLimbo(k, remote)
    BY <1>12, <1>14 DEF Collects, SameListens, SameLimbo
  <1>22. /\ u.open = remote.open /\ u.up = remote.up /\ u.resets = {} /\ SameLimbo(u, remote)
         /\ DOMAIN u.listen = DOMAIN remote.listen
    BY <1>14, <1>17, <1>21 DEF Retokened, SameLimbo
  <1>23. Told(u, remote, changes, m)
    <2>1. CASE Query \in DOMAIN changes
      <3>1. Query \in DOMAIN r.targets /\ IsActive(remote, Query) /\ Query \in DOMAIN remote.targets
        BY <1>6, <1>8, <1>11, <1>14, <1>19, <2>1 DEF TargetChanges
      <3>2. /\ State(tokens, Query).changes = State(remote, Query).changes
            /\ State(tokens, Query).out = State(remote, Query).out
            /\ State(tokens, Query).token = m.ver
        BY <1>8, <3>1
      <3>3. changes[Query].changes = State(remote, Query).changes /\ changes[Query].token = m.ver
        BY <1>11, <1>14, <2>1, <3>2
      <3>4. State(u, Query).out = 0 /\ DOMAIN State(u, Query).changes = {}
        BY <1>11, <1>14, <1>18, <2>1, <3>1, <3>2 DEF IsActive
      <3>5. Query \in DOMAIN k.listen
        BY <1>21, <3>1 DEF IsActive
      <3>6. m.ver # 0 => u.listen[Query] = [key |-> remote.listen[Query].key, token |-> m.ver]
        BY <1>17, <1>21, <2>1, <3>3, <3>5
      <3>. QED
        BY <1>22, <2>1, <3>1, <3>3, <3>4, <3>6 DEF Told
    <2>2. CASE Query \notin DOMAIN changes
      <3>1. ~(IsActive(remote, Query) /\ Query \in DOMAIN remote.targets)
        BY <1>8, <1>11, <1>14, <1>20, <2>2
      <3>2. State(tokens, Query) = State(remote, Query)
        BY <1>8, <3>1
      <3>3. State(u, Query) = State(remote, Query)
        BY <1>11, <1>14, <1>18, <2>2, <3>2
      <3>4. Query \in DOMAIN remote.listen => u.listen[Query] = remote.listen[Query]
        BY <1>17, <1>21, <2>2
      <3>. QED
        BY <1>22, <2>2, <3>3, <3>4 DEF Told
    <2>. QED
      BY <2>1, <2>2
  <1>24. r.resets = remote.resets /\ r.resets \subseteq {Query} /\ (Watched(u) <=> Watched(remote))
    BY <1>10, <1>12, <1>22 DEF Collects, Good, Sound, Idle, Watched
  <1>25. w = IF Query \in remote.resets /\ Watched(remote) THEN Rewatch(Query, u) ELSE u
    <2>1. PICK rs : rs = r.resets
      OBVIOUS
    <2>2. /\ ~(Query \in rs /\ Watched(u)) => RewatchMismatches(u, rs) = u
          /\ Query \in rs /\ Watched(u) => RewatchMismatches(u, rs) = Rewatch(Query, u)
      BY <1>16, <1>24, <2>1, MismatchesShape
    <2>. QED
      BY <1>6, <1>24, <2>1, <2>2
  <1>26. w \in Clean(b) /\ w.resolutions = u.resolutions
    <2>1. u.open
      BY <1>1, <1>22
    <2>2. Query \in r.resets \cap DOMAIN u.listen => State(u, Query).out = 0
      <3>1. Idle(r) /\ (Query \in r.resets \cap DOMAIN r.listen => State(r, Query).out = 0)
        BY <1>10 DEF Good, Sound, Idle
      <3>2. DOMAIN u.listen = DOMAIN r.listen /\ State(u, Query).out = State(r, Query).out
        BY <1>12, <1>14, <1>18, <1>22 DEF Collects, SameListens
      <3>. QED
        BY <3>1, <3>2
    <2>3. PICK rs, p : rs = r.resets /\ p = RewatchMismatches(u, rs)
      OBVIOUS
    <2>4. p \in Clean(b) /\ p.resolutions = u.resolutions
      BY <1>5, <1>16, <1>24, <2>1, <2>2, <2>3, RewatchMismatchesClean
    <2>. QED
      BY <1>6, <2>3, <2>4
  <1>27. w.resolutions = r.resolutions
    BY <1>12, <1>22, <1>26 DEF Collects, SameListens, SameLimbo
  <1>28. /\ Resolved(w, changes)
         /\ Query \in DOMAIN changes => Marked(changes[Query], "modified") \subseteq synced
    BY <1>5, <1>6, <1>10, <1>27, TargetChangesFacts
  <1>29. UpdateResolutions(w, changes) \in Clean(b)
    BY <1>5, <1>26, <1>28, UpdateResolutionsClean
  <1>30. \A s : UpdateResolutions(w, changes) \in Good(b, s)
    BY <1>29, CleanIsGood
  <1>31. r.updates \in Maps(Docs, Versions) /\ w \in Remotes
    BY <1>10, <1>26 DEF Remotes, Clean, Good
  <1>32. Fits(w, changes, r.updates)
    BY <1>4, <1>15, <1>28, <1>30, <1>31 DEF Fits
  <1>. QED
    BY <1>7, <1>16, <1>23, <1>25, <1>31, <1>32

\* A query asked for anew has everything to be told, and nothing to remember.
LEMMA AnewQuery ==
  ASSUME NEW sv \in Servers, Dated(sv), NEW u \in Remotes, NEW w, AskedAnew(w, u),
         u.listen[Query].key = All, Silent(u), NEW c, NEW synced
  PROVE  Resumes(sv, w, c, synced)
  <1>1. PICK e, f \in Requests :
           /\ e.op = "unwatch" /\ e.id = Query
           /\ f.op = "watch" /\ f.id = Query /\ f.key = u.listen[Query].key /\ f.token = 0
           /\ w.up = Append(Append(u.up, e), f)
    BY DEF AskedAnew
  <1>2. PICK s, p, q, n : s = u.up /\ p = Append(s, e) /\ q = Append(p, f) /\ n = Len(s)
    OBVIOUS
  <1>3. s \in Seq(Requests) /\ w.up = q
    BY <1>1, <1>2 DEF Remotes
  <1>4. /\ n \in Nat /\ DOMAIN s = 1..n /\ DOMAIN q = 1..(n + 2) /\ q[n + 1] = e /\ q[n + 2] = f
        /\ \A i \in 1..n : q[i] = s[i]
    BY <1>2, <1>3
  <1>5. \A i \in 1..n : s[i].id # Query
    BY <1>2, <1>4 DEF Silent
  <1>6. Complete(sv, synced, 0)
    <2>1. sv.now \in Nat /\ \A d \in Docs : sv.docs[d].ver \in Nat
      BY DEF Servers, Tokens, Versions
    <2>. QED
      BY <2>1 DEF Complete, Dated
  <1>7. \A i \in DOMAIN q : i = n + 2 \/ i = n + 1 \/ i \in 1..n
    BY <1>4
  <1>8. Asked(sv, w, synced)
    <2>1. \A i \in DOMAIN q : Asks(q[i]) => q[i].key = All /\ q[i].token = 0
      BY <1>1, <1>4, <1>5, <1>7 DEF Asks
    <2>. QED
      BY <1>3, <1>6, <2>1 DEF Asked, AskedAnew
  <1>9. n + 2 \in DOMAIN q /\ Asks(q[n + 2])
    BY <1>1, <1>4 DEF Asks
  <1>10. Rewatched(w, c)
    <2>1. \A i \in DOMAIN q : q[i].id = Query /\ q[i].op = "unwatch" => n + 2 > i
      BY <1>4, <1>5, <1>7, <1>1
    <2>. QED
      BY <1>3, <1>9, <2>1 DEF Rewatched
  <1>11. ~Silent(w)
    BY <1>3, <1>9 DEF Silent, Asks
  <1>. QED
    BY <1>8, <1>10, <1>11 DEF Resumes, Listed

\* Who collects from the first message on, and sees a snapshot first, is complete.
LEMMA SnapshotTells ==
  ASSUME NEW c \in Conns, c.down # <<>>, NEW m, m = Head(c.down), m.type = "snapshot",
         NEW sv, NEW B, Tells(sv, B, c, 0)
  PROVE  Complete(sv, B, m.ver)
  <1>1. 1 \in DOMAIN c.down /\ c.down[1] = m /\ DOMAIN c.down = 1..Len(c.down)
    BY TailFacts DEF Conns
  <1>2. Complete(sv, Held(B, c.down, 0, 1), m.ver)
    BY <1>1 DEF Tells
  <1>3. Between(c.down, 0, 1) = {}
    BY <1>1 DEF Between
  <1>4. Held(B, c.down, 0, 1) \subseteq B
    BY <1>3 DEF Held, Holds
  <1>. QED
    BY <1>2, <1>4 DEF Complete

\* The query before its changes are handed on: it knows all the snapshot tells.
LEMMA ActiveTells ==
  ASSUME NEW m, Arriving(m), m.type = "snapshot", IsActive(remote, Query)
  PROVE  /\ Watched(remote) /\ Silent(remote)
         /\ Asked(server, remote, view.synced) /\ Rewatched(remote, conn)
         /\ Query \notin remote.resets =>
               /\ Tells(server, Base(remote, view.synced), Delivered(conn), 0)
               /\ Complete(server, Base(remote, view.synced), m.ver)
  <1>1. /\ conn \in Conns /\ remote \in Good(conn, view.synced) /\ remote.open
        /\ Resumes(server, remote, conn, view.synced)
    BY ArrivingFacts
  <1>2. conn.down # <<>> /\ m = Head(conn.down)
    BY DEF Arriving
  <1>3. Query \in DOMAIN remote.listen /\ State(remote, Query).out = 0
    BY DEF IsActive
  <1>4. Silent(remote)
    BY <1>1, <1>3, NothingPending DEF Silent
  <1>5. /\ Asked(server, remote, view.synced) /\ Rewatched(remote, conn)
        /\ Listed(server, remote, conn, view.synced)
    BY <1>1, <1>3 DEF Resumes, Watched
  <1>6. ASSUME Query \notin remote.resets
        PROVE  /\ Tells(server, Base(remote, view.synced), Delivered(conn), 0)
               /\ Complete(server, Base(remote, view.synced), m.ver)
    <2>1. 0 \in Starts(remote, conn)
      BY <1>3 DEF Starts
    <2>2. Tells(server, Base(remote, view.synced), conn, 0)
      BY <1>1, <1>4, <1>5, <1>6, <2>1 DEF Listed
    <2>3. Complete(server, Base(remote, view.synced), m.ver)
      BY <1>1, <1>2, <2>2, SnapshotTells
    <2>4. \A d \in Docs : ~Adds(m, d)
      BY DEF Adds
    <2>5. Tells(server, Base(remote, view.synced), Delivered(conn), 0)
      BY <1>1, <1>2, <2>2, <2>4, TellsTaken
    <2>. QED
      BY <2>3, <2>5
  <1>. QED
    BY <1>3, <1>4, <1>5, <1>6 DEF Watched

\* A snapshot: the query has what it collected, and is complete to the snapshot;
\* or what it collected did not add up, and it begins again.
LEMMA SnapshotQuery ==
  ASSUME NEW m, Arriving(m), m.type = "snapshot", Snapshot(m)
  PROVE  /\ Resumes(server, remote', Delivered(conn), view'.synced)
         /\ Watched(remote') => Watched(remote)
         /\ Query \notin remote.resets =>
               /\ Query \notin remote'.resets
               /\ Complete(server, view.synced, store.token) => Complete(server, view'.synced, store'.token)
  <1>1. /\ conn \in Conns /\ conn.down # <<>> /\ remote \in Good(conn, view.synced) /\ remote \in Remotes
        /\ remote.open /\ m = Head(conn.down) /\ Delivered(conn) \in Conns
        /\ Resumes(server, remote, conn, view.synced)
    BY ArrivingFacts DEF Arriving
  <1>2. view \in Views /\ store \in Stores /\ server \in Servers /\ Dated(server)
    BY DEF Arriving, IInv, QInv
  <1>3. m.ver # 0 /\ m.docs \in SUBSET Docs
    <2>1. m = conn.down[1] /\ 1 \in DOMAIN conn.down /\ m \in Messages
      BY <1>1, TailFacts DEF Conns
    <2>2. m.ver # 0
      BY <2>1 DEF Arriving, QInv
    <2>. QED
      BY <2>1, <2>2, MessageFields
  <1>4. PICK u, w, changes, updates :
            /\ u \in Remotes /\ w \in Remotes
            /\ Told(u, remote, changes, m) /\ Fits(w, changes, updates)
            /\ w = IF Query \in remote.resets /\ Watched(remote) THEN Rewatch(Query, u) ELSE u
            /\ ApplyRemoteEvent(w, changes, updates, m.docs)
    <2>1. Coming(m)
      BY DEF Arriving, Coming
    <2>. QED
      BY <2>1, SnapshotStages
  <1>5. SameQuery(remote', UpdateResolutions(w, changes)) /\ Applied(changes)
    <2>1. /\ updates \in Maps(Docs, Versions)
          /\ \A synced : UpdateResolutions(w, changes) \in Good(Delivered(conn), synced)
          /\ Query \in DOMAIN changes =>
                changes[Query] \in States /\ Marked(changes[Query], "modified") \subseteq view.synced
      BY <1>4 DEF Fits
    <2>. QED
      BY <1>1, <1>2, <1>3, <1>4, <2>1, ApplyShape
  <1>6. SameQuery(remote', w)
    BY <1>4, <1>5, ResolutionsShape, SameQueryTrans
  <1>7. Query \in DOMAIN changes =>
           /\ IsActive(remote, Query) /\ view'.synced = Base(remote, view.synced)
           /\ store'.token = PersistedToken(store.token, changes[Query])
    <2>1. ASSUME Query \in DOMAIN changes
          PROVE  Marking(changes[Query], view.synced) = Base(remote, view.synced)
      BY <1>4, <2>1 DEF Told, Marking, Marked, Base
    <2>. QED
      BY <1>4, <1>5, <2>1 DEF Told, Applied
  <1>8. Query \notin DOMAIN changes => view'.synced = view.synced /\ store'.token = store.token
    BY <1>5 DEF Applied
  <1>9. Resumes(server, w, Delivered(conn), view'.synced)
    <2>1. CASE Query \in remote.resets /\ Watched(remote)
      <3>1. State(remote, Query).out = 0 /\ IsActive(remote, Query)
        BY <1>1, <2>1 DEF Good, Sound, Idle, Watched, IsActive
      <3>2. Silent(remote) /\ Asked(server, remote, view.synced)
        BY <3>1, ActiveTells
      <3>3. Silent(u) /\ u.listen[Query].key = All /\ Watched(u)
        <4>1. u.up = remote.up /\ DOMAIN u.listen = DOMAIN remote.listen
          BY <1>4 DEF Told
        <4>2. u.listen[Query].key = remote.listen[Query].key
          BY <1>3, <1>4, <2>1 DEF Told, Watched
        <4>. QED
          BY <2>1, <3>2, <4>1, <4>2 DEF Silent, Asked, Watched
      <3>4. AskedAnew(w, u)
        BY <1>4, <2>1, <3>3, RewatchShape
      <3>5. u \in Remotes
        BY <1>4
      <3>. QED
        BY <1>2, <3>3, <3>4, <3>5, AnewQuery
    <2>2. CASE ~(Query \in remote.resets /\ Watched(remote)) /\ Query \notin DOMAIN changes
      <3>1. w = u
        BY <1>4, <2>2
      <3>2. CASE ~Watched(remote)
        BY <1>4, <3>1, <3>2 DEF Told, Resumes, Watched
      <3>3. CASE Watched(remote)
        <4>1. remote.resets = {} /\ u.resets = {}
          BY <1>1, <1>4, <2>2, <3>3 DEF Good, Sound, Idle, Told
        <4>2. SameQuery(u, remote)
          BY <1>4, <2>2, <4>1 DEF Told, SameQuery, SameListen, Continues, Watched
        <4>3. \A d \in Docs : ~Adds(Head(conn.down), d)
          BY <1>1 DEF Adds
        <4>. QED
          BY <1>1, <1>8, <2>2, <3>1, <4>2, <4>3, TakenElsewhere
      <3>. QED
        BY <3>2, <3>3
    <2>3. CASE Query \notin remote.resets /\ Query \in DOMAIN changes
      <3>1. w = u
        BY <1>4, <2>3
      <3>2. PICK B : B = Base(remote, view.synced)
        OBVIOUS
      <3>3. view'.synced = B
        BY <1>7, <2>3, <3>2
      <3>4. /\ Silent(remote) /\ Asked(server, remote, view.synced) /\ Rewatched(remote, conn)
            /\ Tells(server, B, Delivered(conn), 0) /\ Complete(server, B, m.ver)
        BY <1>7, <2>3, <3>2, ActiveTells
      <3>5. /\ u.up = remote.up /\ u.listen[Query].key = All /\ u.listen[Query].token = m.ver
            /\ State(u, Query).out = 0 /\ DOMAIN State(u, Query).changes = {}
        BY <1>3, <1>4, <2>3, <3>4 DEF Told, Asked
      <3>6. Asked(server, u, B)
        BY <3>4, <3>5 DEF Asked, Silent, Asks
      <3>7. Rewatched(u, Delivered(conn))
        <4>1. Continues(u, remote)
          BY <3>5 DEF Continues
        <4>. QED
          BY <1>1, <3>4, <4>1, RewatchedSame, RewatchedTaken
      <3>8. Listed(server, u, Delivered(conn), B)
        <4>1. Base(u, B) = B
          BY <3>5, UnmarkedBase
        <4>2. Starts(u, Delivered(conn)) = {0}
          BY <3>5 DEF Starts
        <4>. QED
          BY <3>4, <4>1, <4>2 DEF Listed
      <3>. QED
        BY <3>1, <3>3, <3>6, <3>7, <3>8 DEF Resumes
    <2>4. CASE Query \in remote.resets /\ ~Watched(remote) /\ Query \in DOMAIN changes
      BY <1>7, <2>4, ActiveTells
    <2>. QED
      BY <2>1, <2>2, <2>3, <2>4
  <1>10. Resumes(server, remote', Delivered(conn), view'.synced)
    BY <1>6, <1>9, ResumesSame
  <1>11. ASSUME Query \notin remote.resets
         PROVE  /\ Query \notin remote'.resets
                /\ Complete(server, view.synced, store.token) => Complete(server, view'.synced, store'.token)
    <2>1. Query \notin remote'.resets
      BY <1>4, <1>6, <1>11 DEF Told, SameQuery
    <2>2. ASSUME Complete(server, view.synced, store.token), Query \in DOMAIN changes
          PROVE  Complete(server, view'.synced, store'.token)
      <3>1. PICK B, q : B = Base(remote, view.synced) /\ q = changes[Query]
        OBVIOUS
      <3>2. view'.synced = B /\ Complete(server, B, m.ver) /\ store'.token = PersistedToken(store.token, q)
        BY <1>7, <1>11, <2>2, <3>1, ActiveTells
      <3>3. q.token = m.ver /\ q.changes = State(remote, Query).changes
        BY <1>4, <2>2, <3>1 DEF Told
      <3>4. CASE store'.token = m.ver
        BY <3>2, <3>4
      <3>5. CASE store'.token # m.ver
        <4>1. q.changes = <<>> /\ store'.token = store.token
          BY <1>3, <3>2, <3>3, <3>5 DEF PersistedToken
        <4>2. DOMAIN State(remote, Query).changes = {}
          BY <3>3, <4>1, EmptyMap
        <4>3. B = view.synced
          BY <3>1, <4>2, UnmarkedBase
        <4>. QED
          BY <2>2, <3>2, <4>1, <4>3
      <3>. QED
        BY <3>4, <3>5
    <2>. QED
      BY <1>8, <2>1, <2>2
  <1>12. Watched(remote') => Watched(remote)
    <2>1. ASSUME Watched(w), ~Watched(remote)
          PROVE  FALSE
      BY <1>4, <2>1 DEF Told, Watched
    <2>. QED
      BY <1>6, <2>1 DEF SameQuery, SameListen
  <1>. QED
    BY <1>10, <1>11, <1>12

\* What the app has stored stays good when m is taken.
Storing == left.restarts > 0 => /\ Query \notin remote'.resets
                                /\ Complete(server, view'.synced, store'.token)

\* A client that only collects, stores nothing.
LEMMA CollectingStores ==
  ASSUME QInv, view' = view, store' = store, left.restarts > 0 => remote'.resets = remote.resets
  PROVE  Storing
  BY DEF QInv, Kept, Storing

\* The aggregator does not listen to anything else.
LEMMA ListensStay ==
  ASSUME NEW r \in Remotes, NEW t
  PROVE  /\ TargetAdded(r, t).listen = r.listen /\ TargetRemoved(r, t).listen = r.listen
         /\ \A token : TargetCurrent(r, t, token).listen = r.listen
         /\ TargetReset(r, t).listen = r.listen
         /\ \A ts, d, doc : HandleDocumentChange(r, ts, d, doc).listen = r.listen
         /\ \A count : HandleExistenceFilter(r, t, count).listen = r.listen
  <1>1. \A u, st : SetTarget(r, u, st).listen = r.listen
    BY DEF SetTarget, Remotes
  <1>2. TargetAdded(r, t).listen = r.listen
    BY <1>1, Zenon DEF TargetAdded
  <1>3. TargetRemoved(r, t).listen = r.listen
    <2>1. [r EXCEPT !.targets = Without(@, t)].listen = r.listen
      BY DEF Remotes
    <2>. QED
      BY <1>1, <2>1, Zenon DEF TargetRemoved
  <1>4. \A token : TargetCurrent(r, t, token).listen = r.listen
    BY <1>1, Zenon DEF TargetCurrent
  <1>5. ResetTarget(r, t).listen = r.listen
    BY <1>1, Zenon DEF ResetTarget
  <1>6. TargetReset(r, t).listen = r.listen
    BY <1>5, Zenon DEF TargetReset
  <1>7. \A ts, d, doc : HandleDocumentChange(r, ts, d, doc).listen = r.listen
    BY DEF HandleDocumentChange, Remotes
  <1>8. \A count : HandleExistenceFilter(r, t, count).listen = r.listen
    <2>1. PICK p : p = ResetTarget(r, t)
      OBVIOUS
    <2>2. [p EXCEPT !.resets = @ \cup {t}].listen = p.listen
      <3>1. p = [r EXCEPT !.targets = p.targets]
        BY <2>1 DEF ResetTarget, SetTarget, Remotes
      <3>. QED
        BY <3>1 DEF Remotes
    <2>3. \A ok : [r EXCEPT !.ok = ok].listen = r.listen
      BY DEF Remotes
    <2>. QED
      BY <1>5, <1>7, <2>1, <2>2, <2>3, SMTT(40) DEF HandleExistenceFilter
  <1>. QED
    BY <1>2, <1>3, <1>4, <1>6, <1>7, <1>8

\* The client takes a message.
LEMMA ReceiveQuery ==
  ASSUME IInv, QInv, Receive
  PROVE  QInv'
  <1>1. PICK m : m = Head(conn.down)
    OBVIOUS
  <1>2. Arriving(m) /\ conn' = Delivered(conn) /\ server' = server /\ left' = left
    BY <1>1 DEF Arriving, Receive, Delivered
  <1>3. conn \in Conns /\ conn.down # <<>> /\ m \in Messages
    BY <1>2, ArrivingFacts DEF Arriving
  <1>l. remote \in Remotes
    BY DEF IInv, Good
  <1>4. \/ m.type = "document" /\ remote' = HandleDocumentChange(remote, m.ids, m.key, m.doc)
           /\ view' = view /\ store' = store
        \/ m.type = "added" /\ remote' = TargetAdded(remote, m.id) /\ view' = view /\ store' = store
        \/ m.type = "removed" /\ remote' = TargetRemoved(remote, m.id) /\ view' = view /\ store' = store
        \/ m.type = "current" /\ remote' = TargetCurrent(remote, m.id, m.token)
           /\ view' = view /\ store' = store
        \/ m.type = "reset" /\ remote' = TargetReset(remote, m.id) /\ view' = view /\ store' = store
        \/ m.type = "filter" /\ remote' = HandleExistenceFilter(remote, m.id, m.count)
           /\ view' = view /\ store' = store
        \/ m.type = "snapshot" /\ Snapshot(m)
        \/ m.type = "rejected" /\ HandleRejectedListen(m.id)
    BY <1>1 DEF Receive
  <1>5. 1 \in DOMAIN conn.down /\ conn.down[1] = m
        /\ \A i \in DOMAIN Delivered(conn).down :
              i + 1 \in DOMAIN conn.down /\ Delivered(conn).down[i] = conn.down[i + 1]
    BY <1>1, <1>3, TailFacts DEF Conns, Delivered
  <1>6. Resumes(server, remote', Delivered(conn), view'.synced) /\ Storing /\ (Watched(remote') => Watched(remote))
    <2>1. CASE m.type = "document" /\ remote' = HandleDocumentChange(remote, m.ids, m.key, m.doc)
               /\ view' = view /\ store' = store
      BY <1>2, <1>l, ListensStay, <2>1, DocumentQuery, CollectingStores DEF Watched
    <2>2. CASE m.type = "added" /\ remote' = TargetAdded(remote, m.id) /\ view' = view /\ store' = store
      BY <1>2, <1>l, ListensStay, <2>2, AddedQuery, CollectingStores DEF Watched
    <2>3. CASE m.type = "removed" /\ remote' = TargetRemoved(remote, m.id) /\ view' = view /\ store' = store
      BY <1>2, <1>l, ListensStay, <2>3, RemovedQuery, CollectingStores DEF Watched
    <2>4. CASE m.type = "current" /\ remote' = TargetCurrent(remote, m.id, m.token)
               /\ view' = view /\ store' = store
      <3>1. remote'.listen = remote.listen
        BY <1>l, <2>4, ListensStay, SMTT(40)
      <3>. QED
        BY <1>2, <2>4, <3>1, CurrentQuery, CollectingStores DEF Watched
    <2>5. CASE m.type = "reset" /\ remote' = TargetReset(remote, m.id) /\ view' = view /\ store' = store
      BY <1>2, <1>l, ListensStay, <2>5, ResetQuery, CollectingStores DEF Watched
    <2>6. CASE m.type = "filter" /\ remote' = HandleExistenceFilter(remote, m.id, m.count)
               /\ view' = view /\ store' = store
      <3>1. Resumes(server, remote', Delivered(conn), view'.synced)
            /\ (remote'.resets = remote.resets \/ (m.id = Query /\ Watched(remote)))
        BY <1>2, <2>6, FilterQuery
      <3>2. left.restarts > 0 => m.id # Query \/ ~Watched(remote)
        BY <1>5, <2>6 DEF QInv, Uncounted
      <3>3. Storing
        BY <2>6, <3>1, <3>2, CollectingStores
      <3>. QED
        BY <1>l, ListensStay, <2>6, <3>1, <3>3 DEF Watched
    <2>7. CASE m.type = "snapshot" /\ Snapshot(m)
      <3>1. /\ Resumes(server, remote', Delivered(conn), view'.synced) /\ (Watched(remote') => Watched(remote))
            /\ Query \notin remote.resets =>
                  /\ Query \notin remote'.resets
                  /\ Complete(server, view.synced, store.token) => Complete(server, view'.synced, store'.token)
        BY <1>2, <2>7, SnapshotQuery
      <3>2. Storing
        BY <3>1 DEF QInv, Kept, Storing
      <3>. QED
        BY <3>1, <3>2
    <2>8. CASE m.type = "rejected" /\ HandleRejectedListen(m.id)
      <3>1. /\ Resumes(server, remote', Delivered(conn), view'.synced)
            /\ remote'.resets = remote.resets /\ (Watched(remote') => Watched(remote))
            /\ view'.synced = view.synced /\ store'.token = store.token
        BY <1>2, <2>8, RejectedQuery
      <3>2. Storing
        BY <3>1 DEF QInv, Kept, Storing
      <3>. QED
        BY <3>1, <3>2
    <2>. QED
      BY <1>4, <2>1, <2>2, <2>3, <2>4, <2>5, <2>6, <2>7, <2>8
  <1>7. Kept'
    BY <1>2, <1>6 DEF Kept, Storing
  <1>8. Uncounted'
    BY <1>2, <1>5, <1>6 DEF QInv, Uncounted
  <1>9. \A i \in DOMAIN conn'.down : conn'.down[i].type = "snapshot" => conn'.down[i].ver # 0
    BY <1>2, <1>5 DEF QInv
  <1>. QED
    BY <1>2, <1>6, <1>7, <1>8, <1>9 DEF QInv

-----------------------------------------------------------------------------
(* What the server says                                                    *)

\* The elements of w are those of S.
Exactly(w, S) == (\A i \in DOMAIN w : w[i] \in S) /\ \A x \in S : \E i \in DOMAIN w : w[i] = x

\* A finite set put in a sequence: its elements, and all of them.
LEMMA SetToSeqElements ==
  ASSUME NEW S, IsFiniteSet(S)
  PROVE  Exactly(SetToSeq(S), S)
  <1>1. PICK n : n = Cardinality(S)
    OBVIOUS
  <1>2. n \in Nat /\ ExistsBijection(1..n, S)
    BY <1>1, FS_CardinalityType
  <1>3. \E f \in [1..n -> S] : IsInjective(f)
    BY <1>2 DEF ExistsBijection, Bijection, Injection
  <1>4. SetToSeq(S) = CHOOSE f \in [1..n -> S] : IsInjective(f)
    BY <1>1 DEF SetToSeq
  <1>5. SetToSeq(S) \in [1..n -> S] /\ IsInjective(SetToSeq(S))
    BY <1>3, <1>4
  <1>6. PICK f, D : f = SetToSeq(S) /\ D = 1..n
    OBVIOUS
  <1>7. f \in Injection(D, S)
    BY <1>5, <1>6 DEF Injection
  <1>8. IsFiniteSet(D)
    BY <1>7, FS_Injection
  <1>9. Cardinality(S) = Cardinality(D)
    BY <1>2, <1>6, <1>8, FS_Bijection
  <1>10. f \in Surjection(D, S)
    BY <1>7, <1>9, FS_Injection
  <1>. QED
    BY <1>6, <1>10 DEF Surjection, Exactly

\* The elements of two sequences put together.
LEMMA JoinExactly ==
  ASSUME NEW T, NEW v \in Seq(T), NEW w \in Seq(T), NEW A, NEW B, Exactly(v, A), Exactly(w, B)
  PROVE  Exactly(v \o w, A \cup B)
  <1>1. PICK u : u = v \o w
    OBVIOUS
  <1>2. /\ DOMAIN v \subseteq DOMAIN u /\ \A i \in DOMAIN v : u[i] = v[i]
        /\ \A i \in DOMAIN u : i \in DOMAIN v \/ i - Len(v) \in DOMAIN w
        /\ \A i \in DOMAIN u : i \notin DOMAIN v => u[i] = w[i - Len(v)]
        /\ \A j \in DOMAIN w : Len(v) + j \in DOMAIN u /\ u[Len(v) + j] = w[j]
    BY <1>1, JoinLonger DEF Longer
  <1>3. \A i \in DOMAIN u : u[i] \in A \cup B
    BY <1>2 DEF Exactly
  <1>4. ASSUME NEW x \in A \cup B
        PROVE  \E i \in DOMAIN u : u[i] = x
    <2>1. CASE x \in A
      BY <1>2, <2>1 DEF Exactly
    <2>2. CASE x \in B
      <3>1. PICK j \in DOMAIN w : w[j] = x
        BY <2>2 DEF Exactly
      <3>. QED
        BY <1>2, <3>1
    <2>. QED
      BY <2>1, <2>2
  <1>. QED
    BY <1>1, <1>3, <1>4 DEF Exactly

\* One message.
LEMMA AloneExactly ==
  ASSUME NEW x
  PROVE  Exactly(<<x>>, {x})
  BY DEF Exactly

\* t is s with the messages A behind.
Adding(t, s, A) ==
    /\ Longer(t, s)
    /\ \A i \in DOMAIN t : i \in DOMAIN s \/ t[i] \in A
    /\ \A x \in A : \E i \in DOMAIN t : i \notin DOMAIN s /\ t[i] = x

\* What is put behind is added.
LEMMA JoinAdding ==
  ASSUME NEW T, NEW s \in Seq(T), NEW w \in Seq(T), NEW A, Exactly(w, A)
  PROVE  Adding(s \o w, s, A)
  <1>1. PICK t : t = s \o w
    OBVIOUS
  <1>2. /\ Longer(t, s) /\ DOMAIN s = 1..Len(s) /\ DOMAIN w = 1..Len(w) /\ Len(s) \in Nat /\ Len(w) \in Nat
        /\ \A i \in DOMAIN t : i \in DOMAIN s \/ i - Len(s) \in DOMAIN w
        /\ \A i \in DOMAIN t : i \notin DOMAIN s => t[i] = w[i - Len(s)]
        /\ \A j \in DOMAIN w : Len(s) + j \in DOMAIN t /\ t[Len(s) + j] = w[j]
    BY <1>1, JoinLonger, SMTT(40)
  <1>3. \A i \in DOMAIN t : i \in DOMAIN s \/ t[i] \in A
    BY <1>2 DEF Exactly
  <1>4. ASSUME NEW x \in A
        PROVE  \E i \in DOMAIN t : i \notin DOMAIN s /\ t[i] = x
    <2>1. PICK j \in DOMAIN w : w[j] = x
      BY DEF Exactly
    <2>2. Len(s) + j \notin DOMAIN s
      BY <1>2
    <2>. QED
      BY <1>2, <2>1, <2>2
  <1>. QED
    BY <1>1, <1>2, <1>3, <1>4 DEF Adding

\* The messages about one document each.
LEMMA DocumentsExactly ==
  ASSUME NEW t, NEW ds \in SUBSET Docs
  PROVE  Exactly(Documents(t, ds), {DocumentMessage(d, {t}) : d \in ds})
  <1>1. PICK f, S : f = [d \in ds |-> DocumentMessage(d, {t})] /\ S = {f[d] : d \in ds}
    OBVIOUS
  <1>2. IsFiniteSet(ds)
    BY TargetsAssumption, FS_Subset
  <1>3. IsFiniteSet(S)
    BY <1>1, <1>2, FiniteImage
  <1>4. S = {DocumentMessage(d, {t}) : d \in ds}
    BY <1>1
  <1>5. Documents(t, ds) = SetToSeq(S)
    BY <1>4 DEF Documents
  <1>. QED
    BY <1>3, <1>4, <1>5, SetToSeqElements

\* Who was complete to a version, or is told of the documents, is complete: nothing
\* the server has said since takes a document away.
LEMMA CaughtUp ==
  ASSUME NEW s \in Seq(Messages), NEW t \in Seq(Messages), Longer(t, s),
         NEW a \in Nat, a <= Len(s), NEW p \in Nat, p > Len(s), NEW B, NEW sv, NEW v, v <= sv.now,
         \A d \in Docs : sv.docs[d].exists /\ sv.docs[d].ver <= v =>
            /\ Sparing(t, s, d)
            /\ \/ d \in Held(B, s, a, Len(s) + 1)
               \/ \E i \in DOMAIN t : i \notin DOMAIN s /\ i < p /\ Adds(t[i], d)
  PROVE  Complete(sv, Held(B, t, a, p), v)
  <1>1. SUFFICES ASSUME NEW d \in Docs, sv.docs[d].exists, sv.docs[d].ver <= v
                 PROVE  Holds(d, B, t, a, p)
    BY DEF Complete, Held
  <1>2. Sparing(t, s, d)
    BY <1>1
  <1>3. CASE d \in Held(B, s, a, Len(s) + 1)
    <2>1. Holds(d, B, s, a, Len(s) + 1)
      BY <1>3 DEF Held
    <2>. QED
      BY <1>2, <2>1, HoldsBeyond
  <1>4. CASE \E i \in DOMAIN t : i \notin DOMAIN s /\ i < p /\ Adds(t[i], d)
    BY <1>2, <1>4, HoldsAdded
  <1>. QED
    BY <1>1, <1>3, <1>4

\* Messages are added, after which who began after a is complete.
LEMMA TellsMore ==
  ASSUME NEW c \in Conns, NEW b \in Conns, Longer(b.down, c.down), NEW sv, NEW B,
         NEW a \in Nat, a <= Len(c.down), Tells(sv, B, c, a),
         \A p \in DOMAIN b.down : p \notin DOMAIN c.down /\ b.down[p].type = "snapshot" =>
            Complete(sv, Held(B, b.down, a, p), b.down[p].ver),
         Query \in DOMAIN b.watched, b.watched[Query].key = All,
         Complete(sv, Held(B, b.down, a, Len(b.down) + 1), b.watched[Query].sent)
  PROVE  Tells(sv, B, b, a)
  <1>1. c.down \in Seq(Messages) /\ b.down \in Seq(Messages)
    BY DEF Conns
  <1>2. ASSUME NEW p \in DOMAIN b.down, a < p, b.down[p].type = "snapshot", p \in DOMAIN c.down
        PROVE  Complete(sv, Held(B, b.down, a, p), b.down[p].ver)
    <2>1. b.down[p] = c.down[p]
      BY <1>2 DEF Longer
    <2>2. p \in Nat /\ p <= Len(c.down) + 1
      BY <1>1, <1>2
    <2>3. Held(B, b.down, a, p) = Held(B, c.down, a, p)
      BY <1>1, <2>2, HoldsWithin
    <2>. QED
      BY <1>2, <2>1, <2>3 DEF Tells
  <1>. QED
    BY <1>2 DEF Tells

\* No answer is added.
LEMMA StartsMore ==
  ASSUME NEW r, NEW c, NEW b, Longer(b.down, c.down),
         \A i \in DOMAIN b.down : i \in DOMAIN c.down \/ (b.down[i] \notin Answers(Query) /\ b.down[i] \in Messages)
  PROVE  Starts(r, b) \subseteq Starts(r, c)
  <1>1. SUFFICES ASSUME State(r, Query).out # 0, NEW a \in Starts(r, b)
                 PROVE  a \in Starts(r, c)
    BY DEF Starts
  <1>2. /\ a \in DOMAIN b.down /\ b.down[a].type = "added" /\ b.down[a].id = Query
        /\ \A i \in DOMAIN b.down : i > a => b.down[i] \notin Answers(Query)
    BY <1>1 DEF Starts
  <1>3. a \in DOMAIN c.down
    <2>1. b.down[a] \in Messages => b.down[a] \in Answers(Query)
      BY <1>2, MessageFields
    <2>. QED
      BY <1>2, <2>1
  <1>. QED
    BY <1>1, <1>2, <1>3 DEF Starts, Longer

\* No target is said to be removed.
LEMMA RewatchedMore ==
  ASSUME NEW r, NEW c, NEW b, Longer(b.down, c.down), Rewatched(r, c),
         \A i \in DOMAIN b.down : i \in DOMAIN c.down \/ b.down[i].type # "removed" \/ b.down[i].id # Query
  PROVE  Rewatched(r, b)
  BY DEF Rewatched, Longer

\* What the server says when it brings its targets up to date: the messages S of the
\* documents that have changed lead to u, and the snapshot follows.
SnapshotMessage == [type |-> "snapshot", ver |-> server.now, docs |-> Exists(server.docs)]
Sent(S, u) ==
    /\ \A e \in S : e \in Messages /\ e.type = "document" /\ e.doc = server.docs[e.key]
    /\ \A d \in Behind : DocumentMessage(d, {t \in DOMAIN conn.watched : Lacks(t, d)}) \in S
    /\ u \in Seq(Messages) /\ Len(conn.down) <= Len(u) /\ Adding(u, conn.down, S)
    /\ SnapshotMessage \in Messages
    /\ conn'.down \in Seq(Messages) /\ Len(conn'.down) = Len(u) + 1
    /\ Adding(conn'.down, u, {SnapshotMessage})

\* It says so.
LEMMA SnapshotSent ==
  ASSUME IInv, SendSnapshot
  PROVE  \E S, u : Sent(S, u)
  <1>1. /\ conn \in Conns /\ server \in Servers /\ conn.down \in Seq(Messages)
        /\ conn.watched \in Maps(Nat, Versioned) /\ server.now \in Tokens
    BY DEF IInv, Conns, Servers
  <1>3. PICK ids, f, S, w, m :
           /\ ids = [d \in Docs |-> {t \in DOMAIN conn.watched : Lacks(t, d)}]
           /\ f = [d \in Behind |-> DocumentMessage(d, ids[d])]
           /\ S = {f[d] : d \in Behind}
           /\ w = [t \in DOMAIN conn.watched |-> [conn.watched[t] EXCEPT !.sent = server.now]]
           /\ m = [type |-> "snapshot", ver |-> server.now, docs |-> Exists(server.docs)]
    OBVIOUS
  <1>4. Behind \subseteq Docs /\ IsFiniteSet(Behind)
    BY TargetsAssumption, FS_Subset DEF Behind
  <1>5. S = {DocumentMessage(d, {t \in DOMAIN conn.watched : Lacks(t, d)}) : d \in Behind}
    BY <1>3, <1>4
  <1>6. conn' = [watched |-> w, down |-> conn.down \o SetToSeq(S) \o <<m>>, told |-> TRUE]
    BY <1>3, <1>5 DEF SendSnapshot
  <1>7. PICK s, u, t : s = conn.down /\ u = s \o SetToSeq(S) /\ t = u \o <<m>>
    OBVIOUS
  <1>8. conn'.down = t
    BY <1>6, <1>7
  <1>9. IsFiniteSet(S)
    <2>1. PICK B : B = Behind
      OBVIOUS
    <2>2. IsFiniteSet(B) /\ DOMAIN f = B /\ S = {f[d] : d \in B}
      BY <1>3, <1>4, <2>1
    <2>3. IsFiniteSet({f[d] : d \in B})
      BY <2>2, FiniteImage
    <2>. QED
      BY <2>2, <2>3
  <1>10. \A e \in S : \E d \in Docs : /\ e.type = "document" /\ e.key = d /\ e.doc = server.docs[d]
                                      /\ e = DocumentMessage(d, ids[d])
    BY <1>3, <1>4 DEF DocumentMessage
  <1>11. S \subseteq Messages
    <2>1. ASSUME NEW e \in S
          PROVE  e \in Messages
      <3>1. PICK d \in Docs : e = DocumentMessage(d, ids[d])
        BY <1>10
      <3>2. ids[d] \in SUBSET Nat
        BY <1>1, <1>3, MapFacts
      <3>3. server.docs[d] \in Versions
        BY <1>1 DEF Servers
      <3>4. e \in [type : {"document"}, key : Docs, ids : SUBSET Nat, doc : Versions]
        BY <3>1, <3>2, <3>3 DEF DocumentMessage
      <3>. QED
        BY <3>4 DEF Messages
    <2>. QED
      BY <2>1
  <1>12. m \in Messages /\ m.type = "snapshot" /\ m.ver = server.now
    <2>1. Exists(server.docs) \in SUBSET Docs
      BY DEF Exists
    <2>2. m \in [type : {"snapshot"}, ver : Tokens, docs : SUBSET Docs] /\ m.type = "snapshot" /\ m.ver = server.now
      BY <1>1, <1>3, <2>1
    <2>. QED
      BY <2>2 DEF Messages
  <1>13. /\ s \in Seq(Messages) /\ u \in Seq(Messages) /\ t \in Seq(Messages)
         /\ Adding(u, s, S) /\ Adding(t, u, {m})
         /\ Len(s) \in Nat /\ Len(u) \in Nat /\ Len(s) <= Len(u) /\ Len(t) = Len(u) + 1
         /\ DOMAIN s = 1..Len(s) /\ DOMAIN u = 1..Len(u) /\ DOMAIN t = 1..Len(t)
    <2>1. s \in Seq(Messages)
      BY <1>1, <1>7
    <2>2. SetToSeq(S) \in Seq(Messages) /\ Exactly(SetToSeq(S), S)
      BY <1>9, <1>11, SetToSeqFacts, SetToSeqElements
    <2>3. u \in Seq(Messages) /\ Adding(u, s, S)
      BY <1>7, <2>1, <2>2, JoinAdding, Joining
    <2>4. <<m>> \in Seq(Messages) /\ Exactly(<<m>>, {m}) /\ Len(<<m>>) = 1
      BY <1>12, Alone, AloneExactly
    <2>5. t \in Seq(Messages) /\ Adding(t, u, {m})
      BY <1>7, <2>3, <2>4, JoinAdding, Joining
    <2>6. Len(t) = Len(u) + 1
      BY <1>7, <2>3, <2>4, JoinLonger
    <2>7. Len(s) <= Len(u)
      BY <1>7, <2>1, <2>2, JoinLonger
    <2>. QED
      BY <2>1, <2>3, <2>5, <2>6, <2>7
  <1>14. \A e \in S : e \in Messages /\ e.type = "document" /\ e.doc = server.docs[e.key]
    BY <1>10, <1>11
  <1>15. \A d \in Behind : DocumentMessage(d, {y \in DOMAIN conn.watched : Lacks(y, d)}) \in S
    BY <1>5
  <1>16. m = SnapshotMessage
    BY <1>3 DEF SnapshotMessage
  <1>17. Sent(S, u)
    BY <1>7, <1>8, <1>12, <1>13, <1>14, <1>15, <1>16 DEF Sent
  <1>. QED
    BY <1>17

\* The server brings its targets up to date: the query is told of every document
\* that has changed, and of the snapshot.
LEMMA SendSnapshotQuery ==
  ASSUME IInv, IInv', QInv, SendSnapshot
  PROVE  QInv'
  <1>1. /\ remote \in Remotes /\ conn \in Conns /\ conn' \in Conns /\ server \in Servers
        /\ conn.down \in Seq(Messages) /\ conn'.down \in Seq(Messages)
        /\ conn.watched \in Maps(Nat, Versioned) /\ server.now \in Tokens
    BY DEF IInv, Good, Conns, Servers
  <1>2. remote' = remote /\ server' = server /\ view' = view /\ store' = store /\ left' = left
    BY DEF SendSnapshot
  <1>3. PICK S, u : Sent(S, u)
    BY SnapshotSent
  <1>4. PICK ids, w, m, s, t :
           /\ ids = [d \in Docs |-> {x \in DOMAIN conn.watched : Lacks(x, d)}]
           /\ w = [x \in DOMAIN conn.watched |-> [conn.watched[x] EXCEPT !.sent = server.now]]
           /\ m = SnapshotMessage /\ s = conn.down /\ t = conn'.down
    OBVIOUS
  <1>8. conn'.down = t /\ conn'.watched = w
    BY <1>4 DEF SendSnapshot
  <1>10. \A e \in S : e.type = "document" /\ e.doc = server.docs[e.key]
    BY <1>3 DEF Sent
  <1>11. Behind \subseteq Docs /\ \A d \in Behind : DocumentMessage(d, ids[d]) \in S
    BY <1>3, <1>4 DEF Sent, Behind
  <1>12. m \in Messages /\ m.type = "snapshot" /\ m.ver = server.now
    BY <1>3, <1>4 DEF Sent, SnapshotMessage
  <1>13. /\ s \in Seq(Messages) /\ u \in Seq(Messages) /\ t \in Seq(Messages)
         /\ Adding(u, s, S) /\ Adding(t, u, {m})
         /\ Len(s) \in Nat /\ Len(u) \in Nat /\ Len(s) <= Len(u) /\ Len(t) = Len(u) + 1
         /\ DOMAIN s = 1..Len(s) /\ DOMAIN u = 1..Len(u) /\ DOMAIN t = 1..Len(t)
    <2>1. /\ s \in Seq(Messages) /\ u \in Seq(Messages) /\ t \in Seq(Messages)
          /\ Adding(u, s, S) /\ Adding(t, u, {m})
          /\ Len(s) <= Len(u) /\ Len(t) = Len(u) + 1
      BY <1>1, <1>3, <1>4 DEF Sent
    <2>. QED
      BY <2>1
  <1>14. Longer(t, s) /\ \A i \in DOMAIN t : i \in DOMAIN s \/ t[i] \in S \/ t[i] = m
    BY <1>13 DEF Adding, Longer
  <1>15. \A i \in DOMAIN t : i \notin DOMAIN s => t[i].type \in {"document", "snapshot"}
    BY <1>10, <1>12, <1>14
  <1>16. \A d \in Docs : server.docs[d].exists => Sparing(t, s, d)
    <2>1. SUFFICES ASSUME NEW d \in Docs, server.docs[d].exists, NEW i \in DOMAIN t, i \notin DOMAIN s
                   PROVE  ~Drops(t[i], d)
      BY DEF Sparing
    <2>2. CASE t[i] \in S
      <3>1. t[i].type = "document" /\ t[i].doc = server.docs[t[i].key]
        BY <1>10, <2>2
      <3>. QED
        BY <2>1, <3>1 DEF Drops
    <2>3. CASE t[i] = m
      BY <1>12, <2>3 DEF Drops
    <2>. QED
      BY <1>14, <2>1, <2>2, <2>3
  <1>17. ASSUME NEW B, NEW a \in Nat, a <= Len(s), Tells(server, B, conn, a)
         PROVE  Tells(server, B, conn', a)
    <2>1. /\ Query \in DOMAIN conn.watched /\ conn.watched[Query].key = All
          /\ Complete(server, Held(B, s, a, Len(s) + 1), conn.watched[Query].sent)
      BY <1>4, <1>17 DEF Tells
    <2>2. conn.watched[Query] \in Versioned
      BY <1>1, <2>1, MapFacts
    <2>3. Query \in DOMAIN w /\ w[Query].key = All /\ w[Query].sent = server.now
      BY <1>4, <2>1, <2>2 DEF Versioned
    <2>4. ASSUME NEW d \in Docs, server.docs[d].exists, NEW p \in Nat, p > Len(u)
          PROVE  \/ d \in Held(B, s, a, Len(s) + 1)
                 \/ \E i \in DOMAIN t : i \notin DOMAIN s /\ i < p /\ Adds(t[i], d)
      <3>1. CASE server.docs[d].ver <= conn.watched[Query].sent
        BY <2>1, <2>4, <3>1 DEF Complete
      <3>2. CASE ~(server.docs[d].ver <= conn.watched[Query].sent)
        <4>1. server.docs[d].ver \in Nat /\ conn.watched[Query].sent \in Nat
          BY <1>1, <2>2 DEF Servers, Versions, Versioned, Tokens
        <4>2. Lacks(Query, d)
          BY <2>1, <3>2, <4>1 DEF Lacks, Watches
        <4>3. d \in Behind /\ Query \in ids[d]
          BY <1>4, <2>1, <4>2 DEF Behind
        <4>e. PICK e : e = DocumentMessage(d, ids[d])
          OBVIOUS
        <4>4. e \in S /\ Adds(e, d)
          BY <1>11, <2>4, <4>3, <4>e DEF Adds, DocumentMessage
        <4>5. PICK i \in DOMAIN u : i \notin DOMAIN s /\ u[i] = e
          BY <1>13, <4>4 DEF Adding
        <4>6. i \in DOMAIN t /\ t[i] = e
          BY <1>13, <4>5 DEF Adding, Longer
        <4>7. i < p
          BY <1>13, <2>4, <4>5
        <4>. QED
          BY <4>4, <4>5, <4>6, <4>7
      <3>. QED
        BY <3>1, <3>2
    <2>5. ASSUME NEW p \in Nat, p > Len(u)
          PROVE  Complete(server, Held(B, t, a, p), server.now)
      <3>1. p > Len(s) /\ server.now <= server.now
        BY <1>1, <1>13, <2>5 DEF Tokens
      <3>2. \A d \in Docs : server.docs[d].exists /\ server.docs[d].ver <= server.now =>
               /\ Sparing(t, s, d)
               /\ \/ d \in Held(B, s, a, Len(s) + 1)
                  \/ \E i \in DOMAIN t : i \notin DOMAIN s /\ i < p /\ Adds(t[i], d)
        BY <1>16, <2>4, <2>5
      <3>. QED
        BY <1>13, <1>14, <1>17, <3>1, <3>2, CaughtUp
    <2>6. \A p \in DOMAIN t : p \notin DOMAIN s /\ t[p].type = "snapshot" =>
             Complete(server, Held(B, t, a, p), t[p].ver)
      <3>1. SUFFICES ASSUME NEW p \in DOMAIN t, p \notin DOMAIN s, t[p].type = "snapshot"
                     PROVE  Complete(server, Held(B, t, a, p), t[p].ver)
        OBVIOUS
      <3>2. p \notin DOMAIN u
        <4>1. ASSUME p \in DOMAIN u
              PROVE  FALSE
          <5>1. u[p] \in S /\ t[p] = u[p]
            BY <1>13, <3>1, <4>1 DEF Adding, Longer
          <5>. QED
            BY <1>10, <3>1, <5>1
        <4>. QED
          BY <4>1
      <3>3. t[p] = m /\ p \in Nat /\ p > Len(u)
        BY <1>13, <3>2 DEF Adding
      <3>. QED
        BY <1>12, <2>5, <3>3
    <2>7. Complete(server, Held(B, t, a, Len(t) + 1), server.now)
      BY <1>13, <2>5
    <2>. QED
      BY <1>1, <1>4, <1>8, <1>14, <1>17, <2>3, <2>6, <2>7, TellsMore
  <1>18. Starts(remote, conn') \subseteq Starts(remote, conn)
    <2>1. \A i \in DOMAIN t : i \in DOMAIN s \/ (t[i] \in Messages /\ t[i] \notin Answers(Query))
      <3>1. \A i \in DOMAIN t : t[i] \in Messages
        BY <1>13
      <3>. QED
        BY <1>15, <3>1, MessageFields
    <2>. QED
      BY <1>4, <1>8, <1>14, <2>1, StartsMore
  <1>19. \A a \in Starts(remote, conn) : a \in Nat /\ a <= Len(s)
    BY <1>4, <1>13 DEF Starts
  <1>20. Resumes(server, remote, conn', view.synced)
    <2>1. SUFFICES ASSUME Watched(remote)
                   PROVE  /\ Asked(server, remote, view.synced) /\ Rewatched(remote, conn')
                          /\ Listed(server, remote, conn', view.synced)
      BY DEF Resumes
    <2>2. Asked(server, remote, view.synced) /\ Rewatched(remote, conn) /\ Listed(server, remote, conn, view.synced)
      BY <2>1 DEF QInv, Resumes
    <2>3. Rewatched(remote, conn')
      BY <1>4, <1>8, <1>14, <1>15, <2>2, RewatchedMore
    <2>4. Listed(server, remote, conn', view.synced)
      BY <1>17, <1>18, <1>19, <2>2 DEF Listed
    <2>. QED
      BY <2>2, <2>3, <2>4
  <1>21. Kept' /\ Uncounted'
    <2>1. Kept'
      BY <1>2 DEF QInv, Kept
    <2>2. Uncounted'
      BY <1>2, <1>4, <1>8, <1>14, <1>15 DEF QInv, Uncounted, Longer, Watched
    <2>. QED
      BY <2>1, <2>2
  <1>22. \A i \in DOMAIN t : t[i].type = "snapshot" => t[i].ver # 0
    <2>1. server.now # 0
      BY <1>1 DEF QInv, Dated, Tokens
    <2>2. \A i \in DOMAIN s : s[i].type = "snapshot" => s[i].ver # 0
      BY <1>4 DEF QInv
    <2>. QED
      BY <1>10, <1>12, <1>14, <2>1, <2>2 DEF Longer
  <1>. QED
    BY <1>2, <1>8, <1>20, <1>21, <1>22 DEF QInv

\* The message m is about the target t alone.
About(m, t) ==
    m.type # "snapshot" /\ IF m.type = "document" THEN m.ids = {t} ELSE m.id = t

\* The messages A tell of documents as they are, and count them only where the
\* server may have forgotten some.
Truthful(A, q) ==
    \A m \in A :
        /\ About(m, q.id) /\ m.type \in {"document", "current", "filter"}
        /\ m.type = "document" => m.doc = server.docs[m.key]
        /\ m.type = "filter" => q.key # All \/ left.forgets

\* They tell of every document there is, or of those since the token.
Telling(A, q, all) ==
    \A d \in Exists(server.docs) : Watches(q.key, d) =>
        DocumentMessage(d, {q.id}) \in A \/ (~all /\ server.docs[d].ver <= q.token)

\* Behind s the server has replied to the request q, perhaps from nothing.
Replied(q, s, t) ==
    \E A \in SUBSET Messages :
        /\ Truthful(A, q)
        /\ \/ Adding(t, s, A) /\ Telling(A, q, FALSE)
           \/ Adding(t, Append(s, [type |-> "reset", id |-> q.id]), A) /\ Telling(A, q, TRUE)

\* The messages B about the documents ds, and what follows them, can be sent.
Sending(q, ds, B, reset, current, filter) ==
    /\ reset \in Messages
    /\ B \cup {current} \in SUBSET Messages /\ Truthful(B \cup {current}, q)
    /\ B \cup {current} \cup {filter} \in SUBSET Messages
    /\ q.key # All \/ left.forgets => Truthful(B \cup {current} \cup {filter}, q)
    /\ Documents(q.id, ds) \in Seq(Messages) /\ Exactly(Documents(q.id, ds), B)

\* The messages the server sends with an answer.
LEMMA AnswerMessages ==
  ASSUME server \in Servers, NEW q \in Requests, NEW ds \in SUBSET Docs, NEW n \in Nat, NEW B,
         NEW reset, reset = [type |-> "reset", id |-> q.id],
         NEW current, current = [type |-> "current", id |-> q.id, token |-> server.now],
         NEW filter, filter = [type |-> "filter", id |-> q.id, count |-> n],
         B = {DocumentMessage(d, {q.id}) : d \in ds}
  PROVE  Sending(q, ds, B, reset, current, filter)
  <1>1. q.id \in Nat /\ server.now \in Tokens
    BY DEF Requests, Servers
  <1>2. reset \in Messages
    BY <1>1 DEF Messages
  <1>3. current \in Messages /\ current.type = "current" /\ current.id = q.id
    BY <1>1 DEF Messages
  <1>4. filter \in Messages /\ filter.type = "filter" /\ filter.id = q.id
    BY <1>1 DEF Messages
  <1>5. ASSUME NEW m \in B
        PROVE  m \in Messages /\ m.type = "document" /\ m.ids = {q.id} /\ m.doc = server.docs[m.key]
    <2>1. PICK d \in ds : m = DocumentMessage(d, {q.id})
      OBVIOUS
    <2>2. server.docs[d] \in Versions /\ d \in Docs /\ {q.id} \in SUBSET Nat
      BY <1>1 DEF Servers
    <2>3. m \in [type : {"document"}, key : Docs, ids : SUBSET Nat, doc : Versions]
      BY <2>1, <2>2 DEF DocumentMessage
    <2>4. m.type = "document" /\ m.ids = {q.id} /\ m.doc = server.docs[m.key]
      BY <2>1 DEF DocumentMessage
    <2>. QED
      BY <2>3, <2>4 DEF Messages
  <1>6. Truthful(B \cup {current}, q)
    BY <1>3, <1>5 DEF Truthful, About
  <1>7. q.key # All \/ left.forgets => Truthful(B \cup {current} \cup {filter}, q)
    BY <1>3, <1>4, <1>5 DEF Truthful, About
  <1>8. Exactly(Documents(q.id, ds), B)
    BY DocumentsExactly
  <1>9. Documents(q.id, ds) \in Seq(Messages)
    <2>1. PICK f, C : f = [d \in ds |-> DocumentMessage(d, {q.id})] /\ C = {f[d] : d \in ds}
      OBVIOUS
    <2>2. B = C /\ IsFiniteSet(ds) /\ DOMAIN f = ds
      BY <2>1, TargetsAssumption, FS_Subset
    <2>a. IsFiniteSet({f[d] : d \in ds})
      BY <2>2, FiniteImage
    <2>3. IsFiniteSet(B)
      BY <2>1, <2>2, <2>a
    <2>4. B \subseteq Messages
      BY <1>5
    <2>5. SetToSeq(B) \in Seq(Messages)
      BY <2>3, <2>4, SetToSeqFacts
    <2>. QED
      BY <2>5 DEF Documents
  <1>. QED
    BY <1>2, <1>3, <1>4, <1>5, <1>6, <1>7, <1>8, <1>9 DEF Sending

\* What the server answers to the first request.
LEMMA ServeShape ==
  ASSUME IInv, NEW q, q = Head(remote.up), Serve
  PROVE  /\ q \in Requests /\ remote.up # <<>> /\ remote' = [remote EXCEPT !.up = Tail(@)]
         /\ server' = server /\ view' = view /\ store' = store
         /\ left'.restarts = left.restarts /\ left'.forgets = left.forgets
         /\ left.rejects = 0 => left' = left
         /\ \/ /\ q.op = "unwatch"
               /\ conn'.down = Append(conn.down, [type |-> "removed", id |-> q.id])
               /\ conn'.watched = Without(conn.watched, q.id)
            \/ /\ q.op = "watch" /\ left.rejects # 0 /\ conn'.watched = conn.watched
               /\ conn'.down = Append(conn.down, [type |-> "rejected", id |-> q.id])
            \/ /\ q.op = "watch"
               /\ conn'.watched = With(conn.watched, q.id, [key |-> q.key, sent |-> server.now])
               /\ Replied(q, Append(conn.down, [type |-> "added", id |-> q.id]), conn'.down)
  <1>1. /\ remote \in Remotes /\ conn \in Conns /\ conn.down \in Seq(Messages) /\ server \in Servers
        /\ left \in FaultPlans
    BY DEF IInv, Good, Conns
  <1>2. remote.up # <<>> /\ remote' = [remote EXCEPT !.up = Tail(@)]
        /\ server' = server /\ view' = view /\ store' = store
    BY DEF Serve
  <1>3. q \in Requests /\ q.id \in Nat /\ q.token \in Nat
    <2>1. remote.up \in Seq(Requests)
      BY <1>1 DEF Remotes
    <2>2. q \in Requests
      BY <1>2, <2>1, TailFacts
    <2>. QED
      BY <2>2 DEF Requests
  <1>4. PICK exist, newer, added, removed, rejected, reset, current, filter :
           /\ exist = {d \in Exists(server.docs) : Watches(q.key, d)}
           /\ newer = {d \in Docs : Watches(q.key, d) /\ server.docs[d].ver > q.token}
           /\ added = [type |-> "added", id |-> q.id] /\ removed = [type |-> "removed", id |-> q.id]
           /\ rejected = [type |-> "rejected", id |-> q.id] /\ reset = [type |-> "reset", id |-> q.id]
           /\ current = [type |-> "current", id |-> q.id, token |-> server.now]
           /\ filter = [type |-> "filter", id |-> q.id, count |-> Cardinality(exist)]
    OBVIOUS
  <1>5. PICK a, n, x, down : /\ a = Documents(q.id, exist) /\ n = Documents(q.id, newer)
                             /\ x = Documents(q.id, newer \cap exist) /\ down = conn.down
    OBVIOUS
  <1>6. exist \in SUBSET Docs /\ newer \in SUBSET Docs /\ newer \cap exist \in SUBSET Docs
    BY <1>4 DEF Exists
  <1>7. /\ added \in Messages /\ removed \in Messages /\ rejected \in Messages
        /\ \A e \in Messages : down \o <<e>> = Append(down, e) /\ Append(down, e) \in Seq(Messages)
    <2>1. added \in Messages /\ removed \in Messages /\ rejected \in Messages
      BY <1>3, <1>4 DEF Messages
    <2>. QED
      BY <1>1, <1>5, <2>1, Appending
  <1>8. \/ /\ q.op = "unwatch"
           /\ conn' = [conn EXCEPT !.watched = Without(@, q.id), !.down = @ \o <<removed>>]
           /\ left' = left
        \/ /\ q.op = "watch" /\ conn' = [conn EXCEPT !.down = @ \o <<rejected>>]
           /\ left.rejects > 0 /\ left' = [left EXCEPT !.rejects = @ - 1]
        \/ /\ q.op = "watch" /\ left' = left
           /\ \E ms : /\ \/ ms = a \o <<current>> \/ ms = n \o <<current>>
                         \/ ms = x \o <<current>> \o <<filter>> /\ (q.key # All \/ left.forgets)
                         \/ ms = <<reset>> \o a \o <<current>>
                      /\ conn' = [conn EXCEPT !.down = @ \o <<added>> \o ms, !.told = FALSE,
                                    !.watched = With(@, q.id, [key |-> q.key, sent |-> server.now])]
    BY <1>4, <1>5, ZenonT(40) DEF Serve
  <1>9. CASE /\ q.op = "unwatch" /\ left' = left
             /\ conn' = [conn EXCEPT !.watched = Without(@, q.id), !.down = @ \o <<removed>>]
    <2>1. conn'.down = down \o <<removed>> /\ conn'.watched = Without(conn.watched, q.id)
      BY <1>1, <1>5, <1>9 DEF Conns
    <2>. QED
      BY <1>2, <1>3, <1>4, <1>5, <1>7, <1>9, <2>1
  <1>10. CASE /\ q.op = "watch" /\ conn' = [conn EXCEPT !.down = @ \o <<rejected>>]
              /\ left.rejects > 0 /\ left' = [left EXCEPT !.rejects = @ - 1]
    <2>1. conn'.down = down \o <<rejected>> /\ conn'.watched = conn.watched
      BY <1>1, <1>5, <1>10 DEF Conns
    <2>2. left'.restarts = left.restarts /\ left'.forgets = left.forgets /\ left.rejects # 0
      BY <1>1, <1>10 DEF FaultPlans
    <2>. QED
      BY <1>2, <1>3, <1>4, <1>5, <1>7, <1>10, <2>1, <2>2
  <1>11. ASSUME q.op = "watch", left' = left, NEW ms,
                \/ ms = a \o <<current>> \/ ms = n \o <<current>>
                \/ ms = x \o <<current>> \o <<filter>> /\ (q.key # All \/ left.forgets)
                \/ ms = <<reset>> \o a \o <<current>>,
                conn' = [conn EXCEPT !.down = @ \o <<added>> \o ms, !.told = FALSE,
                           !.watched = With(@, q.id, [key |-> q.key, sent |-> server.now])]
         PROVE  /\ conn'.watched = With(conn.watched, q.id, [key |-> q.key, sent |-> server.now])
                /\ Replied(q, Append(conn.down, [type |-> "added", id |-> q.id]), conn'.down)
    <2>1. PICK s, t : s = Append(down, added) /\ t = s \o ms
      OBVIOUS
    <2>2. s \in Seq(Messages) /\ down \o <<added>> = s
      BY <1>7, <2>1
    <2>3. conn'.watched = With(conn.watched, q.id, [key |-> q.key, sent |-> server.now]) /\ conn'.down = t
      BY <1>1, <1>5, <1>11, <2>1, <2>2 DEF Conns
    <2>4. PICK k \in Nat : filter = [type |-> "filter", id |-> q.id, count |-> k]
      BY <1>4, <1>6, DocsFinite
    <2>5. PICK E, N, X : /\ E = {DocumentMessage(d, {q.id}) : d \in exist}
                         /\ N = {DocumentMessage(d, {q.id}) : d \in newer}
                         /\ X = {DocumentMessage(d, {q.id}) : d \in newer \cap exist}
      OBVIOUS
    <2>b. ASSUME NEW ds \in SUBSET Docs, NEW B, B = {DocumentMessage(d, {q.id}) : d \in ds}
          PROVE  Sending(q, ds, B, reset, current, filter)
      BY <1>1, <1>3, <1>4, <2>4, <2>b, AnswerMessages
    <2>6. /\ a \in Seq(Messages) /\ Exactly(a, E) /\ Truthful(E \cup {current}, q)
          /\ E \cup {current} \in SUBSET Messages /\ reset \in Messages
      BY <1>5, <1>6, <2>5, <2>b DEF Sending
    <2>7. /\ n \in Seq(Messages) /\ Exactly(n, N) /\ Truthful(N \cup {current}, q)
          /\ N \cup {current} \in SUBSET Messages
      BY <1>5, <1>6, <2>5, <2>b DEF Sending
    <2>8. /\ x \in Seq(Messages) /\ Exactly(x, X) /\ X \cup {current} \cup {filter} \in SUBSET Messages
          /\ q.key # All \/ left.forgets => Truthful(X \cup {current} \cup {filter}, q)
      BY <1>5, <1>6, <2>5, <2>b DEF Sending
    <2>9. /\ <<current>> \in Seq(Messages) /\ Exactly(<<current>>, {current})
          /\ <<filter>> \in Seq(Messages) /\ Exactly(<<filter>>, {filter})
          /\ <<reset>> \in Seq(Messages)
      BY <2>6, <2>8, Alone, AloneExactly
    <2>10. /\ a \o <<current>> \in Seq(Messages) /\ Exactly(a \o <<current>>, E \cup {current})
           /\ n \o <<current>> \in Seq(Messages) /\ Exactly(n \o <<current>>, N \cup {current})
           /\ x \o <<current>> \in Seq(Messages) /\ Exactly(x \o <<current>>, X \cup {current})
      BY <2>6, <2>7, <2>8, <2>9, Joining, JoinExactly
    <2>11. x \o <<current>> \o <<filter>> \in Seq(Messages)
           /\ Exactly(x \o <<current>> \o <<filter>>, X \cup {current} \cup {filter})
      BY <2>9, <2>10, Joining, JoinExactly
    <2>12. \A d \in exist : DocumentMessage(d, {q.id}) \in E
      BY <2>5
    <2>13. \A d \in exist : /\ \/ DocumentMessage(d, {q.id}) \in N
                               \/ server.docs[d].ver <= q.token
                            /\ \/ DocumentMessage(d, {q.id}) \in X
                               \/ server.docs[d].ver <= q.token
      <3>1. \A d \in exist : server.docs[d].ver > q.token \/ server.docs[d].ver <= q.token
        <4>1. \A d \in exist : server.docs[d].ver \in Nat
          BY <1>1, <1>6 DEF Servers, Versions
        <4>. QED
          BY <1>3, <4>1
      <3>2. \A d \in exist : server.docs[d].ver > q.token => d \in newer
        BY <1>4, <1>6
      <3>. QED
        BY <2>5, <3>1, <3>2
    <2>14. \A d \in Exists(server.docs) : Watches(q.key, d) => d \in exist
      BY <1>4
    <2>15. CASE ms = a \o <<current>>
      <3>1. Adding(t, s, E \cup {current})
        BY <2>1, <2>2, <2>10, <2>15, JoinAdding
      <3>2. Telling(E \cup {current}, q, FALSE)
        BY <2>12, <2>14 DEF Telling
      <3>. QED
        BY <1>4, <1>5, <2>1, <2>3, <2>6, <3>1, <3>2 DEF Replied
    <2>16. CASE ms = n \o <<current>>
      <3>1. Adding(t, s, N \cup {current})
        BY <2>1, <2>2, <2>10, <2>16, JoinAdding
      <3>2. Telling(N \cup {current}, q, FALSE)
        BY <2>13, <2>14 DEF Telling
      <3>. QED
        BY <1>4, <1>5, <2>1, <2>3, <2>7, <3>1, <3>2 DEF Replied
    <2>17. CASE ms = x \o <<current>> \o <<filter>> /\ (q.key # All \/ left.forgets)
      <3>1. Adding(t, s, X \cup {current} \cup {filter})
        BY <2>1, <2>2, <2>11, <2>17, JoinAdding
      <3>2. Telling(X \cup {current} \cup {filter}, q, FALSE)
        BY <2>13, <2>14 DEF Telling
      <3>. QED
        BY <1>4, <1>5, <2>1, <2>3, <2>8, <2>17, <3>1, <3>2 DEF Replied
    <2>18. CASE ms = <<reset>> \o a \o <<current>>
      <3>1. PICK u, v : u = Append(s, reset) /\ v = a \o <<current>>
        OBVIOUS
      <3>2. s \o <<reset>> = u /\ u \in Seq(Messages)
        BY <2>2, <2>6, <3>1, Appending
      <3>3. <<reset>> \o a \o <<current>> = <<reset>> \o v
        BY <2>6, <2>9, <3>1, Associates
      <3>4. s \o (<<reset>> \o v) = s \o <<reset>> \o v
        <4>1. PICK z : z = <<reset>>
          OBVIOUS
        <4>2. s \in Seq(Messages) /\ z \in Seq(Messages) /\ v \in Seq(Messages)
          BY <2>2, <2>9, <2>10, <3>1, <4>1
        <4>3. s \o z \o v = s \o (z \o v)
          BY <4>2, Associates, SMTT(40)
        <4>. QED
          BY <4>1, <4>3
      <3>5. t = u \o v
        BY <2>1, <2>18, <3>2, <3>3, <3>4
      <3>6. Adding(t, u, E \cup {current})
        BY <2>10, <3>1, <3>2, <3>5, JoinAdding
      <3>7. Telling(E \cup {current}, q, TRUE)
        BY <2>12, <2>14 DEF Telling
      <3>. QED
        BY <1>4, <1>5, <2>1, <2>3, <2>6, <3>1, <3>6, <3>7 DEF Replied
    <2>. QED
      BY <1>11, <2>15, <2>16, <2>17, <2>18
  <1>. QED
    BY <1>2, <1>3, <1>8, <1>9, <1>10, <1>11

\* One message more.
LEMMA AppendAdding ==
  ASSUME NEW T, NEW s \in Seq(T), NEW x \in T
  PROVE  /\ Append(s, x) \in Seq(T) /\ Adding(Append(s, x), s, {x})
         /\ Len(Append(s, x)) = Len(s) + 1 /\ Len(s) \in Nat
         /\ Append(s, x)[Len(s) + 1] = x /\ DOMAIN Append(s, x) = 1..(Len(s) + 1)
  <1>1. <<x>> \in Seq(T) /\ Exactly(<<x>>, {x})
    BY Alone, AloneExactly
  <1>2. Adding(s \o <<x>>, s, {x})
    BY <1>1, JoinAdding
  <1>3. s \o <<x>> = Append(s, x)
    BY Appending
  <1>4. /\ Append(s, x) \in Seq(T) /\ Len(Append(s, x)) = Len(s) + 1 /\ Len(s) \in Nat
        /\ Append(s, x)[Len(s) + 1] = x /\ DOMAIN Append(s, x) = 1..(Len(s) + 1)
    OBVIOUS
  <1>. QED
    BY <1>2, <1>3, <1>4

\* More messages behind more messages.
LEMMA AddingTwice ==
  ASSUME NEW s, NEW u, NEW t, NEW A, NEW B, Adding(u, s, A), Adding(t, u, B)
  PROVE  /\ Longer(t, s)
         /\ \A i \in DOMAIN t : i \in DOMAIN s \/ t[i] \in A \cup B
  BY DEF Adding, Longer

\* The connection b carries what c does, and more about the target t.
Further(b, c, t) ==
    /\ Longer(b.down, c.down)
    /\ \A i \in DOMAIN b.down : i \in DOMAIN c.down \/ About(b.down[i], t)

\* What the server answers is about the target it is asked of.
LEMMA AnsweredFurther ==
  ASSUME NEW q \in Requests, NEW c \in Conns, NEW b \in Conns,
         Replied(q, Append(c.down, [type |-> "added", id |-> q.id]), b.down)
  PROVE  /\ Further(b, c, q.id)
         /\ \A i \in DOMAIN b.down : b.down[i].type = "filter" =>
               i \in DOMAIN c.down \/ q.key # All \/ left.forgets
  <1>1. PICK added, reset, s : /\ added = [type |-> "added", id |-> q.id] /\ reset = [type |-> "reset", id |-> q.id]
                               /\ s = Append(c.down, added)
    OBVIOUS
  <1>2. PICK A \in SUBSET Messages : /\ Truthful(A, q)
                                     /\ Adding(b.down, s, A) \/ Adding(b.down, Append(s, reset), A)
    BY <1>1 DEF Replied
  <1>3. q.id \in Nat /\ added \in Messages /\ reset \in Messages
    BY <1>1 DEF Requests, Messages
  <1>4. s \in Seq(Messages) /\ Adding(s, c.down, {added}) /\ Adding(Append(s, reset), s, {reset})
    BY <1>1, <1>3, AppendAdding DEF Conns
  <1>5. /\ Longer(b.down, c.down)
        /\ \A i \in DOMAIN b.down : i \in DOMAIN c.down \/ b.down[i] \in A \/ b.down[i] = added \/ b.down[i] = reset
    <2>1. CASE Adding(b.down, s, A)
      BY <1>4, <2>1, AddingTwice
    <2>2. CASE Adding(b.down, Append(s, reset), A)
      BY <1>4, <2>2 DEF Adding, Longer
    <2>. QED
      BY <1>2, <2>1, <2>2
  <1>6. added.type = "added" /\ reset.type = "reset" /\ About(added, q.id) /\ About(reset, q.id)
    BY <1>1 DEF About
  <1>. QED
    BY <1>2, <1>5, <1>6 DEF Further, Truthful

\* Who collects the query's documents does not mind what is said of other targets.
LEMMA TellsElsewhere ==
  ASSUME NEW c \in Conns, NEW b \in Conns, NEW t, t # Query, Further(b, c, t),
         Query \in DOMAIN c.watched => Query \in DOMAIN b.watched /\ b.watched[Query] = c.watched[Query],
         NEW sv, NEW B, NEW a \in Nat, a <= Len(c.down), Tells(sv, B, c, a)
  PROVE  Tells(sv, B, b, a)
  <1>1. c.down \in Seq(Messages) /\ b.down \in Seq(Messages) /\ Longer(b.down, c.down)
    BY DEF Conns, Further
  <1>2. \A d : Sparing(b.down, c.down, d)
    BY DEF Sparing, Further, About, Drops
  <1>3. /\ Query \in DOMAIN c.watched /\ c.watched[Query].key = All
        /\ Complete(sv, Held(B, c.down, a, Len(c.down) + 1), c.watched[Query].sent)
    BY DEF Tells
  <1>4. Len(b.down) + 1 > Len(c.down) /\ Len(b.down) + 1 \in Nat
    <2>1. DOMAIN c.down = 1..Len(c.down) /\ DOMAIN b.down = 1..Len(b.down) /\ Len(c.down) \in Nat /\ Len(b.down) \in Nat
      BY <1>1
    <2>2. Len(c.down) = 0 \/ Len(c.down) \in DOMAIN b.down
      BY <1>1, <2>1 DEF Longer
    <2>. QED
      BY <2>1, <2>2
  <1>5. Held(B, c.down, a, Len(c.down) + 1) \subseteq Held(B, b.down, a, Len(b.down) + 1)
    <2>1. ASSUME NEW d, Holds(d, B, c.down, a, Len(c.down) + 1)
          PROVE  Holds(d, B, b.down, a, Len(b.down) + 1)
      BY <1>1, <1>2, <1>4, <2>1, HoldsBeyond
    <2>. QED
      BY <2>1 DEF Held
  <1>6. Complete(sv, Held(B, b.down, a, Len(b.down) + 1), c.watched[Query].sent)
    BY <1>3, <1>5 DEF Complete
  <1>7. \A p \in DOMAIN b.down : p \in DOMAIN c.down \/ b.down[p].type # "snapshot"
    BY DEF Further, About
  <1>. QED
    BY <1>1, <1>3, <1>6, <1>7, TellsMore

\* w is r with its first request taken.
HeadTaken(w, r) ==
    /\ w.up = Tail(r.up) /\ w.open = r.open /\ w.listen = r.listen /\ w.targets = r.targets /\ w.resets = r.resets
    /\ 1 \in DOMAIN r.up /\ r.up[1] = Head(r.up)
    /\ \A i \in DOMAIN w.up : i \in Nat /\ i + 1 > 1 /\ i + 1 \in DOMAIN r.up /\ w.up[i] = r.up[i + 1]
    /\ \A i \in DOMAIN r.up : i = 1 \/ (i \in Nat /\ i - 1 \in DOMAIN w.up /\ w.up[i - 1] = r.up[i])

\* The requests that are left when the first has been taken.
LEMMA RequestsLeft ==
  ASSUME NEW r \in Remotes, r.up # <<>>, NEW w, w = [r EXCEPT !.up = Tail(@)]
  PROVE  HeadTaken(w, r)
  <1>1. r.up \in Seq(Requests)
    BY DEF Remotes
  <1>2. /\ w.up = Tail(r.up) /\ w.open = r.open /\ w.listen = r.listen /\ w.targets = r.targets /\ w.resets = r.resets
    BY DEF Remotes
  <1>3. /\ 1 \in DOMAIN r.up /\ r.up[1] = Head(r.up) /\ DOMAIN r.up = 1..Len(r.up) /\ Len(r.up) \in Nat
        /\ DOMAIN Tail(r.up) = 1..(Len(r.up) - 1)
    BY <1>1
  <1>4. \A i \in DOMAIN Tail(r.up) : i \in Nat /\ i + 1 \in DOMAIN r.up /\ Tail(r.up)[i] = r.up[i + 1]
    BY <1>1, <1>3, TailFacts
  <1>5. \A i \in DOMAIN Tail(r.up) : i + 1 > 1
    BY <1>3
  <1>6. \A i \in DOMAIN r.up : i = 1 \/ (i \in Nat /\ i - 1 \in DOMAIN Tail(r.up) /\ (i - 1) + 1 = i)
    BY <1>3
  <1>. QED
    BY <1>2, <1>3, <1>4, <1>5, <1>6 DEF HeadTaken

\* What the query is asked stays in order when the first request is taken.
LEMMA AskedLeft ==
  ASSUME NEW r \in Remotes, r.up # <<>>, NEW w, w = [r EXCEPT !.up = Tail(@)],
         NEW sv, NEW synced, Asked(sv, r, synced)
  PROVE  Asked(sv, w, synced)
  <1>1. w.listen = r.listen /\ \A i \in DOMAIN w.up : i + 1 \in DOMAIN r.up /\ w.up[i] = r.up[i + 1]
    <2>1. HeadTaken(w, r)
      BY RequestsLeft
    <2>. QED
      BY <2>1 DEF HeadTaken
  <1>. QED
    BY <1>1 DEF Asked

\* The server answers a request about another target.
LEMMA ServeElsewhere ==
  ASSUME NEW r \in Remotes, r.up # <<>>, NEW w, w = [r EXCEPT !.up = Tail(@)],
         NEW t, Head(r.up).id = t, t # Query, NEW c \in Conns, NEW b \in Conns, Further(b, c, t),
         Query \in DOMAIN c.watched => Query \in DOMAIN b.watched /\ b.watched[Query] = c.watched[Query],
         NEW sv, NEW synced, Resumes(sv, r, c, synced)
  PROVE  Resumes(sv, w, b, synced)
  <1>a. /\ w.open = r.open /\ w.listen = r.listen /\ w.targets = r.targets /\ w.resets = r.resets
        /\ 1 \in DOMAIN r.up /\ r.up[1] = Head(r.up)
        /\ \A i \in DOMAIN w.up : i \in Nat /\ i + 1 \in DOMAIN r.up /\ w.up[i] = r.up[i + 1]
        /\ \A i \in DOMAIN r.up : i = 1 \/ (i \in Nat /\ i - 1 \in DOMAIN w.up /\ w.up[i - 1] = r.up[i])
    <2>1. HeadTaken(w, r)
      BY RequestsLeft
    <2>. QED
      BY <2>1 DEF HeadTaken
  <1>1. /\ w.open = r.open /\ w.listen = r.listen /\ w.targets = r.targets /\ w.resets = r.resets
        /\ 1 \in DOMAIN r.up /\ r.up[1].id # Query
        /\ \A i \in DOMAIN w.up : i \in Nat /\ i + 1 \in DOMAIN r.up /\ w.up[i] = r.up[i + 1]
        /\ \A i \in DOMAIN r.up : i = 1 \/ (i \in Nat /\ i - 1 \in DOMAIN w.up /\ w.up[i - 1] = r.up[i])
    BY <1>a
  <1>2. SUFFICES ASSUME Watched(r)
                 PROVE  Asked(sv, w, synced) /\ Rewatched(w, b) /\ Listed(sv, w, b, synced)
    BY <1>1 DEF Resumes, Watched
  <1>3. Asked(sv, r, synced) /\ Rewatched(r, c) /\ Listed(sv, r, c, synced)
    BY <1>2 DEF Resumes
  <1>4. Asked(sv, w, synced)
    BY <1>3, AskedLeft
  <1>5. /\ Longer(b.down, c.down)
        /\ \A i \in DOMAIN b.down : i \in DOMAIN c.down \/ (b.down[i].type # "snapshot"
              /\ (b.down[i].type # "document" => b.down[i].id # Query))
    BY DEF Further, About
  <1>6. (\E j \in DOMAIN r.up : Asks(r.up[j])) => \E j \in DOMAIN w.up : Asks(w.up[j])
    BY <1>1, ZenonT(40) DEF Asks
  <1>7. Rewatched(w, b)
    <2>1. Rewatched(r, b)
      BY <1>3, <1>5, RewatchedMore
    <2>2. ASSUME NEW i \in DOMAIN w.up, w.up[i].id = Query, w.up[i].op = "unwatch"
          PROVE  \E j \in DOMAIN w.up : j > i /\ Asks(w.up[j])
      <3>1. i \in Nat /\ i + 1 \in DOMAIN r.up /\ w.up[i] = r.up[i + 1]
        BY <1>1
      <3>2. PICK j \in DOMAIN r.up : j > i + 1 /\ Asks(r.up[j])
        BY <1>3, <2>2, <3>1 DEF Rewatched
      <3>3. j # 1 /\ j \in Nat /\ j - 1 \in DOMAIN w.up /\ w.up[j - 1] = r.up[j]
        BY <1>1, <3>2 DEF Asks
      <3>4. j - 1 > i
        BY <3>1, <3>2, <3>3
      <3>. QED
        BY <3>2, <3>3, <3>4
    <2>. QED
      BY <1>6, <2>1, <2>2 DEF Rewatched
  <1>8. Listed(sv, w, b, synced)
    <2>1. SUFFICES ASSUME w.open, Query \notin w.resets, Silent(w), NEW a \in Starts(w, b)
                   PROVE  Tells(sv, Base(w, synced), b, a)
      BY DEF Listed
    <2>2. State(w, Query) = State(r, Query) /\ Base(w, synced) = Base(r, synced)
      BY <1>1 DEF State, Base
    <2>3. Silent(r)
      <3>1. \A j \in DOMAIN w.up : w.up[j].id # Query
        BY <2>1, Zenon DEF Silent
      <3>2. \A i \in DOMAIN r.up : i = 1 \/ (i - 1 \in DOMAIN w.up /\ w.up[i - 1] = r.up[i])
        BY <1>1, Zenon
      <3>3. \A i \in DOMAIN r.up : r.up[i].id # Query
        BY <1>1, <3>1, <3>2, Zenon
      <3>. QED
        BY <3>3, Zenon DEF Silent
    <2>4. a \in Starts(r, c)
      <3>1. Starts(w, b) = Starts(r, b)
        BY <2>2 DEF Starts
      <3>2. \A i \in DOMAIN b.down : i \in DOMAIN c.down \/ (b.down[i] \notin Answers(Query) /\ b.down[i] \in Messages)
        <4>1. \A i \in DOMAIN b.down : b.down[i] \in Messages
          BY DEF Conns
        <4>. QED
          BY <1>5, <4>1, MessageFields
      <3>. QED
        BY <1>5, <2>1, <3>1, <3>2, StartsMore
    <2>5. a \in Nat /\ a <= Len(c.down)
      <3>1. c.down \in Seq(Messages)
        BY DEF Conns
      <3>2. a = 0 \/ a \in DOMAIN c.down
        BY <2>4 DEF Starts
      <3>. QED
        BY <3>1, <3>2
    <2>6. Tells(sv, Base(r, synced), c, a)
      BY <1>1, <1>3, <2>1, <2>3, <2>4 DEF Listed
    <2>. QED
      BY <2>2, <2>5, <2>6, TellsElsewhere
  <1>. QED
    BY <1>4, <1>7, <1>8

\* A query that is answered is awaited, and none of its changes is marked.
LEMMA AwaitedBase ==
  ASSUME NEW c \in Conns, NEW synced, NEW w \in Good(c, synced), Watched(w),
         NEW i \in DOMAIN c.down, c.down[i] \in Answers(Query)
  PROVE  State(w, Query).out # 0 /\ Base(w, synced) = synced
  <1>1. w \in Remotes /\ Owed(w, c) /\ Marks(w, synced)
    BY DEF Good, Sound
  <1>2. Query \in DOMAIN w.listen /\ Query \in Nat
    BY DEF Watched, Query
  <1>3. State(w, Query).out = Pending(w, c, Query)
    BY <1>1, <1>2 DEF Owed
  <1>4. Pending(w, c, Query) # 0
    BY <1>1, PendingFacts
  <1>5. DOMAIN State(w, Query).changes = {}
    <2>1. CASE Query \in DOMAIN w.targets
      <3>1. Justified(w, Query, w.targets[Query], synced) /\ State(w, Query) = w.targets[Query]
        BY <1>1, <1>2, <2>1, StateTyped DEF Marks
      <3>2. w.targets[Query].out > 0
        <4>1. State(w, Query).out \in Nat
          BY <1>1, StateTyped DEF States
        <4>. QED
          BY <1>3, <1>4, <3>1, <4>1
      <3>. QED
        BY <3>1, <3>2 DEF Justified
    <2>2. CASE Query \notin DOMAIN w.targets
      BY <1>1, <2>2, StateTyped, BlankState
    <2>. QED
      BY <2>1, <2>2
  <1>. QED
    BY <1>3, <1>4, <1>5, UnmarkedBase

\* The documents of a query that is answered: those it has and those it is told of.
LEMMA AnsweredTells ==
  ASSUME IInv, QInv, NEW q \in Requests, q.id = Query, q.key = All, NEW synced \in SUBSET Docs,
         Complete(server, synced, q.token), NEW s \in Seq(Messages), NEW t \in Seq(Messages),
         s # <<>>, Replied(q, s, t)
  PROVE  Complete(server, Held(synced, t, Len(s), Len(t) + 1), server.now)
  <1>1. PICK A, reset :
           /\ A \in SUBSET Messages
           /\ Truthful(A, q) /\ reset = [type |-> "reset", id |-> q.id]
           /\ \/ Adding(t, s, A) /\ Telling(A, q, FALSE)
              \/ Adding(t, Append(s, reset), A) /\ Telling(A, q, TRUE)
    BY DEF Replied
  <1>2. Len(s) \in Nat /\ Len(s) > 0 /\ server.now \in Nat /\ server.now <= server.now
    BY DEF IInv, Servers, Tokens
  <1>3. ASSUME NEW m \in A, NEW d \in Docs, server.docs[d].exists
        PROVE  ~Drops(m, d)
    BY <1>1, <1>3 DEF Truthful, Drops
  <1>4. \A d \in Docs : server.docs[d].exists => d \in Exists(server.docs) /\ Watches(q.key, d)
    BY DEF Exists, Watches
  <1>5. ASSUME NEW d \in Docs, server.docs[d].exists
        PROVE  Adds(DocumentMessage(d, {q.id}), d)
    BY <1>5 DEF Adds, DocumentMessage
  <1>6. CASE Adding(t, s, A) /\ Telling(A, q, FALSE)
    <2>1. Longer(t, s) /\ Len(t) + 1 > Len(s) /\ Len(t) + 1 \in Nat
      <3>1. Longer(t, s) /\ DOMAIN s = 1..Len(s) /\ DOMAIN t = 1..Len(t) /\ Len(t) \in Nat
        BY <1>6 DEF Adding
      <3>2. Len(s) \in DOMAIN t
        BY <1>2, <3>1 DEF Longer
      <3>. QED
        BY <1>2, <3>1, <3>2
    <2>2. ASSUME NEW d \in Docs, server.docs[d].exists
          PROVE  /\ Sparing(t, s, d)
                 /\ \/ d \in Held(synced, s, Len(s), Len(s) + 1)
                    \/ \E i \in DOMAIN t : i \notin DOMAIN s /\ i < Len(t) + 1 /\ Adds(t[i], d)
      <3>1. Sparing(t, s, d)
        BY <1>3, <1>6, <2>2 DEF Sparing, Adding
      <3>2. CASE DocumentMessage(d, {q.id}) \in A
        <4>1. PICK i \in DOMAIN t : i \notin DOMAIN s /\ t[i] = DocumentMessage(d, {q.id})
          BY <1>6, <3>2 DEF Adding
        <4>2. i < Len(t) + 1
          OBVIOUS
        <4>. QED
          BY <1>5, <2>2, <3>1, <4>1, <4>2
      <3>3. CASE server.docs[d].ver <= q.token
        <4>1. d \in synced
          BY <2>2, <3>3 DEF Complete
        <4>2. Between(s, Len(s), Len(s) + 1) = {}
          BY <1>2 DEF Between
        <4>3. d \in Held(synced, s, Len(s), Len(s) + 1)
          BY <4>1, <4>2 DEF Held, Holds, Keeps
        <4>. QED
          BY <3>1, <4>3
      <3>. QED
        BY <1>4, <1>6, <2>2, <3>2, <3>3 DEF Telling
    <2>. QED
      BY <1>2, <2>1, <2>2, CaughtUp
  <1>7. CASE Adding(t, Append(s, reset), A) /\ Telling(A, q, TRUE)
    <2>1. PICK u : u = Append(s, reset)
      OBVIOUS
    <2>2. u \in Seq(Messages) /\ Len(u) = Len(s) + 1 /\ DOMAIN u = 1..(Len(s) + 1)
      <3>1. reset \in Messages
        BY <1>1 DEF Messages, Requests
      <3>. QED
        BY <2>1, <3>1, AppendAdding
    <2>3. Longer(t, u) /\ Len(t) + 1 > Len(u) /\ Len(t) + 1 \in Nat
      <3>1. Longer(t, u) /\ DOMAIN t = 1..Len(t) /\ Len(t) \in Nat
        BY <1>7, <2>1 DEF Adding
      <3>2. Len(u) \in DOMAIN t
        BY <1>2, <2>2, <3>1 DEF Longer
      <3>. QED
        BY <1>2, <3>1, <3>2
    <2>4. ASSUME NEW d \in Docs, server.docs[d].exists
          PROVE  /\ Sparing(t, u, d)
                 /\ \E i \in DOMAIN t : i \notin DOMAIN u /\ i < Len(t) + 1 /\ Adds(t[i], d)
      <3>1. Sparing(t, u, d)
        BY <1>3, <1>7, <2>1, <2>4 DEF Sparing, Adding
      <3>2. DocumentMessage(d, {q.id}) \in A
        BY <1>4, <1>7, <2>4 DEF Telling
      <3>3. PICK i \in DOMAIN t : i \notin DOMAIN u /\ t[i] = DocumentMessage(d, {q.id})
        BY <1>7, <2>1, <3>2 DEF Adding
      <3>4. i < Len(t) + 1
        OBVIOUS
      <3>. QED
        BY <1>5, <2>4, <3>1, <3>3, <3>4
    <2>5. Len(s) <= Len(u)
      BY <1>2, <2>2
    <2>. QED
      BY <1>2, <2>2, <2>3, <2>4, <2>5, CaughtUp
  <1>. QED
    BY <1>1, <1>6, <1>7

\* The server answers the query: from here on it is told of everything.
LEMMA ServeWatched ==
  ASSUME IInv, IInv', QInv, NEW q \in Requests, q = Head(remote.up), q.id = Query, q.op = "watch",
         Watched(remote), remote.up # <<>>, remote' = [remote EXCEPT !.up = Tail(@)],
         server' = server, view' = view,
         conn'.watched = With(conn.watched, q.id, [key |-> q.key, sent |-> server.now]),
         Replied(q, Append(conn.down, [type |-> "added", id |-> q.id]), conn'.down)
  PROVE  Resumes(server, remote', conn', view.synced) /\ q.key = All
  <1>1. /\ remote \in Remotes /\ conn \in Conns /\ conn' \in Conns /\ server \in Servers
        /\ remote' \in Good(conn', view.synced) /\ LastWord(remote, conn) /\ view.synced \in SUBSET Docs
    BY DEF IInv, Good, Sound, Wired, Views
  <1>2. PICK w, b, added, s, n : /\ w = remote' /\ b = conn' /\ added = [type |-> "added", id |-> q.id]
                                 /\ s = Append(conn.down, added) /\ n = Len(conn.down) + 1
    OBVIOUS
  <1>3. /\ w.open = remote.open /\ w.listen = remote.listen /\ w.targets = remote.targets /\ w.resets = remote.resets
        /\ 1 \in DOMAIN remote.up /\ remote.up[1] = Head(remote.up)
        /\ \A i \in DOMAIN w.up : i \in Nat /\ i + 1 > 1 /\ i + 1 \in DOMAIN remote.up /\ w.up[i] = remote.up[i + 1]
    <2>1. HeadTaken(remote', remote)
      BY <1>1, RequestsLeft
    <2>. QED
      BY <1>2, <2>1 DEF HeadTaken
  <1>4. Asked(server, remote, view.synced) /\ Rewatched(remote, conn)
    BY DEF QInv, Resumes
  <1>5. q.key = All /\ Complete(server, view.synced, q.token)
    BY <1>3, <1>4 DEF Asked, Asks
  <1>6. Asked(server, w, view.synced)
    BY <1>1, <1>2, <1>4, AskedLeft
  <1>7. Silent(w)
    <2>1. \A j \in DOMAIN remote.up : j > 1 => remote.up[j].id # Query
      BY <1>1, <1>3 DEF LastWord, Watched
    <2>2. ASSUME NEW i \in DOMAIN w.up
          PROVE  w.up[i].id # Query
      BY <1>3, <2>1
    <2>. QED
      BY <2>2 DEF Silent
  <1>8. added \in Messages /\ added \in Answers(Query) /\ added.type = "added"
    <2>1. added \in Messages /\ added.type = "added" /\ added.id = Query
      BY <1>2 DEF Messages, Query
    <2>. QED
      BY <2>1, MessageFields
  <1>9. /\ s \in Seq(Messages) /\ n \in Nat /\ DOMAIN s = 1..n /\ Len(s) = n /\ s[n] = added /\ s # <<>> /\ n > 0
        /\ \A i \in 1..n : i = n \/ i \in DOMAIN conn.down
    <2>1. conn.down \in Seq(Messages) /\ DOMAIN conn.down = 1..Len(conn.down)
      BY <1>1 DEF Conns
    <2>2. /\ s \in Seq(Messages) /\ Len(s) = n /\ Len(conn.down) \in Nat /\ s[n] = added /\ DOMAIN s = 1..n
      BY <1>2, <1>8, <2>1, AppendAdding
    <2>. QED
      BY <1>2, <2>1, <2>2
  <1>10. Further(b, conn, Query) /\ b.down \in Seq(Messages)
    <2>1. Further(b, conn, q.id)
      BY <1>1, <1>2, AnsweredFurther
    <2>. QED
      BY <1>1, <1>2, <2>1 DEF Conns
  <1>11. PICK A, reset :
            /\ A \in SUBSET Messages
            /\ Truthful(A, q) /\ reset = [type |-> "reset", id |-> q.id]
            /\ Adding(b.down, s, A) \/ Adding(b.down, Append(s, reset), A)
    BY <1>2 DEF Replied
  <1>12. /\ Longer(b.down, s)
         /\ \A i \in DOMAIN b.down : i \in DOMAIN s \/ b.down[i].type \in {"document", "current", "filter", "reset"}
    <2>1. reset \in Messages /\ reset.type = "reset"
      BY <1>11 DEF Messages, Requests
    <2>2. Adding(Append(s, reset), s, {reset})
      BY <1>9, <2>1, AppendAdding
    <2>3. Longer(b.down, s) /\ \A i \in DOMAIN b.down : i \in DOMAIN s \/ b.down[i] \in A \/ b.down[i] = reset
      BY <1>11, <2>2 DEF Adding, Longer
    <2>. QED
      BY <1>11, <2>1, <2>3 DEF Truthful
  <1>13. n \in DOMAIN b.down /\ b.down[n] = added /\ b.down[n] \in Answers(Query)
    BY <1>8, <1>9, <1>12 DEF Longer
  <1>14. State(w, Query).out # 0 /\ Base(w, view.synced) = view.synced
    <2>1. w \in Good(b, view.synced) /\ Watched(w) /\ b \in Conns
      BY <1>1, <1>2, <1>3 DEF Watched
    <2>. QED
      BY <1>13, <2>1, AwaitedBase
  <1>15. \A a \in Starts(w, b) : a = n
    <2>1. SUFFICES ASSUME NEW a \in Starts(w, b)
                   PROVE  a = n
      OBVIOUS
    <2>2. /\ a \in DOMAIN b.down /\ b.down[a].type = "added"
          /\ \A i \in DOMAIN b.down : i > a => b.down[i] \notin Answers(Query)
      BY <1>14, <2>1 DEF Starts
    <2>3. a \in 1..n
      BY <1>9, <1>12, <2>2
    <2>4. ~(n > a)
      BY <1>13, <2>2
    <2>. QED
      BY <1>9, <2>3, <2>4
  <1>16. Tells(server, view.synced, b, n)
    <2>1. \A p \in DOMAIN b.down : n < p => b.down[p].type # "snapshot"
      <3>1. \A p \in DOMAIN b.down : n < p => p \notin DOMAIN s
        BY <1>9
      <3>. QED
        BY <1>12, <3>1
    <2>2. Query \in DOMAIN b.watched /\ b.watched[Query] = [key |-> q.key, sent |-> server.now]
      BY <1>2 DEF With
    <2>3. Complete(server, Held(view.synced, b.down, n, Len(b.down) + 1), server.now)
      <3>1. Replied(q, s, b.down)
        BY <1>2
      <3>2. Complete(server, Held(view.synced, b.down, Len(s), Len(b.down) + 1), server.now)
        BY <1>1, <1>5, <1>9, <1>10, <3>1, AnsweredTells
      <3>. QED
        BY <1>9, <3>2
    <2>. QED
      BY <1>5, <2>1, <2>2, <2>3 DEF Tells
  <1>17. Rewatched(w, b)
    <2>1. \A i \in DOMAIN w.up : w.up[i].id # Query
      BY <1>7 DEF Silent
    <2>2. ASSUME NEW i \in DOMAIN b.down, b.down[i].type = "removed"
          PROVE  n > i
      <3>1. i \in 1..n
        BY <1>9, <1>12, <2>2
      <3>2. i # n
        BY <1>8, <1>13, <2>2
      <3>. QED
        BY <1>9, <3>1, <3>2
    <2>. QED
      BY <1>13, <2>1, <2>2 DEF Rewatched
  <1>18. Listed(server, w, b, view.synced)
    BY <1>14, <1>15, <1>16 DEF Listed
  <1>. QED
    BY <1>2, <1>5, <1>6, <1>17, <1>18 DEF Resumes

\* The server drops the query's target: it is to be watched again.
LEMMA ServeUnwatched ==
  ASSUME IInv, QInv, NEW q, q = Head(remote.up), q.id = Query, q.op = "unwatch",
         Watched(remote), remote.up # <<>>, remote' = [remote EXCEPT !.up = Tail(@)],
         conn'.down = Append(conn.down, [type |-> "removed", id |-> q.id])
  PROVE  Resumes(server, remote', conn', view.synced)
  <1>1. remote \in Remotes /\ conn \in Conns /\ conn.down \in Seq(Messages)
    BY DEF IInv, Good, Conns
  <1>2. PICK w, b, removed : w = remote' /\ b = conn' /\ removed = [type |-> "removed", id |-> q.id]
    OBVIOUS
  <1>3. /\ w.open = remote.open /\ w.listen = remote.listen /\ w.targets = remote.targets /\ w.resets = remote.resets
        /\ 1 \in DOMAIN remote.up /\ remote.up[1] = Head(remote.up)
        /\ \A i \in DOMAIN w.up : i \in Nat /\ i + 1 \in DOMAIN remote.up /\ w.up[i] = remote.up[i + 1]
        /\ \A i \in DOMAIN remote.up :
              i = 1 \/ (i \in Nat /\ i - 1 \in DOMAIN w.up /\ w.up[i - 1] = remote.up[i])
    <2>1. HeadTaken(remote', remote)
      BY <1>1, RequestsLeft
    <2>. QED
      BY <1>2, <2>1 DEF HeadTaken
  <1>4. Asked(server, remote, view.synced) /\ Rewatched(remote, conn)
    BY DEF QInv, Resumes
  <1>5. Asked(server, w, view.synced)
    BY <1>1, <1>2, <1>4, AskedLeft
  <1>6. PICK k \in DOMAIN remote.up : k > 1 /\ Asks(remote.up[k])
    BY <1>3, <1>4, Zenon DEF Rewatched
  <1>7. k - 1 \in DOMAIN w.up /\ Asks(w.up[k - 1])
    BY <1>3, <1>6
  <1>8. ASSUME NEW i \in DOMAIN w.up, w.up[i].id = Query, w.up[i].op = "unwatch"
        PROVE  \E j \in DOMAIN w.up : j > i /\ Asks(w.up[j])
    <2>1. i \in Nat /\ i + 1 \in DOMAIN remote.up /\ w.up[i] = remote.up[i + 1]
      BY <1>3
    <2>2. PICK j \in DOMAIN remote.up : j > i + 1 /\ Asks(remote.up[j])
      BY <1>4, <1>8, <2>1 DEF Rewatched
    <2>3. j # 1 /\ j \in Nat /\ j - 1 \in DOMAIN w.up /\ w.up[j - 1] = remote.up[j]
      BY <1>3, <2>1, <2>2
    <2>4. j - 1 > i
      BY <2>1, <2>2, <2>3
    <2>. QED
      BY <2>2, <2>3, <2>4
  <1>9. Rewatched(w, b)
    BY <1>7, <1>8 DEF Rewatched
  <1>10. ~Silent(w)
    BY <1>7 DEF Silent, Asks
  <1>. QED
    BY <1>2, <1>5, <1>9, <1>10 DEF Resumes, Listed

\* The server refuses the query, which learns it before it is told anything else.
LEMMA ServeRefused ==
  ASSUME IInv, IInv', QInv, NEW q \in Requests, q = Head(remote.up), q.id = Query,
         Watched(remote), remote.up # <<>>, remote' = [remote EXCEPT !.up = Tail(@)], view' = view,
         conn'.down = Append(conn.down, [type |-> "rejected", id |-> q.id])
  PROVE  Resumes(server, remote', conn', view.synced)
  <1>1. /\ remote \in Remotes /\ conn \in Conns /\ conn' \in Conns /\ conn.down \in Seq(Messages)
        /\ remote' \in Good(conn', view.synced) /\ LastWord(remote', conn')
    BY DEF IInv, Good, Sound, Wired, Conns
  <1>2. PICK w, b, rejected, n : /\ w = remote' /\ b = conn' /\ rejected = [type |-> "rejected", id |-> q.id]
                                 /\ n = Len(conn.down) + 1
    OBVIOUS
  <1>3. w.listen = remote.listen
    <2>1. HeadTaken(remote', remote)
      BY <1>1, RequestsLeft
    <2>. QED
      BY <1>2, <2>1 DEF HeadTaken
  <1>4. Asked(server, remote, view.synced) /\ Rewatched(remote, conn)
    BY DEF QInv, Resumes
  <1>5. Asked(server, w, view.synced)
    BY <1>1, <1>2, <1>4, AskedLeft
  <1>6. rejected \in Messages /\ rejected \in Answers(Query) /\ rejected.type = "rejected" /\ rejected.id = Query
    <2>1. rejected \in Messages /\ rejected.type = "rejected" /\ rejected.id = Query
      BY <1>2 DEF Messages, Query
    <2>. QED
      BY <2>1, MessageFields
  <1>7. n \in Nat /\ DOMAIN b.down = 1..n /\ b.down[n] = rejected /\ n \in DOMAIN b.down
    <2>1. b.down = Append(conn.down, rejected)
      BY <1>2
    <2>2. /\ Append(conn.down, rejected)[Len(conn.down) + 1] = rejected /\ Len(conn.down) \in Nat
          /\ DOMAIN Append(conn.down, rejected) = 1..(Len(conn.down) + 1)
      BY <1>1, <1>6, AppendAdding
    <2>. QED
      BY <1>2, <2>1, <2>2
  <1>8. Silent(w)
    BY <1>1, <1>2, <1>3, <1>6, <1>7, ZenonT(40) DEF LastWord, Silent, Watched
  <1>9. State(w, Query).out # 0
    <2>1. w \in Good(b, view.synced) /\ Watched(w) /\ b \in Conns
      BY <1>1, <1>2, <1>3 DEF Watched
    <2>. QED
      BY <1>6, <1>7, <2>1, AwaitedBase
  <1>10. \A i \in DOMAIN b.down : b.down[i].type # "rejected" => n > i
    BY <1>6, <1>7
  <1>11. Starts(w, b) = {}
    <2>1. \A a \in DOMAIN b.down : b.down[a].type = "added" => b.down[n] \in Answers(Query) /\ n > a
      BY <1>6, <1>7, <1>10
    <2>. QED
      BY <1>7, <1>9, <2>1 DEF Starts
  <1>12. Rewatched(w, b)
    <2>1. \A i \in DOMAIN b.down : b.down[i].type = "removed" => b.down[n] \in Answers(Query) /\ n > i
      BY <1>6, <1>7, <1>10
    <2>. QED
      BY <1>7, <1>8, <2>1 DEF Rewatched, Silent
  <1>. QED
    BY <1>2, <1>5, <1>11, <1>12 DEF Resumes, Listed
\* The server answers.
LEMMA ServeQuery ==
  ASSUME IInv, IInv', QInv, Serve
  PROVE  QInv'
  <1>1. PICK q : q = Head(remote.up)
    OBVIOUS
  <1>2. /\ remote \in Remotes /\ conn \in Conns /\ conn' \in Conns /\ conn.down \in Seq(Messages)
        /\ conn'.down \in Seq(Messages) /\ conn.watched \in Maps(Nat, Versioned)
    BY DEF IInv, Good, Conns
  <1>3. /\ q \in Requests /\ remote.up # <<>> /\ remote' = [remote EXCEPT !.up = Tail(@)]
        /\ server' = server /\ view' = view /\ store' = store
        /\ left'.restarts = left.restarts /\ left'.forgets = left.forgets
        /\ \/ /\ q.op = "unwatch"
              /\ conn'.down = Append(conn.down, [type |-> "removed", id |-> q.id])
              /\ conn'.watched = Without(conn.watched, q.id)
           \/ /\ q.op = "watch" /\ conn'.watched = conn.watched
              /\ conn'.down = Append(conn.down, [type |-> "rejected", id |-> q.id])
           \/ /\ q.op = "watch"
              /\ conn'.watched = With(conn.watched, q.id, [key |-> q.key, sent |-> server.now])
              /\ Replied(q, Append(conn.down, [type |-> "added", id |-> q.id]), conn'.down)
    BY <1>1, ServeShape
  <1>4. /\ remote'.listen = remote.listen /\ remote'.resets = remote.resets
        /\ (Watched(remote') <=> Watched(remote))
    <2>1. HeadTaken(remote', remote)
      BY <1>2, <1>3, RequestsLeft
    <2>. QED
      BY <2>1 DEF HeadTaken, Watched
  <1>5. /\ Further(conn', conn, q.id)
        /\ \A i \in DOMAIN conn'.down : conn'.down[i].type = "filter" =>
              i \in DOMAIN conn.down \/ q.key # All \/ left.forgets
    <2>1. ASSUME NEW k \in {"removed", "rejected"},
                 conn'.down = Append(conn.down, [type |-> k, id |-> q.id])
          PROVE  /\ Further(conn', conn, q.id)
                 /\ \A i \in DOMAIN conn'.down : conn'.down[i].type = "filter" => i \in DOMAIN conn.down
      <3>1. PICK e, s, t : e = [type |-> k, id |-> q.id] /\ s = conn.down /\ t = conn'.down
        OBVIOUS
      <3>2. e \in Messages /\ e.type = k /\ e.id = q.id
        BY <1>3, <3>1 DEF Messages, Requests
      <3>3. t = Append(s, e) /\ s \in Seq(Messages)
        BY <1>2, <2>1, <3>1
      <3>4. Adding(Append(s, e), s, {e})
        BY <3>2, <3>3, AppendAdding
      <3>5. Longer(t, s) /\ \A i \in DOMAIN t : i \in DOMAIN s \/ t[i] = e
        BY <3>3, <3>4 DEF Adding
      <3>6. About(e, q.id) /\ e.type # "filter"
        BY <3>2 DEF About
      <3>7. Longer(t, s) /\ \A i \in DOMAIN t : i \in DOMAIN s \/ (About(t[i], q.id) /\ t[i].type # "filter")
        BY <3>5, <3>6
      <3>. QED
        BY <3>1, <3>7 DEF Further
    <2>2. ASSUME Replied(q, Append(conn.down, [type |-> "added", id |-> q.id]), conn'.down)
          PROVE  /\ Further(conn', conn, q.id)
                 /\ \A i \in DOMAIN conn'.down : conn'.down[i].type = "filter" =>
                       i \in DOMAIN conn.down \/ q.key # All \/ left.forgets
      BY <1>2, <1>3, <2>2, AnsweredFurther
    <2>. QED
      BY <1>3, <2>1, <2>2
  <1>6. q.id # Query => (Query \in DOMAIN conn.watched =>
            Query \in DOMAIN conn'.watched /\ conn'.watched[Query] = conn.watched[Query])
    <2>1. CASE conn'.watched = Without(conn.watched, q.id)
      BY <2>1 DEF Without
    <2>2. CASE conn'.watched = With(conn.watched, q.id, [key |-> q.key, sent |-> server.now])
      BY <2>2 DEF With
    <2>. QED
      BY <1>3, <2>1, <2>2
  <1>7. ASSUME Watched(remote), q.id = Query
        PROVE  /\ Resumes(server, remote', conn', view.synced)
               /\ conn'.down = Append(conn.down, [type |-> "removed", id |-> q.id]) \/ q.key = All
                    \/ conn'.down = Append(conn.down, [type |-> "rejected", id |-> q.id])
    <2>1. CASE q.op = "unwatch" /\ conn'.down = Append(conn.down, [type |-> "removed", id |-> q.id])
      BY <1>1, <1>3, <1>7, <2>1, ServeUnwatched
    <2>2. CASE conn'.down = Append(conn.down, [type |-> "rejected", id |-> q.id])
      BY <1>1, <1>3, <1>7, <2>2, ServeRefused
    <2>3. CASE /\ q.op = "watch"
               /\ conn'.watched = With(conn.watched, q.id, [key |-> q.key, sent |-> server.now])
               /\ Replied(q, Append(conn.down, [type |-> "added", id |-> q.id]), conn'.down)
      BY <1>1, <1>3, <1>7, <2>3, ServeWatched
    <2>. QED
      BY <1>3, <2>1, <2>2, <2>3
  <1>8. Resumes(server', remote', conn', view'.synced)
    <2>1. CASE ~Watched(remote)
      BY <1>4, <2>1 DEF Resumes
    <2>2. CASE Watched(remote) /\ q.id = Query
      BY <1>3, <1>7, <2>2
    <2>3. CASE q.id # Query
      <3>1. Resumes(server, remote, conn, view.synced)
        BY DEF QInv
      <3>2. Resumes(server, remote', conn', view.synced)
        BY <1>1, <1>2, <1>3, <1>5, <1>6, <2>3, <3>1, ServeElsewhere
      <3>. QED
        BY <1>3, <3>2
    <2>. QED
      BY <2>1, <2>2, <2>3
  <1>9. Uncounted'
    <2>1. SUFFICES ASSUME ~left.forgets, Watched(remote), NEW i \in DOMAIN conn'.down,
                          conn'.down[i].type = "filter"
                   PROVE  conn'.down[i].id # Query
      BY <1>3, <1>4 DEF Uncounted
    <2>2. CASE i \in DOMAIN conn.down
      <3>1. conn'.down[i] = conn.down[i]
        BY <1>5, <2>2 DEF Further, Longer
      <3>. QED
        BY <2>1, <2>2, <3>1 DEF QInv, Uncounted
    <2>3. CASE i \notin DOMAIN conn.down
      <3>1. conn'.down[i].id = q.id /\ q.key # All
        BY <1>5, <2>1, <2>3 DEF Further, About
      <3>2. ASSUME NEW k \in {"removed", "rejected"},
                   conn'.down = Append(conn.down, [type |-> k, id |-> q.id])
            PROVE  FALSE
        <4>1. PICK e, s, t : e = [type |-> k, id |-> q.id] /\ s = conn.down /\ t = conn'.down
          OBVIOUS
        <4>2. e \in Messages /\ e.type = k
          BY <1>3, <4>1 DEF Messages, Requests
        <4>3. t = Append(s, e) /\ s \in Seq(Messages)
          BY <1>2, <3>2, <4>1
        <4>4. Adding(Append(s, e), s, {e})
          BY <4>2, <4>3, AppendAdding
        <4>5. t[i] = e
          BY <2>3, <4>1, <4>3, <4>4 DEF Adding
        <4>. QED
          BY <2>1, <4>1, <4>2, <4>5
      <3>. QED
        BY <1>7, <2>1, <3>1, <3>2
    <2>. QED
      BY <2>2, <2>3
  <1>10. ASSUME NEW i \in DOMAIN conn'.down, conn'.down[i].type = "snapshot"
         PROVE  conn'.down[i].ver # 0
    <2>1. i \in DOMAIN conn.down /\ conn'.down[i] = conn.down[i]
      BY <1>5, <1>10 DEF Further, About, Longer
    <2>. QED
      BY <1>10, <2>1 DEF QInv
  <1>11. Kept'
    BY <1>3, <1>4 DEF QInv, Kept
  <1>. QED
    BY <1>3, <1>8, <1>9, <1>10, <1>11 DEF QInv

-----------------------------------------------------------------------------
(* The theorem                                                             *)

\* At first nothing has been asked, and the token is that of an empty store.
LEMMA InitQuery ==
  ASSUME Init, \A f \in Faults : f.restarts = 0 \/ ~f.forgets
  PROVE  QInv
  <1>1. PICK s \in SUBSET Docs :
          server = [docs |-> [d \in Docs |-> IF d \in s THEN [ver |-> 1, exists |-> TRUE] ELSE None],
                    now |-> 1, acks |-> <<>>]
    BY DEF Init
  <1>2. /\ conn = NoStream /\ remote = Listening(0) /\ view.synced = {} /\ store.token = 0 /\ left \in Faults
    BY DEF Init
  <1>3. Dated(server)
    BY <1>1 DEF Dated, None
  <1>4. Complete(server, {}, 0)
    BY <1>1 DEF Complete, None
  <1>5. conn.down = <<>> /\ DOMAIN conn.down = {}
    BY <1>2, NoStreamTyped
  <1>6. /\ ~remote.open /\ remote.up = <<>> /\ remote.resets = {}
        /\ remote.listen = With(<<>>, Query, [key |-> All, token |-> 0])
    BY <1>2 DEF Listening
  <1>7. remote.listen[Query] = [key |-> All, token |-> 0]
    BY <1>6 DEF With
  <1>8. Resumes(server, remote, conn, view.synced)
    BY <1>2, <1>4, <1>5, <1>6, <1>7, ClosedQuery
  <1>9. left \in FaultPlans
    BY <1>2, TargetsAssumption
  <1>10. left.restarts > 0 => ~left.forgets
    BY <1>2, <1>9 DEF FaultPlans
  <1>. QED
    BY <1>2, <1>3, <1>4, <1>5, <1>6, <1>8, <1>10 DEF QInv, Kept, Uncounted

\* Nothing happens.
LEMMA StutterQuery ==
  ASSUME IInv, QInv, UNCHANGED vars
  PROVE  QInv'
  BY DEF vars, QInv, Kept, Uncounted

\* Every step keeps what a resumed query has to know.
LEMMA StepQuery ==
  ASSUME IInv, IInv', QInv, [Next]_vars
  PROVE  QInv'
  <1>1. ASSUME NEW d \in Docs, SendMessage(d)
        PROVE  QInv'
    BY <1>1, SendMessageQuery
  <1>2. ASSUME NEW d \in Docs, WriteAcknowledged(d)
        PROVE  QInv'
    BY <1>2, WriteAcknowledgedQuery
  <1>3. ASSUME NEW d \in Docs, Commit(d)
        PROVE  QInv'
    BY <1>3, CommitQuery
  <1>4. ASSUME NEW d \in Docs, OthersWrite(d)
        PROVE  QInv'
    BY <1>4, OthersWriteQuery
  <1>5. CASE StreamOpens
    BY <1>5, OpensQuery
  <1>6. CASE StreamBreaks
    BY <1>6, BreaksQuery
  <1>7. CASE Offline
    BY <1>7, OfflineQuery
  <1>8. CASE Restart
    BY <1>8, RestartQuery
  <1>9. CASE Receive
    BY <1>9, ReceiveQuery
  <1>10. CASE Serve
    BY <1>10, ServeQuery
  <1>11. CASE SendSnapshot
    BY <1>11, SendSnapshotQuery
  <1>12. CASE UNCHANGED vars
    BY <1>12, StutterQuery
  <1>. QED
    BY <1>1, <1>2, <1>3, <1>4, <1>5, <1>6, <1>7, <1>8, <1>9, <1>10, <1>11, <1>12
       DEF Next, AckSome, CommitSome

\* The invariant says of every request for the query what the run checks.
LEMMA QueryImplies == QInv => ResumedIsComplete
  <1>1. ASSUME QInv, NEW i \in DOMAIN remote.up, remote.up[i].op = "watch", remote.up[i].id = Query, Watching
        PROVE  {d \in Exists(server.docs) : server.docs[d].ver <= remote.up[i].token} \subseteq view.synced
    <2>1. Asked(server, remote, view.synced)
      BY <1>1 DEF QInv, Resumes, Watched, Watching
    <2>2. Complete(server, view.synced, remote.up[i].token)
      BY <1>1, <2>1 DEF Asked, Asks
    <2>. QED
      BY <2>2 DEF Complete, Exists
  <1>. QED
    BY <1>1 DEF ResumedIsComplete

\* Unless the app can be started again and the server forgets deletions, which is
\* the combination the run watch_restart shows to fail: however the stream breaks,
\* whatever is written, refused, counted wrong or answered late, and at whatever
\* moment the stream opens again, the query is resumed only from a token to which
\* the documents the client has for it are complete.
THEOREM ResumeStaysComplete ==
  ASSUME \A f \in Faults : f.restarts = 0 \/ ~f.forgets
  PROVE  Spec => []ResumedIsComplete
<1>1. Init => QInv
  BY InitQuery
<1>2. IInv /\ IInv' /\ QInv /\ [Next]_vars => QInv'
  BY StepQuery
<1>3. QInv => ResumedIsComplete
  BY QueryImplies
<1>. QED
  BY <1>1, <1>2, <1>3, StreamIsInStep, PTL DEF Spec

-----------------------------------------------------------------------------
(* Documents in limbo and their resolutions                                *)

\* The documents that are being resolved or wait for it.
Aims(r) == DOMAIN r.byKey \cup {r.enqueued[i] : i \in DOMAIN r.enqueued}

\* No document waits, and each resolution is the one of its document.
Registered(r) ==
    /\ r.enqueued = <<>>
    /\ \A t \in DOMAIN r.resolutions :
          /\ r.resolutions[t].key \in DOMAIN r.byKey
          /\ r.byKey[r.resolutions[t].key] = t

\* As many documents as there are can be resolved at once.
Ample == Cardinality(Docs) <= MaxLimbo

\* Clients that are in order and resolve A or more; or D and nothing else.
Spans(c, synced, A) == {q \in Good(c, synced) : A \subseteq Aims(q)}
Exact(c, synced, D) == {q \in Good(c, synced) : Registered(q) /\ DOMAIN q.byKey = D}

\* One round of the pump forgets no document.
LEMMA PumpOneAims ==
  ASSUME NEW c \in Conns, NEW synced, NEW r \in Good(c, synced)
  PROVE  PumpOne(r) \in Good(c, synced) /\ Aims(r) \subseteq Aims(PumpOne(r))
  <1>1. PICK q : q = PumpOne(r)
    OBVIOUS
  <1>2. q \in Good(c, synced) /\ (Waits(r) => q = r) /\ (~Waits(r) => Started(q, r, Head(r.enqueued)))
    BY <1>1, PumpOneSound, PumpOneShape
  <1>3. ASSUME ~Waits(r)
        PROVE  Aims(r) \subseteq Aims(q)
    <2>1. PICK e, d : e = r.enqueued /\ d = Head(e)
      OBVIOUS
    <2>2. e \in Seq(Docs) /\ e # <<>>
      BY <1>3, <2>1 DEF Waits, Good, Remotes
    <2>3. r.byKey \in Maps(Docs, Nat) /\ r.next \in Nat
      BY DEF Good, Remotes
    <2>4. q.enqueued = Tail(e) /\ DOMAIN q.byKey = DOMAIN r.byKey \cup {d}
      <3>1. DOMAIN With(r.byKey, d, r.next) = DOMAIN r.byKey \cup {d}
        BY DEF With
      <3>. QED
        BY <1>2, <1>3, <2>1, <3>1 DEF Started
    <2>5. ASSUME NEW i \in DOMAIN e
          PROVE  e[i] \in Aims(q)
      <3>1. CASE i = 1
        <4>1. e[i] = d
          BY <2>1, <2>2, <3>1
        <4>. QED
          BY <2>4, <4>1 DEF Aims
      <3>2. CASE i # 1
        <4>1. i - 1 \in DOMAIN Tail(e) /\ Tail(e)[i - 1] = e[i]
          BY <2>2, <2>5, <3>2
        <4>2. i - 1 \in DOMAIN q.enqueued /\ q.enqueued[i - 1] = e[i]
          BY <2>4, <4>1
        <4>. QED
          BY <4>2 DEF Aims
      <3>. QED
        BY <3>1, <3>2
    <2>. QED
      BY <2>1, <2>4, <2>5 DEF Aims
  <1>. QED
    BY <1>1, <1>2, <1>3

\* Nor does the pump.
LEMMA PumpAims ==
  ASSUME NEW c \in Conns, NEW synced, NEW r \in Good(c, synced)
  PROVE  PumpEnqueuedLimboResolutions(r) \in Spans(c, synced, Aims(r))
  <1>1. r.enqueued \in Seq(Docs) /\ r \in Spans(c, synced, Aims(r))
    BY DEF Good, Remotes, Spans
  <1>2. ASSUME NEW q \in Spans(c, synced, Aims(r))
        PROVE  PumpOne(q) \in Spans(c, synced, Aims(r))
    <2>1. q \in Good(c, synced) /\ Aims(r) \subseteq Aims(q)
      BY <1>2 DEF Spans
    <2>2. PumpOne(q) \in Good(c, synced) /\ Aims(q) \subseteq Aims(PumpOne(q))
      BY <2>1, PumpOneAims
    <2>. QED
      BY <2>1, <2>2 DEF Spans
  <1>. QED
    BY <1>1, <1>2, PumpFold

\* Without a queue the pump does nothing.
LEMMA PumpEmpty ==
  ASSUME NEW r, r.enqueued = <<>>
  PROVE  PumpEnqueuedLimboResolutions(r) = r
  <1>1. r.enqueued \in Seq(Docs)
    OBVIOUS
  <1>2. PICK U : U = {r}
    OBVIOUS
  <1>3. \A q \in U : PumpOne(q) \in U
    BY <1>2 DEF PumpOne
  <1>4. PumpEnqueuedLimboResolutions(r) \in U
    BY <1>1, <1>2, <1>3, PumpFold
  <1>. QED
    BY <1>2, <1>4

\* With one document in the queue it does one round.
LEMMA PumpSingle ==
  ASSUME NEW c \in Conns, NEW synced, NEW r \in Good(c, synced), NEW d \in Docs, r.enqueued = <<d>>
  PROVE  PumpEnqueuedLimboResolutions(r) = PumpOne(r)
  <1>1. PICK U, G : /\ U = Good(c, synced)
                    /\ G = [s \in SUBSET (1..1) |-> IF s = {} THEN {r} ELSE {PumpOne(r)}]
    OBVIOUS
  <1>2. r.enqueued \in Seq(Docs) /\ Len(r.enqueued) = 1
    OBVIOUS
  <1>3. r \in U /\ r \in G[{}]
    BY <1>1
  <1>4. ASSUME NEW q \in U
        PROVE  PumpOne(q) \in U
    BY <1>1, PumpOneSound
  <1>5. ASSUME NEW s \in SUBSET (1..1), NEW x \in s, NEW q \in U, q \in G[s \ {x}]
        PROVE  PumpOne(q) \in G[s]
    <2>1. s # {} /\ s \ {x} = {}
      OBVIOUS
    <2>2. q = r
      BY <1>1, <1>5, <2>1
    <2>. QED
      BY <1>1, <2>1, <2>2
  <1>6. PumpEnqueuedLimboResolutions(r) \in G[1..1]
    BY <1>2, <1>3, <1>4, <1>5, PumpAlong
  <1>7. 1..1 # {}
    OBVIOUS
  <1>. QED
    BY <1>1, <1>6, <1>7

\* A document that enters limbo is resolved or waits for it.
LEMMA TrackAims ==
  ASSUME NEW c \in Conns, NEW synced, NEW r \in Good(c, synced), NEW d \in Docs
  PROVE  TrackLimboChange(d, r) \in Spans(c, synced, Aims(r) \cup {d})
  <1>1. CASE d \in DOMAIN r.byKey
    BY <1>1 DEF TrackLimboChange, Spans, Aims
  <1>2. CASE d \notin DOMAIN r.byKey
    <2>1. PICK q, e : q = [r EXCEPT !.enqueued = Append(@, d)] /\ e = r.enqueued
      OBVIOUS
    <2>2. TrackLimboChange(d, r) = PumpEnqueuedLimboResolutions(q)
      BY <1>2, <2>1 DEF TrackLimboChange
    <2>3. q \in Good(c, synced) /\ q.byKey = r.byKey /\ q.enqueued = Append(e, d)
      BY <2>1, EnqueueSound
    <2>4. e \in Seq(Docs)
      BY <2>1 DEF Good, Remotes
    <2>5. /\ \A i \in DOMAIN e : i \in DOMAIN q.enqueued /\ q.enqueued[i] = e[i]
          /\ Len(e) + 1 \in DOMAIN q.enqueued /\ q.enqueued[Len(e) + 1] = d
      BY <2>3, <2>4
    <2>6. Aims(r) \cup {d} \subseteq Aims(q)
      BY <2>1, <2>3, <2>5 DEF Aims
    <2>7. PumpEnqueuedLimboResolutions(q) \in Spans(c, synced, Aims(q))
      BY <2>3, PumpAims
    <2>. QED
      BY <2>2, <2>6, <2>7 DEF Spans
  <1>. QED
    BY <1>1, <1>2

\* When d leaves limbo only d is given up.
LEMMA RemoveAims ==
  ASSUME NEW c \in Conns, NEW synced, NEW r \in Good(c, synced), NEW d \in Docs
  PROVE  RemoveLimboTarget(d, r) \in Spans(c, synced, Aims(r) \ {d})
  <1>1. CASE d \notin DOMAIN r.byKey
    BY <1>1 DEF RemoveLimboTarget, Spans
  <1>2. CASE d \in DOMAIN r.byKey
    <2>1. PICK q : q = Forgotten(StopListening(r, r.byKey[d]), r, d)
      OBVIOUS
    <2>2. /\ q \in Good(c, synced) /\ q.byKey = Without(r.byKey, d) /\ q.enqueued = r.enqueued
          /\ RemoveLimboTarget(d, r) = PumpEnqueuedLimboResolutions(q)
      BY <1>2, <2>1, RemoveShape
    <2>3. Aims(r) \ {d} \subseteq Aims(q)
      BY <2>2 DEF Aims, Without
    <2>4. PumpEnqueuedLimboResolutions(q) \in Spans(c, synced, Aims(q))
      BY <2>2, PumpAims
    <2>. QED
      BY <2>2, <2>3, <2>4 DEF Spans
  <1>. QED
    BY <1>1, <1>2

\* UpdateTrackedLimboDocuments gives up what it is told to, and nothing else.
LEMMA UpdateTrackedAims ==
  ASSUME NEW c \in Conns, NEW synced, NEW r \in Good(c, synced),
         NEW removed \in SUBSET Docs, NEW added \in SUBSET Docs
  PROVE  UpdateTrackedLimboDocuments(r, removed, added)
            \in Spans(c, synced, (Aims(r) \ removed) \cup added)
  <1>1. IsFiniteSet(removed) /\ IsFiniteSet(added)
    BY TargetsAssumption, FS_Subset
  <1>2. PICK U, A : U = Good(c, synced) /\ A = Aims(r) \ removed
    OBVIOUS
  <1>3. PICK G, H : /\ G = [s \in SUBSET removed |-> Spans(c, synced, Aims(r) \ s)]
                    /\ H = [s \in SUBSET added |-> Spans(c, synced, A \cup s)]
    OBVIOUS
  <1>4. PICK p : p = FoldSet(RemoveLimboTarget, r, removed)
    OBVIOUS
  <1>5. p \in G[removed]
    <2>1. r \in U /\ r \in G[{}]
      BY <1>2, <1>3 DEF Spans
    <2>2. ASSUME NEW d \in removed, NEW q \in U
          PROVE  RemoveLimboTarget(d, q) \in U
      BY <1>2, RemoveSound
    <2>3. ASSUME NEW s \in SUBSET removed, NEW d \in s, NEW q \in U, q \in G[s \ {d}]
          PROVE  RemoveLimboTarget(d, q) \in G[s]
      <3>1. RemoveLimboTarget(d, q) \in Spans(c, synced, Aims(q) \ {d})
        BY <1>2, RemoveAims
      <3>2. q \in Spans(c, synced, Aims(r) \ (s \ {d}))
        BY <1>3, <2>3
      <3>3. RemoveLimboTarget(d, q) \in Spans(c, synced, Aims(r) \ s)
        BY <3>1, <3>2 DEF Spans
      <3>. QED
        BY <1>3, <3>3
    <2>. QED
      BY <1>1, <1>4, <2>1, <2>2, <2>3, RemoveAlong
  <1>6. p \in U /\ A \subseteq Aims(p)
    BY <1>2, <1>3, <1>5 DEF Spans
  <1>7. FoldSet(TrackLimboChange, p, added) \in H[added]
    <2>1. p \in H[{}]
      BY <1>2, <1>3, <1>6 DEF Spans
    <2>2. ASSUME NEW d \in added, NEW q \in U
          PROVE  TrackLimboChange(d, q) \in U
      BY <1>2, TrackSound
    <2>3. ASSUME NEW s \in SUBSET added, NEW d \in s, NEW q \in U, q \in H[s \ {d}]
          PROVE  TrackLimboChange(d, q) \in H[s]
      <3>1. TrackLimboChange(d, q) \in Spans(c, synced, Aims(q) \cup {d})
        BY <1>2, TrackAims
      <3>2. q \in Spans(c, synced, A \cup (s \ {d}))
        BY <1>3, <2>3
      <3>3. TrackLimboChange(d, q) \in Spans(c, synced, A \cup s)
        BY <3>1, <3>2 DEF Spans
      <3>. QED
        BY <1>3, <3>3
    <2>. QED
      BY <1>1, <1>6, <2>1, <2>2, <2>3, TrackAlong
  <1>. QED
    BY <1>2, <1>3, <1>4, <1>7 DEF UpdateTrackedLimboDocuments

\* With room for every document, one that enters limbo is resolved at once.
LEMMA TrackExact ==
  ASSUME Ample, NEW c \in Conns, NEW synced, NEW r \in Good(c, synced), Registered(r), NEW d \in Docs
  PROVE  TrackLimboChange(d, r) \in Exact(c, synced, DOMAIN r.byKey \cup {d})
  <1>1. CASE d \in DOMAIN r.byKey
    <2>1. DOMAIN r.byKey \cup {d} = DOMAIN r.byKey
      BY <1>1
    <2>. QED
      BY <1>1, <2>1 DEF TrackLimboChange, Exact
  <1>2. CASE d \notin DOMAIN r.byKey
    <2>1. PICK q : q = [r EXCEPT !.enqueued = Append(@, d)]
      OBVIOUS
    <2>2. TrackLimboChange(d, r) = PumpEnqueuedLimboResolutions(q)
      BY <1>2, <2>1 DEF TrackLimboChange
    <2>3. /\ q \in Good(c, synced) /\ q.byKey = r.byKey /\ q.resolutions = r.resolutions
          /\ q.enqueued = <<d>>
      <3>1. /\ q \in Good(c, synced) /\ q.byKey = r.byKey /\ q.resolutions = r.resolutions
            /\ q.enqueued = Append(r.enqueued, d)
        BY <2>1, EnqueueSound
      <3>2. r.enqueued = <<>> /\ Append(<<>>, d) = <<d>>
        BY DEF Registered
      <3>. QED
        BY <3>1, <3>2
    <2>4. PICK p : p = PumpOne(q)
      OBVIOUS
    <2>5. TrackLimboChange(d, r) = p
      BY <2>2, <2>3, <2>4, PumpSingle
    <2>6. ~Waits(q)
      <3>1. r.byKey \in Maps(Docs, Nat)
        BY DEF Good, Remotes
      <3>2. DOMAIN r.byKey \in SUBSET (Docs \ {d})
        BY <1>2, <3>1, MapFacts
      <3>3. PICK n, m, k : n = Cardinality(Docs) /\ m = Cardinality(Docs \ {d}) /\ k = Cardinality(DOMAIN r.byKey)
        OBVIOUS
      <3>4. n \in Nat /\ m = n - 1
        BY <3>3, DocsFinite
      <3>5. Docs \ {d} \in SUBSET Docs
        OBVIOUS
      <3>6. k \in Nat /\ k <= m
        BY <3>2, <3>3, <3>5, DocsFinite
      <3>7. MaxLimbo \in Nat /\ n <= MaxLimbo
        BY <3>3, TargetsAssumption DEF Ample
      <3>8. ~(k >= MaxLimbo)
        BY <3>4, <3>6, <3>7
      <3>. QED
        BY <2>3, <3>3, <3>8 DEF Waits
    <2>7. p \in Good(c, synced) /\ Started(p, q, d)
      <3>1. Head(q.enqueued) = d
        BY <2>3
      <3>. QED
        BY <2>3, <2>4, <2>6, <3>1, PumpOneSound, PumpOneShape
    <2>8. PICK n, v : n = q.next /\ v = [key |-> d, received |-> FALSE]
      OBVIOUS
    <2>9. p.enqueued = <<>> /\ p.resolutions = With(r.resolutions, n, v) /\ p.byKey = With(r.byKey, d, n)
      <3>1. Tail(<<d>>) = <<>>
        OBVIOUS
      <3>. QED
        BY <1>2, <2>3, <2>7, <2>8, <3>1 DEF Started
    <2>10. /\ DOMAIN p.byKey = DOMAIN r.byKey \cup {d} /\ p.byKey[d] = n
           /\ \A e \in DOMAIN r.byKey : p.byKey[e] = r.byKey[e]
      BY <1>2, <2>9 DEF With
    <2>11. /\ DOMAIN p.resolutions = DOMAIN r.resolutions \cup {n} /\ p.resolutions[n].key = d
           /\ \A t \in DOMAIN r.resolutions : t # n => p.resolutions[t] = r.resolutions[t]
      BY <2>8, <2>9 DEF With
    <2>12. Registered(p)
      BY <2>9, <2>10, <2>11 DEF Registered
    <2>. QED
      BY <2>5, <2>7, <2>10, <2>12 DEF Exact
  <1>. QED
    BY <1>1, <1>2

\* Without a queue, one that leaves limbo takes its resolution with it.
LEMMA RemoveExact ==
  ASSUME NEW c \in Conns, NEW synced, NEW r \in Good(c, synced), Registered(r), NEW d \in Docs
  PROVE  RemoveLimboTarget(d, r) \in Exact(c, synced, DOMAIN r.byKey \ {d})
  <1>1. CASE d \notin DOMAIN r.byKey
    <2>1. DOMAIN r.byKey \ {d} = DOMAIN r.byKey
      BY <1>1
    <2>. QED
      BY <1>1, <2>1 DEF RemoveLimboTarget, Exact
  <1>2. CASE d \in DOMAIN r.byKey
    <2>1. PICK q : q = Forgotten(StopListening(r, r.byKey[d]), r, d)
      OBVIOUS
    <2>2. /\ q \in Good(c, synced) /\ q.byKey = Without(r.byKey, d) /\ q.enqueued = r.enqueued
          /\ q.resolutions = Without(r.resolutions, r.byKey[d])
          /\ RemoveLimboTarget(d, r) = PumpEnqueuedLimboResolutions(q)
      BY <1>2, <2>1, RemoveShape
    <2>3. q.enqueued = <<>>
      BY <2>2 DEF Registered
    <2>4. RemoveLimboTarget(d, r) = q
      BY <2>2, <2>3, PumpEmpty
    <2>5. DOMAIN q.byKey = DOMAIN r.byKey \ {d} /\ \A e \in DOMAIN q.byKey : q.byKey[e] = r.byKey[e]
      BY <2>2 DEF Without
    <2>6. /\ \A t \in DOMAIN q.resolutions : /\ t \in DOMAIN r.resolutions /\ t # r.byKey[d]
                                             /\ q.resolutions[t] = r.resolutions[t]
      BY <2>2 DEF Without
    <2>7. Registered(q)
      BY <2>3, <2>5, <2>6 DEF Registered
    <2>. QED
      BY <2>2, <2>4, <2>5, <2>7 DEF Exact
  <1>. QED
    BY <1>1, <1>2

\* UpdateTrackedLimboDocuments resolves what it is told to, and nothing else.
LEMMA UpdateTrackedExact ==
  ASSUME Ample, NEW c \in Conns, NEW synced, NEW r \in Good(c, synced), Registered(r),
         NEW removed \in SUBSET Docs, NEW added \in SUBSET Docs
  PROVE  UpdateTrackedLimboDocuments(r, removed, added)
            \in Exact(c, synced, (DOMAIN r.byKey \ removed) \cup added)
  <1>1. IsFiniteSet(removed) /\ IsFiniteSet(added)
    BY TargetsAssumption, FS_Subset
  <1>2. PICK U, D, A : U = Good(c, synced) /\ D = DOMAIN r.byKey /\ A = D \ removed
    OBVIOUS
  <1>3. PICK G, H : /\ G = [s \in SUBSET removed |-> Exact(c, synced, D \ s)]
                    /\ H = [s \in SUBSET added |-> Exact(c, synced, A \cup s)]
    OBVIOUS
  <1>4. PICK p : p = FoldSet(RemoveLimboTarget, r, removed)
    OBVIOUS
  <1>5. p \in G[removed]
    <2>1. r \in U /\ r \in G[{}]
      BY <1>2, <1>3 DEF Exact
    <2>2. ASSUME NEW d \in removed, NEW q \in U
          PROVE  RemoveLimboTarget(d, q) \in U
      BY <1>2, RemoveSound
    <2>3. ASSUME NEW s \in SUBSET removed, NEW d \in s, NEW q \in U, q \in G[s \ {d}]
          PROVE  RemoveLimboTarget(d, q) \in G[s]
      <3>1. q \in Good(c, synced) /\ Registered(q) /\ DOMAIN q.byKey = D \ (s \ {d})
        BY <1>3, <2>3 DEF Exact
      <3>2. RemoveLimboTarget(d, q) \in Exact(c, synced, DOMAIN q.byKey \ {d})
        BY <3>1, RemoveExact
      <3>3. DOMAIN q.byKey \ {d} = D \ s
        BY <2>3, <3>1
      <3>. QED
        BY <1>3, <3>2, <3>3
    <2>. QED
      BY <1>1, <1>4, <2>1, <2>2, <2>3, RemoveAlong
  <1>6. p \in U /\ Registered(p) /\ DOMAIN p.byKey = A
    BY <1>2, <1>3, <1>5 DEF Exact
  <1>7. FoldSet(TrackLimboChange, p, added) \in H[added]
    <2>1. p \in H[{}]
      BY <1>2, <1>3, <1>6 DEF Exact
    <2>2. ASSUME NEW d \in added, NEW q \in U
          PROVE  TrackLimboChange(d, q) \in U
      BY <1>2, TrackSound
    <2>3. ASSUME NEW s \in SUBSET added, NEW d \in s, NEW q \in U, q \in H[s \ {d}]
          PROVE  TrackLimboChange(d, q) \in H[s]
      <3>1. q \in Good(c, synced) /\ Registered(q) /\ DOMAIN q.byKey = A \cup (s \ {d})
        BY <1>3, <2>3 DEF Exact
      <3>2. TrackLimboChange(d, q) \in Exact(c, synced, DOMAIN q.byKey \cup {d})
        BY <3>1, TrackExact
      <3>3. DOMAIN q.byKey \cup {d} = A \cup s
        BY <2>3, <3>1
      <3>. QED
        BY <1>3, <3>2, <3>3
    <2>. QED
      BY <1>1, <1>6, <2>1, <2>2, <2>3, TrackAlong
  <1>. QED
    BY <1>2, <1>3, <1>4, <1>7 DEF UpdateTrackedLimboDocuments

\* Only documents in limbo are resolved; all of them are, or wait for it.
Matched(r, L) == Registered(r) /\ DOMAIN r.byKey \subseteq L
Waiting(r, L) == L \subseteq Aims(r)

\* Both of them are passed on from r, with L in limbo, to p, with K in limbo.
PassesNeed(r, L, p, K) == Ample /\ Matched(r, L) => Matched(p, K)
PassesWait(r, L, p, K) == Waiting(r, L) => Waiting(p, K)
Passes(r, L, p, K) == PassesNeed(r, L, p, K) /\ PassesWait(r, L, p, K)

\* EmitNewSnapshots passes them on.
LEMMA EmitPasses ==
  ASSUME NEW c \in Conns, NEW v \in Views, NEW s \in Stores, NEW r \in Good(c, v.synced),
         Emit(r, v, s)
  PROVE  Passes(r, v.limbo, remote', view'.limbo)
  <1>1. PICK L, K : L = v.limbo /\ K = IF Query \in DOMAIN r.listen THEN LimboDocuments(v, s) ELSE {}
    OBVIOUS
  <1>2. /\ view' = [v EXCEPT !.limbo = K]
        /\ remote' = UpdateTrackedLimboDocuments(r, L \ K, K \ L)
    BY <1>1 DEF Emit
  <1>3. K \subseteq Docs /\ L \subseteq Docs
    BY <1>1 DEF LimboDocuments, Shown, Exists, Views, Stores
  <1>4. view'.limbo = K
    BY <1>2 DEF Views
  <1>5. L \ K \in SUBSET Docs /\ K \ L \in SUBSET Docs
    BY <1>3
  <1>6. PassesNeed(r, L, remote', K)
    <2>1. SUFFICES ASSUME Ample, Matched(r, L)
                   PROVE  Matched(remote', K)
      BY DEF PassesNeed
    <2>2. Registered(r) /\ DOMAIN r.byKey \subseteq L
      BY <2>1 DEF Matched
    <2>3. remote' \in Exact(c, v.synced, (DOMAIN r.byKey \ (L \ K)) \cup (K \ L))
      BY <1>2, <1>5, <2>1, <2>2, UpdateTrackedExact
    <2>. QED
      BY <2>2, <2>3 DEF Exact, Matched
  <1>7. PassesWait(r, L, remote', K)
    <2>1. remote' \in Spans(c, v.synced, (Aims(r) \ (L \ K)) \cup (K \ L))
      BY <1>2, <1>5, UpdateTrackedAims
    <2>. QED
      BY <2>1 DEF Spans, PassesWait, Waiting
  <1>. QED
    BY <1>1, <1>4, <1>6, <1>7 DEF Passes

\* Passing on is passed on; what leaves the resolutions alone passes on.
LEMMA PassesTrans ==
  ASSUME NEW r, NEW L, NEW p, NEW K, NEW q, NEW M, Passes(r, L, p, K), Passes(p, K, q, M)
  PROVE  Passes(r, L, q, M)
  BY DEF Passes, PassesNeed, PassesWait

\* The same work is as much needed and waited for.
LEMMA SameWorkPasses ==
  ASSUME NEW q, NEW r, SameWork(q, r), NEW L
  PROVE  Passes(r, L, q, L)
  <1>1. Aims(q) = Aims(r)
    BY DEF SameWork, Aims
  <1>2. Registered(r) => Registered(q)
    BY DEF SameWork, Registered
  <1>. QED
    BY <1>1, <1>2 DEF SameWork, Passes, PassesNeed, PassesWait, Matched, Waiting

\* In particular when nothing about the resolutions has changed.
LEMMA SameLimboPasses ==
  ASSUME NEW q, NEW r, SameLimbo(q, r), NEW L
  PROVE  Passes(r, L, q, L)
  BY SameWorkPasses DEF SameLimbo, SameWork

\* Nor does what the aggregator collects change them.
LEMMA LimboStays ==
  ASSUME NEW r \in Remotes, NEW t
  PROVE  /\ SameLimbo(TargetAdded(r, t), r) /\ SameLimbo(TargetRemoved(r, t), r)
         /\ \A token : SameLimbo(TargetCurrent(r, t, token), r)
         /\ SameLimbo(TargetReset(r, t), r)
         /\ \A ts, d, doc : SameLimbo(HandleDocumentChange(r, ts, d, doc), r)
         /\ \A count : SameLimbo(HandleExistenceFilter(r, t, count), r)
  <1>0. SameLimbo(r, r)
    BY DEF SameLimbo
  <1>1. \A u, st : SameLimbo(SetTarget(r, u, st), r)
    BY DEF SetTarget, Remotes, SameLimbo
  <1>2. SameLimbo(TargetAdded(r, t), r)
    BY <1>1, Zenon DEF TargetAdded
  <1>3. SameLimbo(TargetRemoved(r, t), r)
    <2>1. SameLimbo([r EXCEPT !.targets = Without(@, t)], r)
      BY DEF Remotes, SameLimbo
    <2>. QED
      BY <1>1, <2>1, Zenon DEF TargetRemoved
  <1>4. \A token : SameLimbo(TargetCurrent(r, t, token), r)
    BY <1>0, <1>1, Zenon DEF TargetCurrent
  <1>5. SameLimbo(ResetTarget(r, t), r)
    BY <1>1, Zenon DEF ResetTarget
  <1>6. SameLimbo(TargetReset(r, t), r)
    BY <1>0, <1>5, Zenon DEF TargetReset
  <1>7. \A ts, d, doc : SameLimbo(HandleDocumentChange(r, ts, d, doc), r)
    BY DEF HandleDocumentChange, Remotes, SameLimbo
  <1>8. \A count : SameLimbo(HandleExistenceFilter(r, t, count), r)
    <2>1. PICK p : p = ResetTarget(r, t)
      OBVIOUS
    <2>2. SameLimbo([p EXCEPT !.resets = @ \cup {t}], r)
      <3>1. p = [r EXCEPT !.targets = p.targets]
        BY <2>1 DEF ResetTarget, SetTarget, Remotes
      <3>. QED
        BY <3>1 DEF Remotes, SameLimbo
    <2>3. \A ok : SameLimbo([r EXCEPT !.ok = ok], r)
      BY DEF Remotes, SameLimbo
    <2>. QED
      BY <1>0, <1>7, <2>1, <2>2, <2>3, Zenon DEF HandleExistenceFilter
  <1>. QED
    BY <1>2, <1>3, <1>4, <1>6, <1>7, <1>8

\* A snapshot: the query may be watched again, the resolutions note what has been
\* delivered, and the view says which documents are in limbo now.
LEMMA SnapshotPasses ==
  ASSUME NEW m, Coming(m), m.type = "snapshot", Snapshot(m)
  PROVE  Passes(remote, view.limbo, remote', view'.limbo)
  <1>1. Delivered(conn) \in Conns /\ m \in Messages /\ view \in Views /\ store \in Stores
    BY ComingFacts DEF Coming, IInv
  <1>2. PICK u, w, changes, updates :
            /\ u \in Remotes /\ w \in Remotes
            /\ Told(u, remote, changes, m) /\ Fits(w, changes, updates)
            /\ w = IF Query \in remote.resets /\ Watched(remote) THEN Rewatch(Query, u) ELSE u
            /\ ApplyRemoteEvent(w, changes, updates, m.docs)
    BY SnapshotStages
  <1>3. SameLimbo(w, remote)
    <2>1. SameLimbo(u, remote) /\ (Watched(remote) => Watched(u))
      BY <1>2 DEF Told, Watched
    <2>2. Watched(u) => SameLimbo(Rewatch(Query, u), u)
      BY <1>2, RewatchShape DEF AskedAnew
    <2>. QED
      BY <1>2, <2>1, <2>2 DEF SameLimbo
  <1>4. PICK q : q = UpdateResolutions(w, changes)
    OBVIOUS
  <1>5. SameWork(q, w)
    BY <1>2, <1>4, ResolutionsShape
  <1>6. m.docs \in SUBSET Docs
    BY <1>1, MessageFields
  <1>7. \E v, s : Emits(q, Delivered(conn), changes, v, s)
    <2>1. /\ updates \in Maps(Docs, Versions)
          /\ \A synced : UpdateResolutions(w, changes) \in Good(Delivered(conn), synced)
          /\ Query \in DOMAIN changes =>
                changes[Query] \in States /\ Marked(changes[Query], "modified") \subseteq view.synced
      BY <1>2 DEF Fits
    <2>2. \E v, s : Emits(UpdateResolutions(w, changes), Delivered(conn), changes, v, s)
      BY <1>1, <1>2, <1>6, <2>1, ApplyEmits
    <2>. QED
      BY <1>4, <2>2
  <1>8. PICK v, s : Emits(q, Delivered(conn), changes, v, s)
    BY <1>7
  <1>9. v.limbo = view.limbo /\ Passes(q, v.limbo, remote', view'.limbo)
    BY <1>1, <1>8, EmitPasses DEF Emits
  <1>10. Passes(remote, view.limbo, w, view.limbo) /\ Passes(w, view.limbo, q, view.limbo)
    BY <1>3, <1>5, SameLimboPasses, SameWorkPasses
  <1>. QED
    BY <1>9, <1>10, PassesTrans

\* A refusal: what is resolved is still needed.
LEMMA RejectedPasses ==
  ASSUME NEW m, Coming(m), m.type = "rejected", HandleRejectedListen(m.id)
  PROVE  PassesNeed(remote, view.limbo, remote', view'.limbo)
  <1>1. Delivered(conn) \in Conns /\ view \in Views
    BY ComingFacts DEF Coming, IInv
  <1>2. CASE remote' = remote /\ view' = view /\ store' = store
    BY <1>2 DEF PassesNeed
  <1>3. ASSUME NEW r, Refused(r), Ample, Matched(remote, view.limbo)
        PROVE  Matched(remote', view'.limbo)
    <2>1. view.limbo \in SUBSET Docs /\ {} \in SUBSET Docs
      BY <1>1 DEF Views
    <2>2. r \in Good(Delivered(conn), view.synced) /\ SameLimbo(r, remote)
      BY <1>3 DEF Refused
    <2>3. remote' = UpdateTrackedLimboDocuments(r, view.limbo, {}) /\ view'.limbo = {}
      BY <1>1, <1>3 DEF Refused, RemoveAndCleanupTarget, Views
    <2>4. Registered(r) /\ DOMAIN r.byKey \subseteq view.limbo
      BY <1>3, <2>2 DEF Matched, Registered, SameLimbo
    <2>5. remote' \in Exact(Delivered(conn), view.synced, (DOMAIN r.byKey \ view.limbo) \cup {})
      BY <1>1, <1>3, <2>1, <2>2, <2>3, <2>4, UpdateTrackedExact
    <2>. QED
      BY <2>3, <2>4, <2>5 DEF Exact, Matched
  <1>4. ASSUME NEW q, GivenUp(q, m.id), Ample, Matched(remote, view.limbo)
        PROVE  Matched(remote', view'.limbo)
    <2>1. PICK t, d : t = m.id /\ d = remote.resolutions[t].key
      OBVIOUS
    <2>2. /\ t \in DOMAIN remote.resolutions /\ q.enqueued = remote.enqueued
          /\ q.byKey = Without(remote.byKey, d) /\ q.resolutions = Without(remote.resolutions, t)
      BY <1>4, <2>1 DEF GivenUp
    <2>3. Registered(remote) /\ DOMAIN remote.byKey \subseteq view.limbo
      BY <1>4 DEF Matched
    <2>4. q.enqueued = <<>> /\ d \in DOMAIN remote.byKey /\ remote.byKey[d] = t
      BY <2>1, <2>2, <2>3 DEF Registered
    <2>5. DOMAIN q.byKey = DOMAIN remote.byKey \ {d} /\ \A e \in DOMAIN q.byKey : q.byKey[e] = remote.byKey[e]
      BY <2>2 DEF Without
    <2>6. \A x \in DOMAIN q.resolutions : /\ x \in DOMAIN remote.resolutions /\ x # t
                                          /\ q.resolutions[x] = remote.resolutions[x]
      BY <2>2 DEF Without
    <2>7. Registered(q)
      BY <2>3, <2>4, <2>5, <2>6 DEF Registered
    <2>8. Matched(q, view.limbo)
      BY <2>3, <2>5, <2>7 DEF Matched
    <2>9. PumpEnqueuedLimboResolutions(q) = q
      BY <2>4, PumpEmpty
    <2>10. PICK v, s : Emits(q, Delivered(conn), <<>>, v, s)
      BY <1>4, <2>9 DEF GivenUp
    <2>11. v.limbo = view.limbo /\ Passes(q, v.limbo, remote', view'.limbo)
      BY <1>1, <2>10, EmitPasses DEF Emits
    <2>. QED
      BY <1>4, <2>8, <2>11 DEF Passes, PassesNeed
  <1>. QED
    BY <1>2, <1>3, <1>4, RejectedShape DEF PassesNeed

\* The client takes a message.
LEMMA ReceivePasses ==
  ASSUME IInv, Receive
  PROVE  /\ PassesNeed(remote, view.limbo, remote', view'.limbo)
         /\ Head(conn.down).type # "rejected" => PassesWait(remote, view.limbo, remote', view'.limbo)
  <1>1. PICK m : m = Head(conn.down)
    OBVIOUS
  <1>2. Coming(m) /\ remote \in Remotes
    BY <1>1 DEF Coming, Receive, IInv, Good
  <1>3. \/ m.type # "rejected" /\ SameLimbo(remote', remote) /\ view' = view
        \/ m.type = "snapshot" /\ Snapshot(m)
        \/ m.type = "rejected" /\ HandleRejectedListen(m.id)
    <2>1. \/ m.type = "document" /\ remote' = HandleDocumentChange(remote, m.ids, m.key, m.doc)
             /\ view' = view /\ store' = store
          \/ m.type = "added" /\ remote' = TargetAdded(remote, m.id) /\ view' = view /\ store' = store
          \/ m.type = "removed" /\ remote' = TargetRemoved(remote, m.id) /\ view' = view /\ store' = store
          \/ m.type = "current" /\ remote' = TargetCurrent(remote, m.id, m.token)
             /\ view' = view /\ store' = store
          \/ m.type = "reset" /\ remote' = TargetReset(remote, m.id) /\ view' = view /\ store' = store
          \/ m.type = "filter" /\ remote' = HandleExistenceFilter(remote, m.id, m.count)
             /\ view' = view /\ store' = store
          \/ m.type = "snapshot" /\ Snapshot(m)
          \/ m.type = "rejected" /\ HandleRejectedListen(m.id)
      BY <1>1 DEF Receive
    <2>2. PICK t, token, count : t = m.id /\ token = m.token /\ count = m.count
      OBVIOUS
    <2>3. /\ SameLimbo(TargetAdded(remote, t), remote) /\ SameLimbo(TargetRemoved(remote, t), remote)
          /\ SameLimbo(TargetCurrent(remote, t, token), remote)
          /\ SameLimbo(TargetReset(remote, t), remote)
          /\ SameLimbo(HandleDocumentChange(remote, m.ids, m.key, m.doc), remote)
          /\ SameLimbo(HandleExistenceFilter(remote, t, count), remote)
      BY <1>2, LimboStays
    <2>. QED
      BY <2>1, <2>2, <2>3
  <1>4. CASE m.type # "rejected" /\ SameLimbo(remote', remote) /\ view' = view
    <2>1. Passes(remote, view.limbo, remote', view.limbo)
      BY <1>4, SameLimboPasses
    <2>. QED
      BY <1>4, <2>1 DEF Passes
  <1>5. CASE m.type = "snapshot" /\ Snapshot(m)
    BY <1>2, <1>5, SnapshotPasses DEF Passes
  <1>6. CASE m.type = "rejected" /\ HandleRejectedListen(m.id)
    BY <1>1, <1>2, <1>6, RejectedPasses
  <1>. QED
    BY <1>3, <1>4, <1>5, <1>6

\* A stream opens: what is sent again changes no listen and no resolution.
LEMMA OpensKeeps ==
  ASSUME IInv, StreamOpens
  PROVE  view' = view /\ remote'.listen = remote.listen /\ SameLimbo(remote', remote)
  <1>1. remote \in Remotes
    BY DEF IInv, Good
  <1>2. view' = view /\ remote' = FoldSet(LAMBDA t, r : SendWatchRequest(r, t), [remote EXCEPT !.open = TRUE],
                                          DOMAIN remote.listen)
    BY DEF StreamOpens
  <1>3. PICK base, L, S : base = [remote EXCEPT !.open = TRUE] /\ L = remote.listen /\ S = DOMAIN L
    OBVIOUS
  <1>4. IsFiniteSet(S) /\ S \subseteq Nat /\ L \in Maps(Nat, Listens)
    BY <1>1, <1>3, IdsFinite DEF Remotes, IInv, Good, Sound, Wired
  <1>5. PICK U, G : /\ U = {q \in Remotes : q.listen = L /\ SameLimbo(q, remote)}
                    /\ G = [s \in SUBSET S |-> U]
    OBVIOUS
  <1>6. base \in U /\ base \in G[{}]
    BY <1>1, <1>3, <1>5 DEF Remotes, SameLimbo
  <1>7. ASSUME NEW t \in S, NEW q \in U
        PROVE  SendWatchRequest(q, t) \in U
    <2>1. q \in Remotes /\ q.listen = L /\ SameLimbo(q, remote) /\ t \in Nat /\ t \in DOMAIN q.listen
      BY <1>3, <1>4, <1>5
    <2>2. L[t] \in Listens
      BY <1>3, <1>4, MapFacts
    <2>3. PICK token \in Tokens : token = L[t].token
      BY <2>2 DEF Listens
    <2>4. SendWatchRequest(q, t) = Request(q, "watch", t, token)
      BY <2>1, <2>3 DEF SendWatchRequest
    <2>5. Request(q, "watch", t, token) \in Remotes /\ Requesting(Request(q, "watch", t, token), q, "watch", t, token)
      BY <2>1, RequestFields
    <2>6. PICK p : p = SendWatchRequest(q, t)
      OBVIOUS
    <2>7. p \in Remotes /\ p.listen = L /\ SameLimbo(p, remote)
      BY <2>1, <2>4, <2>5, <2>6 DEF Requesting, SameLimbo
    <2>. QED
      BY <1>5, <2>6, <2>7
  <1>8. \A s \in SUBSET S : \A t \in s : \A q \in U : q \in G[s \ {t}] => SendWatchRequest(q, t) \in G[s]
    BY <1>5, <1>7
  <1>9. remote' \in G[S]
    <2>1. FoldSet(LAMBDA t, r : SendWatchRequest(r, t), base, S) \in G[S]
      BY <1>4, <1>6, <1>7, <1>8, SendFold
    <2>. QED
      BY <1>2, <1>3, <2>1
  <1>10. SameLimbo(remote', remote) /\ remote'.listen = remote.listen
    BY <1>3, <1>5, <1>9
  <1>. QED
    BY <1>2, <1>10

\* A stream that opens passes the resolutions on.
LEMMA OpensPasses ==
  ASSUME IInv, StreamOpens
  PROVE  Passes(remote, view.limbo, remote', view'.limbo)
  <1>1. view' = view /\ SameLimbo(remote', remote)
    BY OpensKeeps
  <1>. QED
    BY <1>1, SameLimboPasses

\* A client that has just been started resolves nothing.
LEMMA RestartPasses ==
  ASSUME IInv, Restart
  PROVE  Passes(remote, view.limbo, remote', view'.limbo)
  <1>1. remote' = Listening(store.token) /\ view' = [view EXCEPT !.limbo = {}, !.current = FALSE, !.own = store.mine]
    BY DEF Restart
  <1>2. view'.limbo = {}
    BY <1>1 DEF IInv, Views
  <1>3. remote'.resolutions = <<>> /\ remote'.byKey = <<>> /\ remote'.enqueued = <<>>
    BY <1>1 DEF Listening
  <1>4. DOMAIN <<>> = {}
    OBVIOUS
  <1>5. Matched(remote', {})
    BY <1>3, <1>4 DEF Matched, Registered
  <1>. QED
    BY <1>2, <1>5 DEF Passes, PassesNeed, PassesWait, Waiting

\* The user sends a message.
LEMMA SendMessagePasses ==
  ASSUME IInv, NEW d \in Docs, SendMessage(d)
  PROVE  Passes(remote, view.limbo, remote', view'.limbo)
  <1>1. view \in Views /\ store \in Stores /\ remote \in Good(conn, view.synced) /\ conn \in Conns
    BY DEF IInv
  <1>2. PICK v, s : v = [view EXCEPT !.own = @ \cup {d}] /\ s = [store EXCEPT !.mine = @ \cup {d}]
    OBVIOUS
  <1>3. v \in Views /\ s \in Stores /\ v.synced = view.synced /\ v.limbo = view.limbo
    BY <1>1, <1>2 DEF Views, Stores
  <1>4. Emit(remote, v, s)
    BY <1>2 DEF SendMessage
  <1>5. Passes(remote, v.limbo, remote', view'.limbo)
    BY <1>1, <1>3, <1>4, EmitPasses
  <1>. QED
    BY <1>3, <1>5

\* A write has been committed.
LEMMA WriteAcknowledgedPasses ==
  ASSUME IInv, NEW d \in Docs, WriteAcknowledged(d)
  PROVE  Passes(remote, view.limbo, remote', view'.limbo)
  <1>1. /\ server \in Servers /\ view \in Views /\ store \in Stores /\ remote \in Good(conn, view.synced)
        /\ conn \in Conns
    BY DEF IInv
  <1>2. PICK done, v, s :
           /\ done = [store EXCEPT !.mine = @ \ {d}] /\ v = [view EXCEPT !.own = @ \ {d}]
           /\ s = [done EXCEPT !.committed = @ \cup {d}, !.cache[d] = [ver |-> server.acks[d], exists |-> TRUE]]
    OBVIOUS
  <1>3. d \in DOMAIN server.acks /\ (Emit(remote, v, done) \/ Emit(remote, view, s))
    BY <1>2, Zenon DEF WriteAcknowledged
  <1>4. done \in Stores /\ v \in Views /\ v.synced = view.synced /\ v.limbo = view.limbo
    BY <1>1, <1>2 DEF Stores, Views
  <1>5. s \in Stores
    <2>1. server.acks \in Maps(Docs, 1 .. MaxNow)
      BY <1>1 DEF Servers
    <2>2. server.acks[d] \in 1 .. MaxNow
      BY <1>3, <2>1, MapFacts
    <2>3. [ver |-> server.acks[d], exists |-> TRUE] \in Versions
      BY <2>2, TargetsAssumption DEF Versions
    <2>. QED
      BY <1>4, <1>2, <2>3 DEF Stores
  <1>6. CASE Emit(remote, v, done)
    <2>1. Passes(remote, v.limbo, remote', view'.limbo)
      BY <1>1, <1>4, <1>6, EmitPasses
    <2>. QED
      BY <1>4, <2>1
  <1>7. CASE Emit(remote, view, s)
    BY <1>1, <1>5, <1>7, EmitPasses
  <1>. QED
    BY <1>3, <1>6, <1>7

\* No target has been refused, or will be.
Unrefused == left.rejects = 0 /\ \A i \in DOMAIN conn.down : conn.down[i].type # "rejected"

\* A server that has no refusal left answers every request.
LEMMA ServeUnrefused ==
  ASSUME IInv, Unrefused, Serve
  PROVE  Unrefused' /\ SameLimbo(remote', remote) /\ view' = view
  <1>1. PICK q, s, t : q = Head(remote.up) /\ s = conn.down /\ t = conn'.down
    OBVIOUS
  <1>2. /\ q \in Requests /\ remote' = [remote EXCEPT !.up = Tail(@)] /\ view' = view /\ left' = left
        /\ \/ t = Append(s, [type |-> "removed", id |-> q.id])
           \/ Replied(q, Append(s, [type |-> "added", id |-> q.id]), t)
    BY <1>1, ServeShape DEF Unrefused
  <1>3. s \in Seq(Messages) /\ \A i \in DOMAIN s : s[i].type # "rejected"
    BY <1>1 DEF IInv, Conns, Unrefused
  <1>4. ASSUME NEW w \in Seq(Messages), \A i \in DOMAIN w : w[i].type # "rejected",
               NEW kind \in {"added", "removed", "reset"}
        PROVE  /\ Append(w, [type |-> kind, id |-> q.id]) \in Seq(Messages)
               /\ \A i \in DOMAIN Append(w, [type |-> kind, id |-> q.id]) :
                     Append(w, [type |-> kind, id |-> q.id])[i].type # "rejected"
    <2>1. PICK x : x = [type |-> kind, id |-> q.id]
      OBVIOUS
    <2>2. x \in Messages /\ x.type # "rejected"
      <3>1. q.id \in Nat
        BY <1>2 DEF Requests
      <3>2. x \in [type : {"added", "removed", "reset", "rejected"}, id : Nat]
        BY <2>1, <3>1
      <3>. QED
        BY <2>1, <3>2 DEF Messages
    <2>3. Append(w, x) \in Seq(Messages) /\ \A i \in DOMAIN Append(w, x) : Append(w, x)[i].type # "rejected"
      BY <1>4, <2>2, AppendFacts
    <2>. QED
      BY <2>1, <2>3
  <1>5. ASSUME NEW w, NEW A, Truthful(A, q), \A i \in DOMAIN w : w[i].type # "rejected", Adding(t, w, A)
        PROVE  \A i \in DOMAIN t : t[i].type # "rejected"
    BY <1>5 DEF Adding, Longer, Truthful
  <1>6. \A i \in DOMAIN t : t[i].type # "rejected"
    <2>1. CASE t = Append(s, [type |-> "removed", id |-> q.id])
      BY <1>3, <1>4, <2>1
    <2>2. CASE Replied(q, Append(s, [type |-> "added", id |-> q.id]), t)
      <3>1. PICK w, z : /\ w = Append(s, [type |-> "added", id |-> q.id])
                        /\ z = Append(w, [type |-> "reset", id |-> q.id])
        OBVIOUS
      <3>2. w \in Seq(Messages) /\ \A i \in DOMAIN w : w[i].type # "rejected"
        BY <1>3, <1>4, <3>1
      <3>3. \A i \in DOMAIN z : z[i].type # "rejected"
        BY <1>4, <3>1, <3>2
      <3>4. PICK A : Truthful(A, q) /\ (Adding(t, w, A) \/ Adding(t, z, A))
        BY <2>2, <3>1 DEF Replied
      <3>. QED
        BY <1>5, <3>2, <3>3, <3>4
    <2>. QED
      BY <1>2, <2>1, <2>2
  <1>7. SameLimbo(remote', remote)
    BY <1>2 DEF IInv, Good, Remotes, SameLimbo
  <1>. QED
    BY <1>1, <1>2, <1>6, <1>7 DEF Unrefused

\* Snapshots are not refusals.
LEMMA SnapshotUnrefused ==
  ASSUME IInv, Unrefused, SendSnapshot
  PROVE  Unrefused'
  <1>1. PICK S, u : Sent(S, u)
    BY SnapshotSent
  <1>2. \A i \in DOMAIN u : u[i].type # "rejected"
    BY <1>1 DEF Sent, Adding, Longer, Unrefused
  <1>3. SnapshotMessage.type # "rejected"
    BY DEF SnapshotMessage
  <1>4. \A i \in DOMAIN conn'.down : conn'.down[i].type # "rejected"
    BY <1>1, <1>2, <1>3 DEF Sent, Adding, Longer
  <1>5. left' = left
    BY DEF SendSnapshot
  <1>. QED
    BY <1>4, <1>5 DEF Unrefused

\* Whatever the server answers, it changes no resolution.
LEMMA ServeKeeps ==
  ASSUME IInv, Serve
  PROVE  SameLimbo(remote', remote) /\ view' = view
  <1>1. remote' = [remote EXCEPT !.up = Tail(@)] /\ view' = view
    BY DEF Serve
  <1>. QED
    BY <1>1 DEF IInv, Good, Remotes, SameLimbo

\* No step begins to refuse.
LEMMA StepUnrefused ==
  ASSUME IInv, Unrefused, [Next]_vars
  PROVE  Unrefused'
  <1>1. left \in FaultPlans /\ conn \in Conns
    BY DEF IInv
  <1>2. ASSUME conn' = conn, left' = left
        PROVE  Unrefused'
    BY <1>2 DEF Unrefused
  <1>3. ASSUME conn' = NoStream, left'.rejects = left.rejects
        PROVE  Unrefused'
    BY <1>3, NoStreamTyped DEF Unrefused
  <1>4. CASE StreamOpens \/ Offline \/ UNCHANGED vars
    BY <1>2, <1>4 DEF StreamOpens, Offline, vars
  <1>5. ASSUME NEW d \in Docs, SendMessage(d) \/ WriteAcknowledged(d) \/ Commit(d) \/ OthersWrite(d)
        PROVE  Unrefused'
    BY <1>2, <1>5 DEF SendMessage, WriteAcknowledged, Commit, OthersWrite
  <1>6. CASE StreamBreaks
    <2>1. conn' = NoStream /\ left' = [left EXCEPT !.breaks = @ - 1]
      BY <1>6 DEF StreamBreaks
    <2>2. left'.rejects = left.rejects
      BY <1>1, <2>1 DEF FaultPlans
    <2>. QED
      BY <1>3, <2>1, <2>2
  <1>7. CASE Restart
    <2>1. conn' = NoStream /\ left' = [left EXCEPT !.restarts = @ - 1]
      BY <1>7 DEF Restart
    <2>2. left'.rejects = left.rejects
      BY <1>1, <2>1 DEF FaultPlans
    <2>. QED
      BY <1>3, <2>1, <2>2
  <1>8. CASE Receive
    <2>1. conn' = [conn EXCEPT !.down = Tail(@)] /\ left' = left /\ conn.down # <<>>
      BY <1>8 DEF Receive
    <2>2. PICK s : s = conn.down
      OBVIOUS
    <2>3. s \in Seq(Messages) /\ conn'.down = Tail(s)
      BY <1>1, <2>1, <2>2 DEF Conns
    <2>4. \A i \in DOMAIN Tail(s) : i + 1 \in DOMAIN s /\ Tail(s)[i] = s[i + 1]
      BY <2>1, <2>2, <2>3, TailFacts
    <2>. QED
      BY <2>1, <2>2, <2>3, <2>4 DEF Unrefused
  <1>9. CASE Serve
    BY <1>9, ServeUnrefused
  <1>10. CASE SendSnapshot
    BY <1>10, SnapshotUnrefused
  <1>. QED
    BY <1>4, <1>5, <1>6, <1>7, <1>8, <1>9, <1>10 DEF Next, AckSome, CommitSome

\* Every step passes on that only documents in limbo are resolved; and, unless a
\* target is refused, that all of them are or wait for it.
LEMMA StepPasses ==
  ASSUME IInv, [Next]_vars
  PROVE  /\ PassesNeed(remote, view.limbo, remote', view'.limbo)
         /\ Unrefused => PassesWait(remote, view.limbo, remote', view'.limbo)
  <1>1. ASSUME Passes(remote, view.limbo, remote', view'.limbo)
        PROVE  /\ PassesNeed(remote, view.limbo, remote', view'.limbo)
               /\ PassesWait(remote, view.limbo, remote', view'.limbo)
    BY <1>1 DEF Passes
  <1>2. ASSUME SameLimbo(remote', remote), view'.limbo = view.limbo
        PROVE  Passes(remote, view.limbo, remote', view'.limbo)
    BY <1>2, SameLimboPasses
  <1>3. CASE Offline \/ SendSnapshot \/ UNCHANGED vars
    <2>1. remote' = remote /\ view'.limbo = view.limbo
      BY <1>3 DEF Offline, SendSnapshot, vars, IInv, Views
    <2>. QED
      BY <1>1, <1>2, <2>1 DEF SameLimbo
  <1>4. ASSUME NEW d \in Docs, Commit(d) \/ OthersWrite(d)
        PROVE  Passes(remote, view.limbo, remote', view'.limbo)
    <2>1. remote' = remote /\ view' = view
      BY <1>4 DEF Commit, OthersWrite
    <2>. QED
      BY <1>2, <2>1 DEF SameLimbo
  <1>5. ASSUME NEW d \in Docs, SendMessage(d) \/ WriteAcknowledged(d)
        PROVE  Passes(remote, view.limbo, remote', view'.limbo)
    BY <1>5, SendMessagePasses, WriteAcknowledgedPasses
  <1>6. CASE StreamBreaks
    <2>1. remote' = [remote EXCEPT !.open = FALSE, !.targets = <<>>, !.updates = <<>>,
                                   !.resets = {}, !.up = <<>>] /\ view' = view
      BY <1>6 DEF StreamBreaks
    <2>2. SameLimbo(remote', remote)
      BY <2>1 DEF IInv, Good, Remotes, SameLimbo
    <2>. QED
      BY <1>1, <1>2, <2>1, <2>2
  <1>7. CASE StreamOpens \/ Restart
    BY <1>1, <1>7, OpensPasses, RestartPasses
  <1>8. CASE Serve
    BY <1>1, <1>2, <1>8, ServeKeeps
  <1>9. CASE Receive
    <2>1. Unrefused => Head(conn.down).type # "rejected"
      <3>1. conn.down # <<>> /\ conn.down \in Seq(Messages)
        BY <1>9 DEF Receive, IInv, Conns
      <3>2. Head(conn.down) = conn.down[1] /\ 1 \in DOMAIN conn.down
        BY <3>1, TailFacts
      <3>. QED
        BY <3>2 DEF Unrefused
    <2>. QED
      BY <1>9, <2>1, ReceivePasses
  <1>. QED
    BY <1>1, <1>3, <1>4, <1>5, <1>6, <1>7, <1>8, <1>9 DEF Next, AckSome, CommitSome

\* At first there is nothing in limbo and nothing to resolve.
LEMMA InitMatched ==
  ASSUME Init
  PROVE  Matched(remote, view.limbo) /\ Waiting(remote, view.limbo) /\ conn.down = <<>>
  <1>1. conn = NoStream /\ remote = Listening(0) /\ view.limbo = {}
    BY DEF Init
  <1>2. remote.resolutions = <<>> /\ remote.byKey = <<>> /\ remote.enqueued = <<>>
    BY <1>1 DEF Listening
  <1>3. DOMAIN <<>> = {}
    OBVIOUS
  <1>. QED
    BY <1>1, <1>2, <1>3, NoStreamTyped DEF Matched, Registered, Waiting

\* What is inductive of ResolutionsAreNeeded and of LimboIsResolved.
NeededInv   == Matched(remote, view.limbo)
ResolvedInv == Unrefused /\ Waiting(remote, view.limbo)

\* Every listen but the query's is a resolution.
LEMMA NeededImplies == IInv /\ NeededInv => ResolutionsAreNeeded
  <1>1. ASSUME IInv, NeededInv
        PROVE  ResolutionsAreNeeded
    <2>1. DOMAIN remote.resolutions = DOMAIN remote.listen \ {Query}
      BY <1>1 DEF IInv, Good, Sound, Wired, Resolving
    <2>. QED
      BY <1>1, <2>1 DEF NeededInv, Matched, Registered, ResolutionsAreNeeded
  <1>. QED
    BY <1>1

\* What waits, waits in the queue.
LEMMA ResolvedImplies == ResolvedInv => LimboIsResolved
  <1>1. Range(remote.enqueued) = {remote.enqueued[i] : i \in DOMAIN remote.enqueued}
    BY DEF Range
  <1>. QED
    BY <1>1 DEF ResolvedInv, Waiting, Aims, LimboIsResolved

\* As long as all documents could be resolved at once, no resolution is left running
\* when its document has left limbo or its query is gone, whatever the stream, the
\* server, the user and the app do, refusals included.  With fewer places than
\* documents it fails: see the run limbo_queue.
THEOREM ResolutionsStayNeeded ==
  ASSUME Cardinality(Docs) <= MaxLimbo
  PROVE  Spec => []ResolutionsAreNeeded
<1>1. Init => NeededInv
  BY InitMatched DEF NeededInv
<1>2. IInv /\ NeededInv /\ [Next]_vars => NeededInv'
  <2>1. Ample
    BY DEF Ample
  <2>. QED
    BY <2>1, StepPasses DEF NeededInv, PassesNeed
<1>3. IInv /\ NeededInv => ResolutionsAreNeeded
  BY NeededImplies
<1>. QED
  BY <1>1, <1>2, <1>3, StreamIsInStep, PTL DEF Spec

\* As long as the server refuses no target, no document in limbo is forgotten: it is
\* being resolved or waits for its turn, however few are resolved at once.
THEOREM LimboStaysResolved ==
  ASSUME \A f \in Faults : f.rejects = 0
  PROVE  Spec => []LimboIsResolved
<1>1. Init => ResolvedInv
  <2>1. ASSUME Init
        PROVE  ResolvedInv
    <3>1. left.rejects = 0
      BY <2>1 DEF Init
    <3>2. conn.down = <<>> /\ Waiting(remote, view.limbo)
      BY <2>1, InitMatched
    <3>3. DOMAIN <<>> = {}
      OBVIOUS
    <3>. QED
      BY <3>1, <3>2, <3>3 DEF ResolvedInv, Unrefused
  <2>. QED
    BY <2>1
<1>2. IInv /\ ResolvedInv /\ [Next]_vars => ResolvedInv'
  BY StepPasses, StepUnrefused DEF ResolvedInv, PassesWait
<1>3. ResolvedInv => LimboIsResolved
  BY ResolvedImplies
<1>. QED
  BY <1>1, <1>2, <1>3, StreamIsInStep, PTL DEF Spec

\* Under both assumptions the documents in limbo and their resolutions belong to
\* each other.
THEOREM ResolutionsStayMatched ==
  ASSUME Cardinality(Docs) <= MaxLimbo, \A f \in Faults : f.rejects = 0
  PROVE  Spec => []ResolutionsMatchLimbo
<1>1. ResolutionsAreNeeded /\ LimboIsResolved => ResolutionsMatchLimbo
  BY DEF ResolutionsMatchLimbo
<1>. QED
  BY <1>1, ResolutionsStayNeeded, LimboStaysResolved, PTL

-----------------------------------------------------------------------------
(* What is shown and has not been listed                                   *)

\* The view holds every pending message of this client, and while it is current
\* its limbo is what it shows and neither holds nor has been listed.
InOrder(r, v, s) ==
    /\ s.mine \subseteq v.own
    /\ Watched(r) /\ v.current => v.limbo = Shown(s) \ (v.synced \cup v.own)

\* EmitNewSnapshots puts the view in order.
LEMMA EmitInOrder ==
  ASSUME NEW c \in Conns, NEW v \in Views, NEW s \in Stores, NEW r \in Good(c, v.synced),
         Emit(r, v, s), s.mine \subseteq v.own
  PROVE  InOrder(remote', view', store')
  <1>1. PICK limbo : limbo = IF Watched(r) THEN LimboDocuments(v, s) ELSE {}
    OBVIOUS
  <1>2. view' = [v EXCEPT !.limbo = limbo] /\ store' = s
    BY <1>1 DEF Emit, Watched
  <1>3. /\ view'.own = v.own /\ view'.synced = v.synced /\ view'.current = v.current
        /\ view'.limbo = limbo
    BY <1>2 DEF Views
  <1>4. Watched(remote') => Watched(r)
    BY EmitSame DEF SameQuery, SameListen
  <1>5. Watched(r) /\ v.current => limbo = Shown(s) \ (v.synced \cup v.own)
    BY <1>1, Zenon DEF LimboDocuments
  <1>. QED
    BY <1>2, <1>3, <1>4, <1>5, Zenon DEF InOrder

\* The view and what it shows stay, and the query is not listened to anew.
LEMMA SameInOrder ==
  ASSUME InOrder(remote, view, store), Watched(remote') => Watched(remote), view' = view, store' = store
  PROVE  InOrder(remote', view', store')
  BY Zenon DEF InOrder

\* What the target of the query, or of a limbo document, has brought.
LEMMA EventInOrder ==
  ASSUME NEW c \in Conns, NEW r, NEW changes, NEW v, NEW s, Emits(r, c, changes, v, s),
         InOrder(remote, view, store)
  PROVE  InOrder(remote', view', store')
  <1>1. v \in Views /\ s \in Stores /\ r \in Good(c, v.synced) /\ Emit(r, v, s)
    BY DEF Emits
  <1>2. s.mine \subseteq v.own
    BY DEF Emits, InOrder
  <1>. QED
    BY <1>1, <1>2, EmitInOrder

\* A snapshot puts the view in order.
LEMMA SnapshotInOrder ==
  ASSUME NEW m, Coming(m), m.type = "snapshot", Snapshot(m), InOrder(remote, view, store)
  PROVE  InOrder(remote', view', store')
  <1>1. Delivered(conn) \in Conns /\ m \in Messages /\ view \in Views /\ store \in Stores
    BY ComingFacts DEF Coming, IInv
  <1>2. PICK w, changes, updates :
            w \in Remotes /\ Fits(w, changes, updates) /\ ApplyRemoteEvent(w, changes, updates, m.docs)
    BY SnapshotStages
  <1>3. m.docs \in SUBSET Docs
    BY <1>1, MessageFields
  <1>4. /\ updates \in Maps(Docs, Versions)
        /\ \A synced : UpdateResolutions(w, changes) \in Good(Delivered(conn), synced)
        /\ Query \in DOMAIN changes =>
              changes[Query] \in States /\ Marked(changes[Query], "modified") \subseteq view.synced
    BY <1>2 DEF Fits
  <1>5. \E v, s : Emits(UpdateResolutions(w, changes), Delivered(conn), changes, v, s)
    BY <1>1, <1>2, <1>3, <1>4, ApplyEmits
  <1>6. PICK v, s : Emits(UpdateResolutions(w, changes), Delivered(conn), changes, v, s)
    BY <1>5
  <1>. QED
    BY <1>1, <1>6, EventInOrder

\* So does the refusal of a target.
LEMMA RejectedInOrder ==
  ASSUME NEW m, Coming(m), m.type = "rejected", HandleRejectedListen(m.id), InOrder(remote, view, store)
  PROVE  InOrder(remote', view', store')
  <1>1. Delivered(conn) \in Conns /\ view \in Views
    BY ComingFacts DEF Coming, IInv
  <1>2. CASE remote' = remote /\ view' = view /\ store' = store
    BY <1>2, SameInOrder
  <1>3. ASSUME NEW r, Refused(r)
        PROVE  InOrder(remote', view', store')
    <2>1. r \in Good(Delivered(conn), view.synced) /\ ~Watched(r)
      BY <1>3 DEF Refused
    <2>2. /\ remote' = UpdateTrackedLimboDocuments(r, view.limbo, {})
          /\ view' = [view EXCEPT !.limbo = {}] /\ store' = store
      BY <1>3 DEF Refused, RemoveAndCleanupTarget
    <2>3. view'.own = view.own
      BY <1>1, <2>2 DEF Views
    <2>4. view.limbo \subseteq Docs /\ {} \subseteq Docs
      BY <1>1 DEF Views
    <2>5. SameQuery(remote', r)
      BY <1>1, <2>1, <2>2, <2>4, UpdateTrackedSame
    <2>6. ~Watched(remote')
      BY <2>1, <2>5 DEF SameQuery, SameListen
    <2>. QED
      BY <2>2, <2>3, <2>6 DEF InOrder
  <1>4. ASSUME NEW q, GivenUp(q, m.id)
        PROVE  InOrder(remote', view', store')
    <2>1. PICK v, s : Emits(PumpEnqueuedLimboResolutions(q), Delivered(conn), <<>>, v, s)
      BY <1>4 DEF GivenUp
    <2>. QED
      BY <1>1, <2>1, EventInOrder
  <1>. QED
    BY <1>2, <1>3, <1>4, RejectedShape

\* The client takes a message.
LEMMA ReceiveInOrder ==
  ASSUME IInv, Receive, InOrder(remote, view, store)
  PROVE  InOrder(remote', view', store')
  <1>1. PICK m : m = Head(conn.down)
    OBVIOUS
  <1>2. Coming(m) /\ remote \in Remotes
    BY <1>1 DEF Coming, Receive, IInv, Good
  <1>3. \/ m.type = "document" /\ remote' = HandleDocumentChange(remote, m.ids, m.key, m.doc)
           /\ view' = view /\ store' = store
        \/ m.type = "added" /\ remote' = TargetAdded(remote, m.id) /\ view' = view /\ store' = store
        \/ m.type = "removed" /\ remote' = TargetRemoved(remote, m.id) /\ view' = view /\ store' = store
        \/ m.type = "current" /\ remote' = TargetCurrent(remote, m.id, m.token)
           /\ view' = view /\ store' = store
        \/ m.type = "reset" /\ remote' = TargetReset(remote, m.id) /\ view' = view /\ store' = store
        \/ m.type = "filter" /\ remote' = HandleExistenceFilter(remote, m.id, m.count)
           /\ view' = view /\ store' = store
        \/ m.type = "snapshot" /\ Snapshot(m)
        \/ m.type = "rejected" /\ HandleRejectedListen(m.id)
    BY <1>1 DEF Receive
  <1>4. PICK t, token, count : t = m.id /\ token = m.token /\ count = m.count
    OBVIOUS
  <1>5. /\ TargetAdded(remote, t).listen = remote.listen /\ TargetRemoved(remote, t).listen = remote.listen
        /\ TargetCurrent(remote, t, token).listen = remote.listen
        /\ TargetReset(remote, t).listen = remote.listen
        /\ HandleDocumentChange(remote, m.ids, m.key, m.doc).listen = remote.listen
        /\ HandleExistenceFilter(remote, t, count).listen = remote.listen
    BY <1>2, ListensStay
  <1>6. \/ remote'.listen = remote.listen /\ view' = view /\ store' = store
        \/ m.type = "snapshot" /\ Snapshot(m)
        \/ m.type = "rejected" /\ HandleRejectedListen(m.id)
    BY <1>3, <1>4, <1>5, Zenon
  <1>7. CASE remote'.listen = remote.listen /\ view' = view /\ store' = store
    BY <1>7, SameInOrder DEF Watched
  <1>8. CASE m.type = "snapshot" /\ Snapshot(m)
    BY <1>2, <1>8, SnapshotInOrder
  <1>9. CASE m.type = "rejected" /\ HandleRejectedListen(m.id)
    BY <1>2, <1>9, RejectedInOrder
  <1>. QED
    BY <1>6, <1>7, <1>8, <1>9
\* The user sends a message.
LEMMA SendMessageInOrder ==
  ASSUME IInv, NEW d \in Docs, SendMessage(d), InOrder(remote, view, store)
  PROVE  InOrder(remote', view', store')
  <1>1. view \in Views /\ store \in Stores /\ remote \in Good(conn, view.synced) /\ conn \in Conns
    BY DEF IInv
  <1>2. PICK v, s : v = [view EXCEPT !.own = @ \cup {d}] /\ s = [store EXCEPT !.mine = @ \cup {d}]
    OBVIOUS
  <1>3. /\ v \in Views /\ s \in Stores /\ v.synced = view.synced
        /\ v.own = view.own \cup {d} /\ s.mine = store.mine \cup {d}
    BY <1>1, <1>2 DEF Views, Stores
  <1>4. Emit(remote, v, s)
    BY <1>2 DEF SendMessage
  <1>5. s.mine \subseteq v.own
    BY <1>3 DEF InOrder
  <1>. QED
    BY <1>1, <1>3, <1>4, <1>5, EmitInOrder

\* A write has been committed: the view lets go of what is no longer pending only.
LEMMA WriteAcknowledgedInOrder ==
  ASSUME IInv, NEW d \in Docs, WriteAcknowledged(d), InOrder(remote, view, store)
  PROVE  InOrder(remote', view', store')
  <1>1. /\ server \in Servers /\ view \in Views /\ store \in Stores /\ remote \in Good(conn, view.synced)
        /\ conn \in Conns
    BY DEF IInv
  <1>2. PICK done, v, s :
           /\ done = [store EXCEPT !.mine = @ \ {d}] /\ v = [view EXCEPT !.own = @ \ {d}]
           /\ s = [done EXCEPT !.committed = @ \cup {d}, !.cache[d] = [ver |-> server.acks[d], exists |-> TRUE]]
    OBVIOUS
  <1>3. d \in DOMAIN server.acks /\ (Emit(remote, v, done) \/ Emit(remote, view, s))
    BY <1>2, Zenon DEF WriteAcknowledged
  <1>4. /\ done \in Stores /\ v \in Views /\ v.synced = view.synced
        /\ v.own = view.own \ {d} /\ done.mine = store.mine \ {d}
    BY <1>1, <1>2 DEF Stores, Views
  <1>5. s \in Stores /\ s.mine = done.mine
    <2>1. server.acks \in Maps(Docs, 1 .. MaxNow)
      BY <1>1 DEF Servers
    <2>2. server.acks[d] \in 1 .. MaxNow
      BY <1>3, <2>1, MapFacts
    <2>3. [ver |-> server.acks[d], exists |-> TRUE] \in Versions
      BY <2>2, TargetsAssumption DEF Versions
    <2>. QED
      BY <1>4, <1>2, <2>3 DEF Stores
  <1>6. done.mine \subseteq v.own /\ s.mine \subseteq view.own
    BY <1>4, <1>5 DEF InOrder
  <1>7. CASE Emit(remote, v, done)
    BY <1>1, <1>4, <1>6, <1>7, EmitInOrder
  <1>8. CASE Emit(remote, view, s)
    BY <1>1, <1>5, <1>6, <1>8, EmitInOrder
  <1>. QED
    BY <1>3, <1>7, <1>8

\* Every step leaves the view in order.
LEMMA StepInOrder ==
  ASSUME IInv, InOrder(remote, view, store), [Next]_vars
  PROVE  InOrder(remote', view', store')
  <1>1. view \in Views /\ remote \in Remotes
    BY DEF IInv, Good
  <1>2. ASSUME remote'.listen = remote.listen, view' = view, store' = store
        PROVE  InOrder(remote', view', store')
    BY <1>2, SameInOrder DEF Watched
  <1>3. CASE SendSnapshot \/ UNCHANGED vars
    BY <1>2, <1>3 DEF SendSnapshot, vars
  <1>4. ASSUME NEW d \in Docs, Commit(d) \/ OthersWrite(d)
        PROVE  InOrder(remote', view', store')
    BY <1>2, <1>4 DEF Commit, OthersWrite
  <1>5. ASSUME NEW d \in Docs, SendMessage(d) \/ WriteAcknowledged(d)
        PROVE  InOrder(remote', view', store')
    BY <1>5, SendMessageInOrder, WriteAcknowledgedInOrder
  <1>6. CASE StreamBreaks
    <2>1. remote' = [remote EXCEPT !.open = FALSE, !.targets = <<>>, !.updates = <<>>,
                                   !.resets = {}, !.up = <<>>] /\ view' = view /\ store' = store
      BY <1>6 DEF StreamBreaks
    <2>2. remote'.listen = remote.listen
      BY <1>1, <2>1 DEF Remotes
    <2>. QED
      BY <1>2, <2>1, <2>2
  <1>7. CASE StreamOpens
    <2>1. store' = store
      BY <1>7 DEF StreamOpens
    <2>. QED
      BY <1>2, <1>7, <2>1, OpensKeeps
  <1>8. CASE Offline
    <2>1. view' = [view EXCEPT !.current = FALSE] /\ store' = store
      BY <1>8 DEF Offline
    <2>2. view'.own = view.own /\ ~view'.current
      BY <1>1, <2>1 DEF Views
    <2>. QED
      BY <2>1, <2>2 DEF InOrder
  <1>9. CASE Restart
    <2>1. view' = [view EXCEPT !.current = FALSE, !.limbo = {}, !.own = store.mine] /\ store' = store
      BY <1>9 DEF Restart
    <2>2. view'.own = store.mine /\ ~view'.current
      BY <1>1, <2>1 DEF Views
    <2>. QED
      BY <2>1, <2>2 DEF InOrder
  <1>10. CASE Serve
    <2>1. remote' = [remote EXCEPT !.up = Tail(@)] /\ view' = view /\ store' = store
      BY <1>10 DEF Serve
    <2>2. remote'.listen = remote.listen
      BY <1>1, <2>1 DEF Remotes
    <2>. QED
      BY <1>2, <2>1, <2>2
  <1>11. CASE Receive
    BY <1>11, ReceiveInOrder
  <1>. QED
    BY <1>3, <1>4, <1>5, <1>6, <1>7, <1>8, <1>9, <1>10, <1>11 DEF Next, AckSome, CommitSome

\* Every pending message of this client is held by the view; and a view that says
\* it is synced shows nothing but what it holds and what the target of the query
\* has listed.
HoldsAndLists ==
    /\ store.mine \subseteq view.own
    /\ Synced => Shown(store) \ view.own \subseteq view.synced

\* Whatever is lost, refused, forgotten, counted wrong or written meanwhile, a
\* view does not say that it is synced while it shows a message that it neither
\* holds as its own nor has been told of by the target of its query; such a message
\* is in limbo (View::UpdateLimboDocuments), also when a write of this client has
\* been acknowledged or a limbo target refused since the last snapshot.
THEOREM SyncedHoldsAndLists == Spec => []HoldsAndLists
<1>1. Init => InOrder(remote, view, store)
  BY DEF Init, InOrder
<1>2. IInv /\ InOrder(remote, view, store) /\ [Next]_vars => InOrder(remote, view, store)'
  BY StepInOrder
<1>3. InOrder(remote, view, store) => HoldsAndLists
  BY DEF InOrder, HoldsAndLists, Synced, Watching, Watched
<1>. QED
  BY <1>1, <1>2, <1>3, StreamIsInStep, PTL DEF Spec
=============================================================================
