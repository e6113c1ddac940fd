-------------------------- MODULE WatchTargetsProofs --------------------------
(***************************************************************************)
(* Proofs about WatchTargets, for any documents, bounds and faults: the    *)
(* responses a target waits for are those under way, and no assertion of   *)
(* the aggregator, the sync engine, the view or the remote store fails.    *)
(***************************************************************************)
EXTENDS WatchTargets, FiniteSetTheorems, WellFoundedInduction, TLAPS

-----------------------------------------------------------------------------
(* Folds: what a handler does to a set of documents or targets             *)

\* A set of numbers without a least element is empty.
LEMMA LeastNumber ==
  ASSUME NEW T, T \subseteq Nat, T # {}
  PROVE  \E n \in T : \A m \in T : n <= m
<1>1. PICK n \in T : \A m \in T : ~(<<m, n>> \in OpToRel(<, Nat))
  BY NatLessThanWellFounded, WFMin
<1>2. \A m \in T : ~(m < n)
  BY <1>1 DEF OpToRel
<1>3. \A m \in T : n <= m
  BY <1>2
<1>. QED
  BY <1>3

\* One element fewer.
LEMMA OneOut ==
  ASSUME NEW S, IsFiniteSet(S), NEW s \in SUBSET S, NEW x \in s
  PROVE  /\ s \ {x} \in SUBSET S
         /\ Cardinality(s) \in Nat /\ Cardinality(s \ {x}) \in Nat
         /\ Cardinality(s \ {x}) + 1 = Cardinality(s)
<1>1. IsFiniteSet(s)
  BY FS_Subset
<1>2. PICK n, m : n = Cardinality(s) /\ m = Cardinality(s \ {x})
  OBVIOUS
<1>3. n \in Nat /\ m = n - 1 /\ IsFiniteSet(s \ {x})
  BY <1>1, <1>2, FS_CardinalityType, FS_RemoveElement
<1>4. m \in Nat
  BY <1>2, <1>3, FS_CardinalityType
<1>. QED
  BY <1>2, <1>3, <1>4

\* What is true without elements, and of a set when it is of the set without the
\* element a fold takes first, is true of every finite set.
LEMMA FoldStays ==
  ASSUME NEW S, IsFiniteSet(S), NEW G, NEW c, NEW f,
         \A s \in SUBSET S : s # {} => c[s] \in s,
         f[{}] \in G[{}],
         \A s \in SUBSET S : s # {} /\ f[s \ {c[s]}] \in G[s \ {c[s]}] => f[s] \in G[s]
  PROVE  f[S] \in G[S]
<1>1. PICK T : T = {Cardinality(s) : s \in {u \in SUBSET S : f[u] \notin G[u]}}
  OBVIOUS
<1>2. \A s \in SUBSET S : Cardinality(s) \in Nat
  BY FS_Subset, FS_CardinalityType
<1>3. T \subseteq Nat
  BY <1>1, <1>2
<1>4. SUFFICES ASSUME f[S] \notin G[S]
               PROVE  FALSE
  OBVIOUS
<1>5. T # {}
  BY <1>1, <1>4
<1>6. PICK n \in T : \A m \in T : n <= m
  BY <1>3, <1>5, LeastNumber
<1>7. PICK s \in SUBSET S : f[s] \notin G[s] /\ n = Cardinality(s)
  BY <1>1, <1>6
<1>8. s # {} /\ c[s] \in s
  BY <1>7
<1>9. f[s \ {c[s]}] \notin G[s \ {c[s]}] /\ s \ {c[s]} \in SUBSET S
  BY <1>7, <1>8
<1>10. Cardinality(s \ {c[s]}) \in T
  BY <1>1, <1>9
<1>11. PICK m : m = Cardinality(s \ {c[s]})
  OBVIOUS
<1>12. m \in Nat /\ n \in Nat /\ m + 1 = n
  BY <1>7, <1>8, <1>11, OneOut
<1>13. n <= m
  BY <1>6, <1>10, <1>11
<1>. QED
  BY <1>12, <1>13

\* All that f has to say of the subsets of S is in U.
Stays(f, S, U) == \A s \in SUBSET S : f[s] \in U

\* c chooses an element of each set.
Chooses(c, S) == \A s \in SUBSET S : s # {} => c[s] \in s

\* f is the fold over the subsets of S that begins with base and goes on with g,
\* taking the element c[s] of s last.
IsFold(f, S, c, g, base) ==
    f = [s \in SUBSET S |-> IF s = {} THEN base ELSE g[c[s]][f[s \ {c[s]}]]]

\* A fold of a function over a finite set has a value.
LEMMA FoldDefined ==
  ASSUME NEW S, IsFiniteSet(S), NEW G, NEW c, NEW base \in G, NEW g \in [S -> [G -> G]],
         \A s \in SUBSET S : s # {} => c[s] \in s
  PROVE  \E f : IsFold(f, S, c, g, base)
<1>. DEFINE Sub(n) == {s \in SUBSET S : Cardinality(s) <= n}
            Value(h, s) == IF s = {} THEN base ELSE g[c[s]][h[s \ {c[s]}]]
            Good(n) == \E h \in [Sub(n) -> G] : h = [s \in Sub(n) |-> Value(h, s)]
<1>1. \A s \in SUBSET S : Cardinality(s) \in Nat
  BY FS_Subset, FS_CardinalityType
<1>2. Good(0)
  <2>1. PICK h : h = [s \in Sub(0) |-> base]
    OBVIOUS
  <2>2. \A s \in Sub(0) : s = {}
    <3>1. ASSUME NEW s \in Sub(0)
          PROVE  s = {}
      <4>1. IsFiniteSet(s) /\ Cardinality(s) \in Nat /\ Cardinality(s) <= 0
        BY <1>1, FS_Subset
      <4>2. Cardinality(s) = 0
        BY <4>1
      <4>. QED
        BY <4>1, <4>2, FS_EmptySet
    <3>. QED
      BY <3>1
  <2>3. h \in [Sub(0) -> G] /\ h = [s \in Sub(0) |-> Value(h, s)]
    BY <2>1, <2>2
  <2>. QED
    BY <2>3
<1>3. ASSUME NEW n \in Nat, Good(n)
      PROVE  Good(n + 1)
  <2>1. PICK h \in [Sub(n) -> G] : h = [s \in Sub(n) |-> Value(h, s)]
    BY <1>3
  <2>2. PICK k : k = [s \in Sub(n + 1) |-> Value(h, s)]
    OBVIOUS
  <2>3. ASSUME NEW s \in Sub(n + 1), s # {}
        PROVE  c[s] \in S /\ s \ {c[s]} \in Sub(n) /\ s \ {c[s]} \in Sub(n + 1)
    <3>1. c[s] \in s /\ s \in SUBSET S
      BY <2>3
    <3>2. PICK i, j : i = Cardinality(s) /\ j = Cardinality(s \ {c[s]})
      OBVIOUS
    <3>3. i \in Nat /\ j \in Nat /\ j + 1 = i /\ i <= n + 1
      BY <3>1, <3>2, OneOut
    <3>4. j <= n /\ j <= n + 1
      BY <3>3
    <3>. QED
      BY <3>1, <3>2, <3>4
  <2>4. k \in [Sub(n + 1) -> G]
    <3>1. ASSUME NEW s \in Sub(n + 1)
          PROVE  Value(h, s) \in G
      <4>1. CASE s = {}
        BY <4>1
      <4>2. CASE s # {}
        <5>1. PICK u : u = s \ {c[s]}
          OBVIOUS
        <5>2. c[s] \in S /\ h[u] \in G
          BY <2>1, <2>3, <4>2, <5>1
        <5>3. g[c[s]] \in [G -> G]
          BY <5>2
        <5>4. g[c[s]][h[u]] \in G
          BY <5>2, <5>3
        <5>. QED
          BY <4>2, <5>1, <5>4
      <4>. QED
        BY <4>1, <4>2
    <3>. QED
      BY <2>2, <3>1
  <2>5. ASSUME NEW s \in Sub(n + 1)
        PROVE  Value(h, s) = Value(k, s)
    <3>1. CASE s = {}
      BY <3>1
    <3>2. CASE s # {}
      <4>1. PICK u : u = s \ {c[s]}
        OBVIOUS
      <4>2. u \in Sub(n) /\ u \in Sub(n + 1)
        BY <2>3, <3>2, <4>1
      <4>3. h[u] = Value(h, u) /\ k[u] = Value(h, u)
        <5>. HIDE DEF Value
        <5>. QED
          BY <2>1, <2>2, <4>2
      <4>. QED
        BY <4>1, <4>3
    <3>. QED
      BY <3>1, <3>2
  <2>6. k = [s \in Sub(n + 1) |-> Value(k, s)]
    <3>. HIDE DEF Value
    <3>. QED
      BY <2>2, <2>5
  <2>. QED
    BY <2>4, <2>6
<1>4. \A n \in Nat : Good(n)
  <2>1. PICK T : T = {n \in Nat : ~Good(n)}
    OBVIOUS
  <2>2. SUFFICES ASSUME T # {}
                 PROVE  FALSE
    BY <2>1
  <2>3. PICK n \in T : \A m \in T : n <= m
    <3>. HIDE DEF Good
    <3>. QED
      BY <2>1, <2>2, LeastNumber
  <2>. HIDE DEF Good
  <2>4. n \in Nat /\ ~Good(n)
    BY <2>1, <2>3
  <2>5. CASE n = 0
    BY <1>2, <2>4, <2>5
  <2>6. CASE n # 0
    <3>1. n - 1 \in Nat /\ ~(n <= n - 1) /\ (n - 1) + 1 = n
      BY <2>4, <2>6
    <3>2. Good(n - 1)
      BY <2>1, <2>3, <3>1
    <3>3. PICK p : p = n - 1
      OBVIOUS
    <3>4. p \in Nat /\ Good(p) /\ p + 1 = n
      BY <3>1, <3>2, <3>3
    <3>5. Good(p + 1)
      BY <1>3, <3>4
    <3>. QED
      BY <2>4, <3>4, <3>5
  <2>. QED
    BY <2>5, <2>6
<1>5. PICK n : n = Cardinality(S)
  OBVIOUS
<1>6. n \in Nat /\ Sub(n) = SUBSET S
  BY <1>1, <1>5, FS_Subset
<1>7. PICK f \in [Sub(n) -> G] : f = [s \in Sub(n) |-> Value(f, s)]
  BY <1>4, <1>6
<1>8. f = [s \in SUBSET S |-> Value(f, s)]
  BY <1>6, <1>7
<1>. QED
  BY <1>8 DEF IsFold

\* Such a fold stays where base is and where g leads to.
LEMMA FoldEnds ==
  ASSUME NEW S, IsFiniteSet(S), NEW U, NEW c, NEW base \in U, NEW g \in [S -> [U -> U]],
         Chooses(c, S)
  PROVE  \E f : IsFold(f, S, c, g, base) /\ Stays(f, S, U)
<1>1. PICK f : IsFold(f, S, c, g, base)
  BY FoldDefined DEF Chooses
<1>2. ASSUME NEW s \in SUBSET S
      PROVE  f[s] \in U
  <2>1. PICK G : G = [u \in SUBSET s |-> U]
    OBVIOUS
  <2>2. IsFiniteSet(s)
    BY FS_Subset
  <2>3. \A u \in SUBSET s : u # {} => c[u] \in u
    BY DEF Chooses
  <2>4. f[{}] \in G[{}]
    BY <1>1, <2>1 DEF IsFold
  <2>5. ASSUME NEW u \in SUBSET s, u # {}, f[u \ {c[u]}] \in G[u \ {c[u]}]
        PROVE  f[u] \in G[u]
    <3>1. PICK x, v : x = c[u] /\ v = f[u \ {c[u]}]
      OBVIOUS
    <3>2. x \in S /\ v \in U /\ f[u] = g[x][v]
      BY <1>1, <2>1, <2>3, <2>5, <3>1 DEF IsFold
    <3>3. g[x] \in [U -> U]
      BY <3>2
    <3>4. g[x][v] \in U
      BY <3>2, <3>3
    <3>. QED
      BY <2>1, <3>2, <3>4
  <2>6. f[s] \in G[s]
    BY <2>2, <2>3, <2>4, <2>5, FoldStays
  <2>. QED
    BY <2>1, <2>6
<1>3. Stays(f, S, U)
  BY <1>2 DEF Stays
<1>. QED
  BY <1>1, <1>3

-----------------------------------------------------------------------------
(* Functions with a domain that grows and shrinks                          *)

Maps(K, V) == UNION {[ks -> V] : ks \in SUBSET K}

\* A map is a function whose keys and values are in the two sets.
LEMMA MapFacts ==
  ASSUME NEW K, NEW V, NEW f
  PROVE  f \in Maps(K, V) <=> /\ f = [x \in DOMAIN f |-> f[x]]
                              /\ DOMAIN f \subseteq K
                              /\ \A x \in DOMAIN f : f[x] \in V
BY DEF Maps

\* g is f, but k maps to v.
Maplet(g, f, k, v) ==
    /\ DOMAIN g = DOMAIN f \cup {k}
    /\ g[k] = v
    /\ \A x \in DOMAIN f : x # k => g[x] = f[x]

\* With changes one key, and the map stays one.
LEMMA WithFacts ==
  ASSUME NEW K, NEW V, NEW f \in Maps(K, V), NEW k \in K, NEW v \in V
  PROVE  With(f, k, v) \in Maps(K, V) /\ Maplet(With(f, k, v), f, k, v)
<1>1. PICK ks \in SUBSET K : f \in [ks -> V]
  BY DEF Maps
<1>2. PICK g : g = [x \in ks \cup {k} |-> IF x = k THEN v ELSE f[x]]
  OBVIOUS
<1>3. g \in [ks \cup {k} -> V] /\ ks \cup {k} \in SUBSET K /\ DOMAIN f = ks
  BY <1>1, <1>2
<1>4. g[k] = v /\ \A x \in ks : x # k => g[x] = f[x]
  BY <1>2
<1>5. g \in Maps(K, V) /\ DOMAIN g = ks \cup {k}
  BY <1>3 DEF Maps
<1>6. With(f, k, v) = g
  BY <1>2, <1>3 DEF With
<1>7. Maplet(g, f, k, v)
  BY <1>3, <1>4, <1>5 DEF Maplet
<1>. QED
  BY <1>5, <1>6, <1>7, Zenon

\* g is f, but nothing is said of k.
Dropping(g, f, k) ==
    /\ DOMAIN g = DOMAIN f \ {k}
    /\ \A x \in DOMAIN f : x # k => g[x] = f[x]

\* Without drops one key, and the map stays one.
LEMMA WithoutFacts ==
  ASSUME NEW K, NEW V, NEW f \in Maps(K, V), NEW k
  PROVE  Without(f, k) \in Maps(K, V) /\ Dropping(Without(f, k), f, k)
<1>1. PICK ks \in SUBSET K : f \in [ks -> V]
  BY DEF Maps
<1>2. PICK g : g = [x \in ks \ {k} |-> f[x]]
  OBVIOUS
<1>3. g \in [ks \ {k} -> V] /\ ks \ {k} \in SUBSET K /\ DOMAIN f = ks
  BY <1>1, <1>2
<1>4. \A x \in ks : x # k => g[x] = f[x]
  BY <1>2
<1>5. g \in Maps(K, V) /\ DOMAIN g = ks \ {k}
  BY <1>3 DEF Maps
<1>6. Without(f, k) = g
  BY <1>2, <1>3 DEF Without
<1>7. Dropping(g, f, k)
  BY <1>3, <1>4, <1>5 DEF Dropping
<1>. QED
  BY <1>5, <1>6, <1>7, Zenon

\* The empty sequence is the empty map.
LEMMA EmptyMap ==
  ASSUME NEW K, NEW V
  PROVE  <<>> \in Maps(K, V) /\ DOMAIN <<>> = {}
<1>1. <<>> = [x \in {} |-> x] /\ DOMAIN <<>> = {}
  OBVIOUS
<1>2. <<>> \in [{} -> V]
  BY <1>1
<1>. QED
  BY <1>1, <1>2 DEF Maps

-----------------------------------------------------------------------------
(* Types of the client's side of the stream                                *)

Keys == Docs \cup {All}
Tokens == 0 .. MaxNow
Kinds == {"added", "modified", "removed"}
Listens == [key : Keys, token : Tokens]
States == [out : Nat, current : BOOLEAN, changes : Maps(Docs, Kinds), token : Tokens,
           dirty : BOOLEAN]
Resolutions == [key : Docs, received : BOOLEAN]

Remotes ==
    [open : BOOLEAN, listen : Maps(Nat, Listens), targets : Maps(Nat, States),
     updates : Maps(Docs, Versions), resets : SUBSET Nat, up : Seq(Requests),
     resolutions : Maps(Nat, Resolutions), byKey : Maps(Docs, Nat), enqueued : Seq(Docs),
     next : Nat, ok : BOOLEAN]

\* A target the aggregator has not seen waits for nothing and has no changes.
LEMMA BlankState == Blank \in States /\ Blank.out = 0 /\ DOMAIN Blank.changes = {}
<1>1. MaxNow \in Nat
  BY TargetsAssumption
<1>2. 0 \in Tokens
  BY <1>1 DEF Tokens
<1>3. <<>> \in Maps(Docs, Kinds) /\ DOMAIN <<>> = {}
  BY EmptyMap
<1>4. PICK e : e = <<>>
  OBVIOUS
<1>. QED
  BY <1>2, <1>3, <1>4 DEF Blank, States

\* What the aggregator has of a target is typed, seen or not.
LEMMA StateTyped ==
  ASSUME NEW r \in Remotes, NEW t
  PROVE  /\ State(r, t) \in States
         /\ t \in DOMAIN r.targets => State(r, t) = r.targets[t]
         /\ t \notin DOMAIN r.targets => State(r, t) = Blank
<1>1. r.targets \in Maps(Nat, States)
  BY DEF Remotes
<1>2. t \in DOMAIN r.targets => r.targets[t] \in States
  BY <1>1, MapFacts
<1>. QED
  BY <1>2, BlankState, Zenon DEF State

\* What a request changes: q is r after it.
Requesting(q, r, op, t, token) ==
    /\ \E e \in Requests, st \in States :
          /\ e.op = op /\ e.id = t /\ e.token = token
          /\ op = "watch" => e.key = r.listen[t].key
          /\ st = [State(r, t) EXCEPT !.out = @ + 1]
          /\ q.targets = With(r.targets, t, st)
          /\ q.up = Append(r.up, e)
    /\ q.open = r.open /\ q.listen = r.listen /\ q.updates = r.updates /\ q.resets = r.resets
    /\ q.resolutions = r.resolutions /\ q.byKey = r.byKey /\ q.enqueued = r.enqueued
    /\ q.next = r.next /\ q.ok = r.ok

\* Request adds one to what its target waits for and one request to the stream.
LEMMA RequestFields ==
  ASSUME NEW r \in Remotes, NEW op \in {"watch", "unwatch"}, NEW t \in Nat, NEW token \in Tokens,
         op = "watch" => t \in DOMAIN r.listen
  PROVE  /\ Request(r, op, t, token) \in Remotes
         /\ Requesting(Request(r, op, t, token), r, op, t, token)
<1>1. PICK st : st = [State(r, t) EXCEPT !.out = @ + 1]
  OBVIOUS
<1>2. st \in States
  BY <1>1, StateTyped DEF States
<1>3. PICK k : k = IF op = "watch" THEN r.listen[t].key ELSE All
  OBVIOUS
<1>4. k \in Keys
  <2>1. r.listen \in Maps(Nat, Listens)
    BY DEF Remotes
  <2>2. op = "watch" => r.listen[t] \in Listens
    BY <2>1, MapFacts
  <2>. QED
    BY <1>3, <2>2 DEF Listens, Keys
<1>5. PICK e : e = [op |-> op, id |-> t, token |-> token, key |-> k]
  OBVIOUS
<1>6. e \in Requests /\ e.op = op /\ e.id = t /\ e.token = token /\ e.key = k
  BY <1>4, <1>5 DEF Requests, Keys, Tokens
<1>7. PICK ts, u : ts = With(r.targets, t, st) /\ u = Append(r.up, e)
  OBVIOUS
<1>8. ts \in Maps(Nat, States) /\ u \in Seq(Requests)
  <2>1. r.targets \in Maps(Nat, States) /\ r.up \in Seq(Requests)
    BY DEF Remotes
  <2>2. With(r.targets, t, st) \in Maps(Nat, States)
    BY <1>2, <2>1, WithFacts
  <2>3. \A S : \A s \in Seq(S), x \in S : Append(s, x) \in Seq(S)
    OBVIOUS
  <2>4. Append(r.up, e) \in Seq(Requests)
    BY <1>6, <2>1, <2>3, Zenon
  <2>. QED
    BY <1>7, <2>2, <2>4
<1>9. Request(r, op, t, token) = [r EXCEPT !.targets = ts, !.up = u]
  BY <1>1, <1>3, <1>5, <1>7 DEF Request
<1>10. PICK q : q = [r EXCEPT !.targets = ts, !.up = u]
  OBVIOUS
<1>11. /\ q \in Remotes /\ q.targets = ts /\ q.up = u
       /\ q.open = r.open /\ q.listen = r.listen /\ q.updates = r.updates /\ q.resets = r.resets
       /\ q.resolutions = r.resolutions /\ q.byKey = r.byKey /\ q.enqueued = r.enqueued
       /\ q.next = r.next /\ q.ok = r.ok
  BY <1>8, <1>10 DEF Remotes
<1>12. /\ e.op = op /\ e.id = t /\ e.token = token
       /\ op = "watch" => e.key = r.listen[t].key
       /\ st = [State(r, t) EXCEPT !.out = @ + 1]
       /\ q.targets = With(r.targets, t, st) /\ q.up = Append(r.up, e)
  <2>1. op = "watch" => k = r.listen[t].key
    BY <1>3
  <2>. QED
    BY <1>1, <1>6, <1>7, <1>11, <2>1, Zenon
<1>13. Request(r, op, t, token) = q
  BY <1>9, <1>10, Zenon
<1>14. Requesting(q, r, op, t, token)
  BY <1>2, <1>6, <1>11, <1>12, Zenon DEF Requesting
<1>. QED
  BY <1>11, <1>13, <1>14, Zenon

-----------------------------------------------------------------------------
(* Counting in sequences                                                   *)

Hits(s, M) == {i \in DOMAIN s : s[i] \in M}
Count(s, M) == Cardinality(Hits(s, M))

\* Hits are positions, finitely many; none means no element is hit.
LEMMA CountFacts ==
  ASSUME NEW S, NEW s \in Seq(S), NEW M
  PROVE  /\ DOMAIN s = 1..Len(s) /\ Len(s) \in Nat
         /\ IsFiniteSet(Hits(s, M)) /\ Count(s, M) \in Nat
         /\ (\A i \in DOMAIN s : s[i] \notin M) <=> Count(s, M) = 0
<1>1. DOMAIN s = 1..Len(s) /\ Len(s) \in Nat
  OBVIOUS
<1>2. IsFiniteSet(1..Len(s)) /\ Hits(s, M) \in SUBSET (1..Len(s))
  BY <1>1, FS_Interval DEF Hits
<1>3. IsFiniteSet(Hits(s, M)) /\ Count(s, M) \in Nat
  BY <1>2, FS_Subset, FS_CardinalityType DEF Count
<1>4. Count(s, M) = 0 <=> Hits(s, M) = {}
  BY <1>3, FS_EmptySet DEF Count
<1>. QED
  BY <1>1, <1>3, <1>4 DEF Hits

\* What is appended is counted once more if it is hit.
LEMMA CountAppend ==
  ASSUME NEW S, NEW s \in Seq(S), NEW x \in S, NEW M
  PROVE  Count(Append(s, x), M) = Count(s, M) + (IF x \in M THEN 1 ELSE 0)
<1>1. PICK n : n = Len(s) /\ n \in Nat
  OBVIOUS
<1>2. /\ DOMAIN s = 1..n /\ DOMAIN Append(s, x) = 1..(n + 1)
      /\ \A i \in 1..n : Append(s, x)[i] = s[i]
      /\ Append(s, x)[n + 1] = x
  BY <1>1
<1>3. 1..(n + 1) = 1..n \cup {n + 1} /\ n + 1 \notin 1..n
  BY <1>1
<1>4. Hits(Append(s, x), M) = Hits(s, M) \cup (IF x \in M THEN {n + 1} ELSE {})
  BY <1>2, <1>3 DEF Hits
<1>5. n + 1 \notin Hits(s, M) /\ IsFiniteSet(Hits(s, M)) /\ Count(s, M) \in Nat
  BY <1>2, <1>3, CountFacts DEF Hits
<1>6. CASE x \in M
  <2>1. Hits(Append(s, x), M) = Hits(s, M) \cup {n + 1}
    BY <1>4, <1>6
  <2>2. Cardinality(Hits(s, M) \cup {n + 1}) = Cardinality(Hits(s, M)) + 1
    BY <1>5, FS_AddElement
  <2>. QED
    BY <1>6, <2>1, <2>2 DEF Count
<1>7. CASE x \notin M
  <2>1. Hits(Append(s, x), M) = Hits(s, M)
    BY <1>4, <1>7
  <2>2. PICK k : k = Count(s, M) /\ k \in Nat
    BY <1>5
  <2>3. k = k + 0
    BY <2>2
  <2>. QED
    BY <1>7, <2>1, <2>2, <2>3 DEF Count
<1>. QED
  BY <1>6, <1>7

\* What is taken from the front is counted once less if it was hit.
LEMMA CountTail ==
  ASSUME NEW S, NEW s \in Seq(S), s # <<>>, NEW M
  PROVE  Count(s, M) = Count(Tail(s), M) + (IF Head(s) \in M THEN 1 ELSE 0)
<1>1. PICK n : n = Len(s) /\ n \in Nat /\ n >= 1
  OBVIOUS
<1>2. PICK t : t = Tail(s)
  OBVIOUS
<1>3. /\ DOMAIN s = 1..n /\ DOMAIN t = 1..(n - 1) /\ t \in Seq(S)
      /\ \A i \in 1..(n - 1) : t[i] = s[i + 1]
      /\ Head(s) = s[1]
  BY <1>1, <1>2
<1>4. PICK H, I : H = Hits(t, M) /\ I = Hits(s, M) \ {1}
  OBVIOUS
<1>5. IsFiniteSet(H) /\ IsFiniteSet(Hits(s, M)) /\ Count(s, M) \in Nat /\ Count(t, M) \in Nat
  BY <1>3, <1>4, CountFacts
<1>6. PICK f : f = [i \in H |-> i + 1]
  OBVIOUS
<1>7. H \subseteq 1..(n - 1) /\ I \subseteq 1..n /\ 1 \notin I
  BY <1>3, <1>4 DEF Hits
<1>8. \A i \in H : i + 1 \in I
  <2>1. ASSUME NEW i \in H
        PROVE  i + 1 \in I
    <3>1. i \in 1..(n - 1) /\ t[i] \in M
      BY <1>3, <1>4 DEF Hits
    <3>2. i + 1 \in 1..n /\ i + 1 # 1
      BY <1>1, <3>1
    <3>. QED
      BY <1>3, <1>4, <3>1, <3>2 DEF Hits
  <2>. QED
    BY <2>1
<1>9. \A j \in I : j - 1 \in H /\ (j - 1) + 1 = j
  <2>1. ASSUME NEW j \in I
        PROVE  j - 1 \in H /\ (j - 1) + 1 = j
    <3>1. j \in 1..n /\ j # 1 /\ s[j] \in M
      BY <1>3, <1>4 DEF Hits
    <3>2. j - 1 \in 1..(n - 1) /\ (j - 1) + 1 = j
      BY <1>1, <3>1
    <3>3. t[j - 1] = s[j]
      BY <1>3, <3>2
    <3>. QED
      BY <1>3, <1>4, <3>1, <3>2, <3>3 DEF Hits
  <2>. QED
    BY <2>1
<1>10. f \in Bijection(H, I)
  <2>1. f \in [H -> I]
    BY <1>6, <1>8
  <2>2. \A i, j \in H : f[i] = f[j] => i = j
    BY <1>6, <1>7
  <2>3. \A j \in I : \E i \in H : f[i] = j
    BY <1>6, <1>9
  <2>. QED
    BY <2>1, <2>2, <2>3 DEF Bijection, Injection, Surjection, IsInjective
<1>11. Cardinality(I) = Cardinality(H)
  BY <1>5, <1>10, FS_Bijection DEF ExistsBijection
<1>12. Cardinality(I) = IF 1 \in Hits(s, M) THEN Count(s, M) - 1 ELSE Count(s, M)
  BY <1>4, <1>5, FS_RemoveElement DEF Count
<1>13. 1 \in Hits(s, M) <=> Head(s) \in M
  BY <1>1, <1>3 DEF Hits
<1>14. Cardinality(H) = Count(t, M)
  BY <1>4 DEF Count
<1>15. PICK a, b : a = Count(s, M) /\ b = Count(t, M)
  OBVIOUS
<1>16. a \in Nat /\ b \in Nat /\ (b = IF Head(s) \in M THEN a - 1 ELSE a)
  BY <1>5, <1>11, <1>12, <1>13, <1>14, <1>15
<1>17. a = b + (IF Head(s) \in M THEN 1 ELSE 0)
  BY <1>16
<1>. QED
  BY <1>2, <1>15, <1>17

\* What is not counted can follow.
LEMMA CountJoin ==
  ASSUME NEW S, NEW s \in Seq(S), NEW w \in Seq(S), NEW M, \A i \in DOMAIN w : w[i] \notin M
  PROVE  Count(s \o w, M) = Count(s, M)
<1>1. PICK n, m : n = Len(s) /\ m = Len(w)
  OBVIOUS
<1>2. /\ n \in Nat /\ m \in Nat /\ DOMAIN s = 1..n /\ DOMAIN w = 1..m
      /\ DOMAIN (s \o w) = 1..(n + m)
      /\ \A i \in 1..(n + m) : (s \o w)[i] = IF i <= n THEN s[i] ELSE w[i - n]
  BY <1>1
<1>3. \A i \in 1..(n + m) : i \in 1..n \/ (~(i <= n) /\ i - n \in 1..m)
  BY <1>2
<1>4. \A i \in 1..n : i \in 1..(n + m) /\ i <= n
  BY <1>2
<1>5. Hits(s \o w, M) = Hits(s, M)
  <2>1. ASSUME NEW i \in 1..(n + m), (s \o w)[i] \in M
        PROVE  i \in 1..n /\ s[i] \in M
    <3>1. CASE i \in 1..n
      BY <1>2, <1>4, <2>1, <3>1
    <3>2. CASE ~(i <= n) /\ i - n \in 1..m
      BY <1>2, <2>1, <3>2
    <3>. QED
      BY <1>3, <3>1, <3>2
  <2>2. ASSUME NEW i \in 1..n, s[i] \in M
        PROVE  i \in 1..(n + m) /\ (s \o w)[i] \in M
    BY <1>2, <1>4, <2>2
  <2>. QED
    BY <1>2, <2>1, <2>2 DEF Hits
<1>. QED
  BY <1>5 DEF Count

-----------------------------------------------------------------------------
(* The folds of the handlers                                               *)

\* The documents that enter limbo.
LEMMA TrackAlong ==
  ASSUME NEW S, IsFiniteSet(S), NEW U, NEW base \in U,
         \A x \in S : \A q \in U : TrackLimboChange(x, q) \in U,
         NEW G, base \in G[{}],
         \A s \in SUBSET S : \A x \in s : \A q \in U :
             q \in G[s \ {x}] => TrackLimboChange(x, q) \in G[s]
  PROVE  FoldSet(TrackLimboChange, base, S) \in G[S]
<1>1. PICK c : c = [s \in SUBSET S |-> CHOOSE x \in s : TRUE]
  OBVIOUS
<1>2. PICK g : g = [x \in S |-> [q \in U |-> TrackLimboChange(x, q)]]
  OBVIOUS
<1>3. g \in [S -> [U -> U]]
  BY <1>2
<1>4. Chooses(c, S)
  BY <1>1 DEF Chooses
<1>5. PICK f : IsFold(f, S, c, g, base) /\ Stays(f, S, U)
  BY <1>3, <1>4, FoldEnds, Zenon
<1>. DEFINE Fold(k) == k = [s \in SUBSET S |-> IF s = {} THEN base
                             ELSE TrackLimboChange(CHOOSE x \in s : TRUE, k[s \ {CHOOSE x \in s : TRUE}])]
<1>6. Fold(f)
  <2>1. ASSUME NEW s \in SUBSET S, s # {}
        PROVE  g[c[s]][f[s \ {c[s]}]] = TrackLimboChange(c[s], f[s \ {c[s]}])
    <3>1. PICK x, v : x = c[s] /\ v = f[s \ {c[s]}]
      OBVIOUS
    <3>2. x \in S /\ v \in U
      BY <1>4, <1>5, <2>1, <3>1 DEF Chooses, Stays
    <3>. QED
      BY <1>2, <3>1, <3>2
  <2>2. \A s \in SUBSET S : c[s] = (CHOOSE x \in s : TRUE)
    BY <1>1
  <2>3. f = [s \in SUBSET S |-> IF s = {} THEN base ELSE TrackLimboChange(c[s], f[s \ {c[s]}])]
    BY <1>5, <2>1 DEF IsFold
  <2>. QED
    BY <2>2, <2>3
<1>7. PICK h : h = (CHOOSE k : Fold(k))
  OBVIOUS
<1>8. FoldSet(TrackLimboChange, base, S) = h[S]
  BY <1>7 DEF FoldSet, MapThenFoldSet
<1>9. Fold(h)
  <2>. HIDE DEF Fold
  <2>. QED
    BY <1>6, <1>7
<1>10. PICK H : H = [s \in SUBSET S |-> U \cap G[s]]
  OBVIOUS
<1>11. h[{}] = base /\ h[{}] \in H[{}]
  BY <1>9, <1>10
<1>12. ASSUME NEW s \in SUBSET S, s # {}, h[s \ {c[s]}] \in H[s \ {c[s]}]
      PROVE  h[s] \in H[s]
  <2>1. PICK x, v : x = c[s] /\ v = h[s \ {x}]
    OBVIOUS
  <2>2. x \in s /\ v \in U /\ v \in G[s \ {x}] /\ h[s] = TrackLimboChange(x, v)
    <3>1. c[s] = (CHOOSE y \in s : TRUE) /\ c[s] \in s
      BY <1>1, <1>4, <1>12 DEF Chooses
    <3>2. h[s] = TrackLimboChange(x, v)
      BY <1>9, <1>12, <2>1, <3>1, Zenon
    <3>. QED
      BY <1>10, <1>12, <2>1, <3>1, <3>2
  <2>3. TrackLimboChange(x, v) \in U /\ TrackLimboChange(x, v) \in G[s]
    BY <2>2
  <2>. QED
    BY <1>10, <2>2, <2>3
<1>13. h[S] \in H[S]
  BY <1>4, <1>11, <1>12, FoldStays, Zenon DEF Chooses
<1>. QED
  BY <1>8, <1>10, <1>13

\* The same, without counting.
LEMMA TrackFold ==
  ASSUME NEW S, IsFiniteSet(S), NEW U, NEW base \in U,
         \A x \in S : \A q \in U : TrackLimboChange(x, q) \in U
  PROVE  FoldSet(TrackLimboChange, base, S) \in U
<1>1. PICK G : G = [s \in SUBSET S |-> U]
  OBVIOUS
<1>2. base \in G[{}]
  BY <1>1
<1>3. \A s \in SUBSET S : \A x \in s : \A q \in U :
          q \in G[s \ {x}] => TrackLimboChange(x, q) \in G[s]
  BY <1>1
<1>4. FoldSet(TrackLimboChange, base, S) \in G[S]
  BY <1>2, <1>3, TrackAlong
<1>. QED
  BY <1>1, <1>4

\* The documents that leave limbo.
LEMMA RemoveAlong ==
  ASSUME NEW S, IsFiniteSet(S), NEW U, NEW base \in U,
         \A x \in S : \A q \in U : RemoveLimboTarget(x, q) \in U,
         NEW G, base \in G[{}],
         \A s \in SUBSET S : \A x \in s : \A q \in U :
             q \in G[s \ {x}] => RemoveLimboTarget(x, q) \in G[s]
  PROVE  FoldSet(RemoveLimboTarget, base, S) \in G[S]
<1>1. PICK c : c = [s \in SUBSET S |-> CHOOSE x \in s : TRUE]
  OBVIOUS
<1>2. PICK g : g = [x \in S |-> [q \in U |-> RemoveLimboTarget(x, q)]]
  OBVIOUS
<1>3. g \in [S -> [U -> U]]
  BY <1>2
<1>4. Chooses(c, S)
  BY <1>1 DEF Chooses
<1>5. PICK f : IsFold(f, S, c, g, base) /\ Stays(f, S, U)
  BY <1>3, <1>4, FoldEnds, Zenon
<1>. DEFINE Fold(k) == k = [s \in SUBSET S |-> IF s = {} THEN base
                             ELSE RemoveLimboTarget(CHOOSE x \in s : TRUE, k[s \ {CHOOSE x \in s : TRUE}])]
<1>6. Fold(f)
  <2>1. ASSUME NEW s \in SUBSET S, s # {}
        PROVE  g[c[s]][f[s \ {c[s]}]] = RemoveLimboTarget(c[s], f[s \ {c[s]}])
    <3>1. PICK x, v : x = c[s] /\ v = f[s \ {c[s]}]
      OBVIOUS
    <3>2. x \in S /\ v \in U
      BY <1>4, <1>5, <2>1, <3>1 DEF Chooses, Stays
    <3>. QED
      BY <1>2, <3>1, <3>2
  <2>2. \A s \in SUBSET S : c[s] = (CHOOSE x \in s : TRUE)
    BY <1>1
  <2>3. f = [s \in SUBSET S |-> IF s = {} THEN base ELSE RemoveLimboTarget(c[s], f[s \ {c[s]}])]
    BY <1>5, <2>1 DEF IsFold
  <2>. QED
    BY <2>2, <2>3
<1>7. PICK h : h = (CHOOSE k : Fold(k))
  OBVIOUS
<1>8. FoldSet(RemoveLimboTarget, base, S) = h[S]
  BY <1>7 DEF FoldSet, MapThenFoldSet
<1>9. Fold(h)
  <2>. HIDE DEF Fold
  <2>. QED
    BY <1>6, <1>7
<1>10. PICK H : H = [s \in SUBSET S |-> U \cap G[s]]
  OBVIOUS
<1>11. h[{}] = base /\ h[{}] \in H[{}]
  BY <1>9, <1>10
<1>12. ASSUME NEW s \in SUBSET S, s # {}, h[s \ {c[s]}] \in H[s \ {c[s]}]
      PROVE  h[s] \in H[s]
  <2>1. PICK x, v : x = c[s] /\ v = h[s \ {x}]
    OBVIOUS
  <2>2. x \in s /\ v \in U /\ v \in G[s \ {x}] /\ h[s] = RemoveLimboTarget(x, v)
    <3>1. c[s] = (CHOOSE y \in s : TRUE) /\ c[s] \in s
      BY <1>1, <1>4, <1>12 DEF Chooses
    <3>2. h[s] = RemoveLimboTarget(x, v)
      BY <1>9, <1>12, <2>1, <3>1, Zenon
    <3>. QED
      BY <1>10, <1>12, <2>1, <3>1, <3>2
  <2>3. RemoveLimboTarget(x, v) \in U /\ RemoveLimboTarget(x, v) \in G[s]
    BY <2>2
  <2>. QED
    BY <1>10, <2>2, <2>3
<1>13. h[S] \in H[S]
  BY <1>4, <1>11, <1>12, FoldStays, Zenon DEF Chooses
<1>. QED
  BY <1>8, <1>10, <1>13

\* The same, without counting.
LEMMA RemoveFold ==
  ASSUME NEW S, IsFiniteSet(S), NEW U, NEW base \in U,
         \A x \in S : \A q \in U : RemoveLimboTarget(x, q) \in U
  PROVE  FoldSet(RemoveLimboTarget, base, S) \in U
<1>1. PICK G : G = [s \in SUBSET S |-> U]
  OBVIOUS
<1>2. base \in G[{}]
  BY <1>1
<1>3. \A s \in SUBSET S : \A x \in s : \A q \in U :
          q \in G[s \ {x}] => RemoveLimboTarget(x, q) \in G[s]
  BY <1>1
<1>4. FoldSet(RemoveLimboTarget, base, S) \in G[S]
  BY <1>2, <1>3, RemoveAlong
<1>. QED
  BY <1>1, <1>4

\* The listens that are sent again on a new stream.
LEMMA SendFold ==
  ASSUME NEW S, IsFiniteSet(S), NEW U, NEW base \in U,
         \A x \in S : \A q \in U : SendWatchRequest(q, x) \in U,
         NEW G, base \in G[{}],
         \A s \in SUBSET S : \A x \in s : \A q \in U :
             q \in G[s \ {x}] => SendWatchRequest(q, x) \in G[s]
  PROVE  FoldSet(LAMBDA t, r : SendWatchRequest(r, t), base, S) \in G[S]
<1>1. PICK c : c = [s \in SUBSET S |-> CHOOSE x \in s : TRUE]
  OBVIOUS
<1>2. PICK g : g = [x \in S |-> [q \in U |-> SendWatchRequest(q, x)]]
  OBVIOUS
<1>3. g \in [S -> [U -> U]]
  BY <1>2
<1>4. Chooses(c, S)
  BY <1>1 DEF Chooses
<1>5. PICK f : IsFold(f, S, c, g, base) /\ Stays(f, S, U)
  BY <1>3, <1>4, FoldEnds, Zenon
<1>. DEFINE Fold(k) == k = [s \in SUBSET S |-> IF s = {} THEN base
                             ELSE SendWatchRequest(k[s \ {CHOOSE x \in s : TRUE}], CHOOSE x \in s : TRUE)]
<1>6. Fold(f)
  <2>1. ASSUME NEW s \in SUBSET S, s # {}
        PROVE  g[c[s]][f[s \ {c[s]}]] = SendWatchRequest(f[s \ {c[s]}], c[s])
    <3>1. PICK x, v : x = c[s] /\ v = f[s \ {c[s]}]
      OBVIOUS
    <3>2. x \in S /\ v \in U
      BY <1>4, <1>5, <2>1, <3>1 DEF Chooses, Stays
    <3>. QED
      BY <1>2, <3>1, <3>2
  <2>2. \A s \in SUBSET S : c[s] = (CHOOSE x \in s : TRUE)
    BY <1>1
  <2>3. f = [s \in SUBSET S |-> IF s = {} THEN base ELSE SendWatchRequest(f[s \ {c[s]}], c[s])]
    BY <1>5, <2>1 DEF IsFold
  <2>. QED
    BY <2>2, <2>3
<1>7. PICK h : h = (CHOOSE k : Fold(k))
  OBVIOUS
<1>8. FoldSet(LAMBDA t, r : SendWatchRequest(r, t), base, S) = h[S]
  BY <1>7 DEF FoldSet, MapThenFoldSet
<1>9. Fold(h)
  <2>. HIDE DEF Fold
  <2>. QED
    BY <1>6, <1>7
<1>10. PICK H : H = [s \in SUBSET S |-> U \cap G[s]]
  OBVIOUS
<1>11. h[{}] = base /\ h[{}] \in H[{}]
  BY <1>9, <1>10
<1>12. ASSUME NEW s \in SUBSET S, s # {}, h[s \ {c[s]}] \in H[s \ {c[s]}]
      PROVE  h[s] \in H[s]
  <2>1. PICK x, v : x = c[s] /\ v = h[s \ {x}]
    OBVIOUS
  <2>2. x \in s /\ v \in U /\ v \in G[s \ {x}] /\ h[s] = SendWatchRequest(v, x)
    <3>1. c[s] = (CHOOSE y \in s : TRUE) /\ c[s] \in s
      BY <1>1, <1>4, <1>12 DEF Chooses
    <3>2. h[s] = SendWatchRequest(v, x)
      BY <1>9, <1>12, <2>1, <3>1, Zenon
    <3>. QED
      BY <1>10, <1>12, <2>1, <3>1, <3>2
  <2>3. SendWatchRequest(v, x) \in U /\ SendWatchRequest(v, x) \in G[s]
    BY <2>2
  <2>. QED
    BY <1>10, <2>2, <2>3
<1>13. h[S] \in H[S]
  BY <1>4, <1>11, <1>12, FoldStays, Zenon DEF Chooses
<1>. QED
  BY <1>8, <1>10, <1>13

\* The targets whose existence filter did not match.
LEMMA RewatchFold ==
  ASSUME NEW S, IsFiniteSet(S), NEW U, NEW base \in U,
         \A x \in S : \A q \in U : Rewatch(x, q) \in U,
         NEW G, base \in G[{}],
         \A s \in SUBSET S : \A x \in s : \A q \in U :
             q \in G[s \ {x}] => Rewatch(x, q) \in G[s]
  PROVE  FoldSet(Rewatch, base, S) \in G[S]
<1>1. PICK c : c = [s \in SUBSET S |-> CHOOSE x \in s : TRUE]
  OBVIOUS
<1>2. PICK g : g = [x \in S |-> [q \in U |-> Rewatch(x, q)]]
  OBVIOUS
<1>3. g \in [S -> [U -> U]]
  BY <1>2
<1>4. Chooses(c, S)
  BY <1>1 DEF Chooses
<1>5. PICK f : IsFold(f, S, c, g, base) /\ Stays(f, S, U)
  BY <1>3, <1>4, FoldEnds, Zenon
<1>. DEFINE Fold(k) == k = [s \in SUBSET S |-> IF s = {} THEN base
                             ELSE Rewatch(CHOOSE x \in s : TRUE, k[s \ {CHOOSE x \in s : TRUE}])]
<1>6. Fold(f)
  <2>1. ASSUME NEW s \in SUBSET S, s # {}
        PROVE  g[c[s]][f[s \ {c[s]}]] = Rewatch(c[s], f[s \ {c[s]}])
    <3>1. PICK x, v : x = c[s] /\ v = f[s \ {c[s]}]
      OBVIOUS
    <3>2. x \in S /\ v \in U
      BY <1>4, <1>5, <2>1, <3>1 DEF Chooses, Stays
    <3>. QED
      BY <1>2, <3>1, <3>2
  <2>2. \A s \in SUBSET S : c[s] = (CHOOSE x \in s : TRUE)
    BY <1>1
  <2>3. f = [s \in SUBSET S |-> IF s = {} THEN base ELSE Rewatch(c[s], f[s \ {c[s]}])]
    BY <1>5, <2>1 DEF IsFold
  <2>. QED
    BY <2>2, <2>3
<1>7. PICK h : h = (CHOOSE k : Fold(k))
  OBVIOUS
<1>8. FoldSet(Rewatch, base, S) = h[S]
  BY <1>7 DEF FoldSet, MapThenFoldSet
<1>9. Fold(h)
  <2>. HIDE DEF Fold
  <2>. QED
    BY <1>6, <1>7
<1>10. PICK H : H = [s \in SUBSET S |-> U \cap G[s]]
  OBVIOUS
<1>11. h[{}] = base /\ h[{}] \in H[{}]
  BY <1>9, <1>10
<1>12. ASSUME NEW s \in SUBSET S, s # {}, h[s \ {c[s]}] \in H[s \ {c[s]}]
      PROVE  h[s] \in H[s]
  <2>1. PICK x, v : x = c[s] /\ v = h[s \ {x}]
    OBVIOUS
  <2>2. x \in s /\ v \in U /\ v \in G[s \ {x}] /\ h[s] = Rewatch(x, v)
    <3>1. c[s] = (CHOOSE y \in s : TRUE) /\ c[s] \in s
      BY <1>1, <1>4, <1>12 DEF Chooses
    <3>2. h[s] = Rewatch(x, v)
      BY <1>9, <1>12, <2>1, <3>1, Zenon
    <3>. QED
      BY <1>10, <1>12, <2>1, <3>1, <3>2
  <2>3. Rewatch(x, v) \in U /\ Rewatch(x, v) \in G[s]
    BY <2>2
  <2>. QED
    BY <1>10, <2>2, <2>3
<1>13. h[S] \in H[S]
  BY <1>4, <1>11, <1>12, FoldStays, Zenon DEF Chooses
<1>. QED
  BY <1>8, <1>10, <1>13

\* The deletes a snapshot adds.
LEMMA DeleteFold ==
  ASSUME NEW p, NEW ver, NEW S, S = MissingIn(p), IsFiniteSet(S), NEW U, p \in U,
         \A x \in S : \A q \in U : HandleDocumentChange(q, {x}, p.listen[x].key, [ver |-> ver, exists |-> FALSE]) \in U
  PROVE  SynthesizeDeletes(p, ver) \in U
<1>1. PICK c : c = [s \in SUBSET S |-> CHOOSE x \in s : TRUE]
  OBVIOUS
<1>2. PICK g : g = [x \in S |-> [q \in U |-> HandleDocumentChange(q, {x}, p.listen[x].key, [ver |-> ver, exists |-> FALSE])]]
  OBVIOUS
<1>3. g \in [S -> [U -> U]]
  BY <1>2
<1>4. Chooses(c, S)
  BY <1>1 DEF Chooses
<1>5. PICK f : IsFold(f, S, c, g, p) /\ Stays(f, S, U)
  BY <1>3, <1>4, FoldEnds, Zenon
<1>. DEFINE Fold(k) == k = [s \in SUBSET S |-> IF s = {} THEN p
                             ELSE HandleDocumentChange(k[s \ {CHOOSE x \in s : TRUE}], {CHOOSE x \in s : TRUE}, p.listen[CHOOSE x \in s : TRUE].key, [ver |-> ver, exists |-> FALSE])]
<1>6. Fold(f)
  <2>1. ASSUME NEW s \in SUBSET S, s # {}
        PROVE  g[c[s]][f[s \ {c[s]}]] = HandleDocumentChange(f[s \ {c[s]}], {c[s]}, p.listen[c[s]].key, [ver |-> ver, exists |-> FALSE])
    <3>1. PICK x, v : x = c[s] /\ v = f[s \ {c[s]}]
      OBVIOUS
    <3>2. x \in S /\ v \in U
      BY <1>4, <1>5, <2>1, <3>1 DEF Chooses, Stays
    <3>. QED
      BY <1>2, <3>1, <3>2
  <2>2. \A s \in SUBSET S : c[s] = (CHOOSE x \in s : TRUE)
    BY <1>1
  <2>3. f = [s \in SUBSET S |-> IF s = {} THEN p ELSE HandleDocumentChange(f[s \ {c[s]}], {c[s]}, p.listen[c[s]].key, [ver |-> ver, exists |-> FALSE])]
    BY <1>5, <2>1 DEF IsFold
  <2>. QED
    BY <2>2, <2>3
<1>7. PICK h : h = (CHOOSE k : Fold(k))
  OBVIOUS
<1>8. SynthesizeDeletes(p, ver) = h[S]
  BY <1>7 DEF SynthesizeDeletes, FoldSet, MapThenFoldSet
<1>9. Fold(h)
  <2>. HIDE DEF Fold
  <2>. QED
    BY <1>6, <1>7
<1>10. PICK H : H = [s \in SUBSET S |-> U]
  OBVIOUS
<1>11. h[{}] = p /\ h[{}] \in H[{}]
  BY <1>9, <1>10
<1>12. ASSUME NEW s \in SUBSET S, s # {}, h[s \ {c[s]}] \in H[s \ {c[s]}]
      PROVE  h[s] \in H[s]
  <2>1. PICK x, v : x = c[s] /\ v = h[s \ {x}]
    OBVIOUS
  <2>2. x \in S /\ v \in U /\ h[s] = HandleDocumentChange(v, {x}, p.listen[x].key, [ver |-> ver, exists |-> FALSE])
    <3>1. c[s] = (CHOOSE y \in s : TRUE) /\ c[s] \in s
      BY <1>1, <1>4, <1>12 DEF Chooses
    <3>2. h[s] = HandleDocumentChange(v, {x}, p.listen[x].key, [ver |-> ver, exists |-> FALSE])
      BY <1>9, <1>12, <2>1, <3>1, Zenon
    <3>. QED
      BY <1>10, <1>12, <2>1, <3>1, <3>2
  <2>3. HandleDocumentChange(v, {x}, p.listen[x].key, [ver |-> ver, exists |-> FALSE]) \in U
    BY <2>2
  <2>. QED
    BY <1>10, <2>2, <2>3
<1>13. h[S] \in H[S]
  BY <1>4, <1>11, <1>12, FoldStays, Zenon DEF Chooses
<1>. QED
  BY <1>8, <1>10, <1>13

\* The greatest of some numbers from 1 to n is one of them.
LEMMA MaxOfPart ==
  ASSUME NEW n \in Nat, NEW s \in SUBSET (1..n), s # {}
  PROVE  Max(s) \in s
<1>1. PICK T : T = {n - x : x \in s}
  OBVIOUS
<1>2. T \subseteq Nat /\ T # {}
  <2>1. \A x \in 1..n : n - x \in Nat
    OBVIOUS
  <2>2. \A x \in s : n - x \in Nat
    BY <2>1
  <2>. QED
    BY <1>1, <2>2
<1>3. PICK m \in T : \A k \in T : m <= k
  BY <1>2, LeastNumber
<1>4. PICK x \in s : m = n - x
  BY <1>1, <1>3
<1>5. \A y \in s : n - x <= n - y
  BY <1>1, <1>3, <1>4
<1>6. \A y \in s : x >= y
  BY <1>4, <1>5
<1>. QED
  BY <1>4, <1>6 DEF Max

\* The rounds of PumpEnqueuedLimboResolutions.
LEMMA PumpAlong ==
  ASSUME NEW base, base.enqueued \in Seq(Docs), NEW U, base \in U,
         \A q \in U : PumpOne(q) \in U,
         NEW G, base \in G[{}],
         \A s \in SUBSET (1..Len(base.enqueued)) : \A x \in s : \A q \in U :
             q \in G[s \ {x}] => PumpOne(q) \in G[s]
  PROVE  PumpEnqueuedLimboResolutions(base) \in G[1..Len(base.enqueued)]
<1>1. PICK n \in Nat : n = Len(base.enqueued)
  OBVIOUS
<1>2. PICK S : S = 1..n
  OBVIOUS
<1>3. DOMAIN base.enqueued = S
  BY <1>1, <1>2
<1>4. IsFiniteSet(S)
  BY <1>2, FS_Interval
<1>5. PICK c : c = [s \in SUBSET S |-> Max(s)]
  OBVIOUS
<1>6. PICK g : g = [x \in S |-> [q \in U |-> PumpOne(q)]]
  OBVIOUS
<1>7. g \in [S -> [U -> U]]
  BY <1>6
<1>8. Chooses(c, S)
  BY <1>1, <1>2, <1>5, MaxOfPart DEF Chooses
<1>9. PICK f : IsFold(f, S, c, g, base) /\ Stays(f, S, U)
  BY <1>4, <1>7, <1>8, FoldEnds, Zenon
<1>. DEFINE Fold(k) == k = [s \in SUBSET S |-> IF s = {} THEN base
                             ELSE PumpOne(k[s \ {Max(s)}])]
<1>10. Fold(f)
  <2>1. ASSUME NEW s \in SUBSET S, s # {}
        PROVE  g[c[s]][f[s \ {c[s]}]] = PumpOne(f[s \ {c[s]}])
    <3>1. PICK x, v : x = c[s] /\ v = f[s \ {c[s]}]
      OBVIOUS
    <3>2. x \in S /\ v \in U
      BY <1>8, <1>9, <2>1, <3>1 DEF Chooses, Stays
    <3>. QED
      BY <1>6, <3>1, <3>2
  <2>2. \A s \in SUBSET S : c[s] = Max(s)
    BY <1>5
  <2>3. f = [s \in SUBSET S |-> IF s = {} THEN base ELSE PumpOne(f[s \ {c[s]}])]
    BY <1>9, <2>1 DEF IsFold
  <2>. QED
    BY <2>2, <2>3
<1>11. PICK h : h = (CHOOSE k : Fold(k))
  OBVIOUS
<1>12. PumpEnqueuedLimboResolutions(base) = h[S]
  BY <1>3, <1>11 DEF PumpEnqueuedLimboResolutions, FoldLeft, MapThenFoldSet
<1>13. Fold(h)
  <2>. HIDE DEF Fold
  <2>. QED
    BY <1>10, <1>11
<1>14. PICK H : H = [s \in SUBSET S |-> U \cap G[s]]
  OBVIOUS
<1>15. h[{}] = base /\ h[{}] \in H[{}]
  BY <1>13, <1>14
<1>16. ASSUME NEW s \in SUBSET S, s # {}, h[s \ {c[s]}] \in H[s \ {c[s]}]
       PROVE  h[s] \in H[s]
  <2>1. PICK x, v : x = c[s] /\ v = h[s \ {x}]
    OBVIOUS
  <2>2. x \in s /\ v \in U /\ v \in G[s \ {x}] /\ h[s] = PumpOne(v)
    <3>1. c[s] = Max(s) /\ c[s] \in s
      BY <1>5, <1>8, <1>16 DEF Chooses
    <3>2. h[s] = PumpOne(v)
      BY <1>13, <1>16, <2>1, <3>1, Zenon
    <3>. QED
      BY <1>14, <1>16, <2>1, <3>1, <3>2
  <2>3. PumpOne(v) \in U /\ PumpOne(v) \in G[s]
    BY <1>1, <1>2, <2>2
  <2>. QED
    BY <1>14, <2>2, <2>3
<1>17. h[S] \in H[S]
  BY <1>4, <1>8, <1>15, <1>16, FoldStays, Zenon DEF Chooses
<1>. QED
  BY <1>1, <1>2, <1>12, <1>14, <1>17

\* The same, without counting.
LEMMA PumpFold ==
  ASSUME NEW base, base.enqueued \in Seq(Docs), NEW U, base \in U,
         \A q \in U : PumpOne(q) \in U
  PROVE  PumpEnqueuedLimboResolutions(base) \in U
<1>1. PICK n, G : n = 1..Len(base.enqueued) /\ G = [s \in SUBSET n |-> U]
  OBVIOUS
<1>2. base \in G[{}]
  BY <1>1
<1>3. \A s \in SUBSET (1..Len(base.enqueued)) : \A x \in s : \A q \in U :
          q \in G[s \ {x}] => PumpOne(q) \in G[s]
  BY <1>1
<1>4. PumpEnqueuedLimboResolutions(base) \in G[1..Len(base.enqueued)]
  BY <1>2, <1>3, PumpAlong
<1>. QED
  BY <1>1, <1>4

-----------------------------------------------------------------------------
(* What holds between two tasks                                            *)

Versioned == [key : Keys, sent : Tokens]
Messages ==
    UNION {[type : {"document"}, key : Docs, ids : SUBSET Nat, doc : Versions],
           [type : {"added", "removed", "reset", "rejected"}, id : Nat],
           [type : {"current"}, id : Nat, token : Tokens],
           [type : {"filter"}, id : Nat, count : Nat],
           [type : {"snapshot"}, ver : Tokens, docs : SUBSET Docs]}

Conns == [watched : Maps(Nat, Versioned), down : Seq(Messages), told : BOOLEAN]

\* Requests about the target t, and their answers.
Requested(t) == {q \in Requests : q.id = t}
Answers(t)   == {[type |-> y, id |-> t] : y \in {"added", "removed", "rejected"}}
Pending(r, c, t) == Count(r.up, Requested(t)) + Count(c.down, Answers(t))

\* A closed stream carries nothing, and its aggregator is gone.
Closed(r, c) ==
    ~r.open => /\ DOMAIN r.targets = {} /\ r.up = <<>> /\ r.resets = {}
               /\ c.down = <<>> /\ DOMAIN c.watched = {}

\* Target ids are given out in order.
Known(r) == r.next > 0 /\ \A t \in DOMAIN r.listen \cup DOMAIN r.targets : t < r.next

\* A resolution is a listen to its document.
Resolving(r) ==
    /\ DOMAIN r.resolutions = DOMAIN r.listen \ {Query}
    /\ \A t \in DOMAIN r.resolutions : r.listen[t].key = r.resolutions[t].key
    /\ \A d \in DOMAIN r.byKey :
          r.byKey[d] \in DOMAIN r.resolutions /\ r.resolutions[r.byKey[d]].key = d

\* What a limbo target is asked and answered is about its document.
Suits(r, t, d) == t \in DOMAIN r.resolutions => d = r.resolutions[t].key
FitRequests(r) == {q \in Requests : q.id < r.next /\ (q.op = "watch" => Suits(r, q.id, q.key))}
FitMessages(r) ==
    {m \in Messages :
        /\ m.type = "document" => \A t \in m.ids : t < r.next /\ Suits(r, t, m.key)
        /\ m.type \notin {"document", "snapshot"} => m.id < r.next
        /\ m.type = "filter" /\ m.id \in DOMAIN r.resolutions => m.count <= 1}
Fitting(r, c) ==
    /\ r.up \in Seq(FitRequests(r)) /\ c.down \in Seq(FitMessages(r))
    /\ \A t \in DOMAIN c.watched : t < r.next /\ Suits(r, t, c.watched[t].key)

\* Nothing follows the request to watch a target that is listened to, nor the
\* refusal to.
LastWord(r, c) ==
    /\ \A i, j \in DOMAIN r.up :
          /\ r.up[i].op = "watch" /\ r.up[i].id \in DOMAIN r.listen
          /\ j > i
          => r.up[j].id # r.up[i].id
    /\ \A i \in DOMAIN c.down :
          c.down[i].type = "rejected" /\ c.down[i].id \in DOMAIN r.listen =>
            /\ \A j \in DOMAIN r.up : r.up[j].id # c.down[i].id
            /\ \A j \in DOMAIN c.down : j > i => c.down[j] \notin Answers(c.down[i].id)

Wired(r, c) == Closed(r, c) /\ Known(r) /\ Resolving(r) /\ Fitting(r, c) /\ LastWord(r, c)

\* What a target waits for is under way; what it no longer waits for may be too.
Owed(r, c) ==
    \A t \in Nat : /\ Pending(r, c, t) <= State(r, t).out
                   /\ t \in DOMAIN r.listen => State(r, t).out = Pending(r, c, t)

\* The documents of target t, when those of the query are synced: RemoteKeys.
KnownTo(r, t, synced) ==
    IF t \in DOMAIN r.resolutions
    THEN {d \in {r.resolutions[t].key} : r.resolutions[t].received}
    ELSE IF t = Query THEN synced ELSE {}

\* Only what a target knows is modified in it or removed from it.
Justified(r, t, st, synced) ==
    /\ st.out > 0 \/ ~st.dirty => DOMAIN st.changes = {}
    /\ \A d \in DOMAIN st.changes :
          st.changes[d] \in {"modified", "removed"} => d \in KnownTo(r, t, synced)
    /\ t # Query => DOMAIN st.changes \subseteq {r.listen[t].key}
Marks(r, synced) ==
    \A t \in DOMAIN r.targets \cap DOMAIN r.listen : Justified(r, t, r.targets[t], synced)

\* Only the query is watched again, and only when all its requests are answered.
Idle(r) ==
    /\ r.resets \subseteq {Query}
    /\ Query \in r.resets \cap DOMAIN r.listen => State(r, Query).out = 0

Sound(r, c, synced) == r.ok /\ Wired(r, c) /\ Owed(r, c) /\ Marks(r, synced) /\ Idle(r)
Good(c, synced) == {r \in Remotes : Sound(r, c, synced)}

\* The fields each type of message has, and which of them answer a request.
LEMMA MessageFields ==
  ASSUME NEW m \in Messages
  PROVE  /\ m.type \in {"document", "added", "removed", "reset", "rejected", "current", "filter", "snapshot"}
         /\ m.type = "document" => m.key \in Docs /\ m.ids \subseteq Nat /\ m.doc \in Versions
         /\ m.type \notin {"document", "snapshot"} => m.id \in Nat
         /\ m.type = "current" => m.token \in Tokens
         /\ m.type = "filter" => m.count \in Nat
         /\ m.type = "snapshot" => m.ver \in Tokens /\ m.docs \in SUBSET Docs
         /\ \A t : m \in Answers(t) <=> m.type \in {"added", "removed", "rejected"} /\ m.id = t
<1>1. CASE m \in [type : {"document"}, key : Docs, ids : SUBSET Nat, doc : Versions]
  BY <1>1 DEF Answers
<1>2. CASE m \in [type : {"added", "removed", "reset", "rejected"}, id : Nat]
  BY <1>2 DEF Answers
<1>3. CASE m \in [type : {"current"}, id : Nat, token : Tokens]
  BY <1>3 DEF Answers
<1>4. CASE m \in [type : {"filter"}, id : Nat, count : Nat]
  BY <1>4 DEF Answers
<1>5. CASE m \in [type : {"snapshot"}, ver : Tokens, docs : SUBSET Docs]
  BY <1>5 DEF Answers
<1>. QED
  BY <1>1, <1>2, <1>3, <1>4, <1>5 DEF Messages

\* q knows at least the targets r knows, and r's resolutions are q's.
Follows(q, r) ==
    /\ r.next <= q.next
    /\ \A t \in DOMAIN q.resolutions :
          t < r.next => t \in DOMAIN r.resolutions /\ q.resolutions[t].key = r.resolutions[t].key

\* What fits a client fits one that follows it.
LEMMA FitFollows ==
  ASSUME NEW r \in Remotes, NEW q \in Remotes, Follows(q, r)
  PROVE  /\ \A t \in Nat : \A d : t < r.next /\ Suits(r, t, d) => t < q.next /\ Suits(q, t, d)
         /\ FitRequests(r) \subseteq FitRequests(q)
         /\ FitMessages(r) \subseteq FitMessages(q)
<1>1. r.next \in Nat /\ q.next \in Nat
  BY DEF Remotes
<1>2. ASSUME NEW t \in Nat, NEW d, t < r.next, Suits(r, t, d)
      PROVE  t < q.next /\ Suits(q, t, d)
  BY <1>1, <1>2 DEF Follows, Suits
<1>3. ASSUME NEW e \in FitRequests(r)
      PROVE  e \in FitRequests(q)
  <2>1. e \in Requests /\ e.id \in Nat /\ e.id < r.next
    BY <1>3 DEF FitRequests, Requests
  <2>2. e.op = "watch" => Suits(r, e.id, e.key)
    BY <1>3 DEF FitRequests
  <2>3. e.id < q.next
    BY <1>1, <2>1 DEF Follows
  <2>. QED
    BY <1>2, <2>1, <2>2, <2>3 DEF FitRequests
<1>4. ASSUME NEW m \in FitMessages(r)
      PROVE  m \in FitMessages(q)
  <2>1. m \in Messages
    BY <1>4 DEF FitMessages
  <2>2. m.type = "document" => \A t \in m.ids : t < q.next /\ Suits(q, t, m.key)
    BY <1>2, <1>4, <2>1, MessageFields DEF FitMessages
  <2>3. m.type \notin {"document", "snapshot"} => m.id \in Nat /\ m.id < r.next /\ m.id < q.next
    BY <1>1, <1>4, <2>1, MessageFields DEF FitMessages, Follows
  <2>4. ASSUME m.type = "filter", m.id \in DOMAIN q.resolutions
        PROVE  m.count <= 1
    <3>1. m.id < r.next
      BY <2>3, <2>4
    <3>2. m.id \in DOMAIN r.resolutions
      BY <2>4, <3>1 DEF Follows
    <3>. QED
      BY <1>4, <2>4, <3>2 DEF FitMessages
  <2>. QED
    BY <2>1, <2>2, <2>3, <2>4 DEF FitMessages
<1>. QED
  BY <1>2, <1>3, <1>4

\* A sequence over a set is one over a larger set.
LEMMA SeqGrows ==
  ASSUME NEW A, NEW B, A \subseteq B
  PROVE  Seq(A) \subseteq Seq(B)
OBVIOUS

\* What is under way stays fitting.
LEMMA FittingFollows ==
  ASSUME NEW r \in Remotes, NEW q \in Remotes, NEW c \in Conns, Follows(q, r), Fitting(r, c),
         q.up = r.up
  PROVE  Fitting(q, c)
<1>1. r.up \in Seq(FitRequests(q)) /\ c.down \in Seq(FitMessages(q))
  BY FitFollows, SeqGrows DEF Fitting
<1>2. c.watched \in Maps(Nat, Versioned)
  BY DEF Conns
<1>3. ASSUME NEW t \in DOMAIN c.watched
      PROVE  t < q.next /\ Suits(q, t, c.watched[t].key)
  <2>1. t \in Nat
    BY <1>2, MapFacts
  <2>. QED
    BY <2>1, FitFollows DEF Fitting
<1>. QED
  BY <1>1, <1>3 DEF Fitting

\* A change of targets and listens that adds new ones and sends nothing.
LEMMA WiredFollows ==
  ASSUME NEW r \in Remotes, NEW q \in Remotes, NEW c \in Conns, Wired(r, c), Follows(q, r),
         q.up = r.up, q.open = r.open,
         q.open \/ (q.targets = r.targets /\ q.resets = r.resets),
         Known(q), Resolving(q),
         \A t \in DOMAIN q.listen : t < r.next => t \in DOMAIN r.listen
  PROVE  Wired(q, c)
<1>1. Closed(q, c)
  BY DEF Wired, Closed
<1>2. Fitting(q, c)
  BY FittingFollows DEF Wired
<1>3. r.up \in Seq(FitRequests(r)) /\ c.down \in Seq(FitMessages(r))
  BY DEF Wired, Fitting
<1>4. \A i \in DOMAIN r.up : r.up[i] \in FitRequests(r)
  BY <1>3
<1>5. \A i \in DOMAIN c.down : c.down[i] \in FitMessages(r)
  BY <1>3
<1>6. \A i \in DOMAIN r.up : r.up[i].id \in DOMAIN q.listen => r.up[i].id \in DOMAIN r.listen
  BY <1>4 DEF FitRequests
<1>7. ASSUME NEW i \in DOMAIN c.down, c.down[i].type = "rejected", c.down[i].id \in DOMAIN q.listen
      PROVE  c.down[i].id \in DOMAIN r.listen
  <2>1. c.down[i].id < r.next
    BY <1>5, <1>7 DEF FitMessages
  <2>. QED
    BY <1>7, <2>1
<1>8. LastWord(r, c)
  BY DEF Wired
<1>9. LastWord(q, c)
  <2>1. ASSUME NEW i \in DOMAIN r.up, NEW j \in DOMAIN r.up,
               r.up[i].op = "watch", r.up[i].id \in DOMAIN q.listen, j > i
        PROVE  r.up[j].id # r.up[i].id
    BY <1>6, <1>8, <2>1 DEF LastWord
  <2>2. ASSUME NEW i \in DOMAIN c.down, c.down[i].type = "rejected", c.down[i].id \in DOMAIN q.listen
        PROVE  /\ \A j \in DOMAIN r.up : r.up[j].id # c.down[i].id
               /\ \A j \in DOMAIN c.down : j > i => c.down[j] \notin Answers(c.down[i].id)
    BY <1>7, <1>8, <2>2 DEF LastWord
  <2>. QED
    BY <2>1, <2>2 DEF LastWord
<1>. QED
  BY <1>1, <1>2, <1>9 DEF Wired

\* What is awaited is counted.
LEMMA PendingFacts ==
  ASSUME NEW r \in Remotes, NEW c \in Conns, NEW t
  PROVE  /\ Count(r.up, Requested(t)) \in Nat /\ Count(c.down, Answers(t)) \in Nat
         /\ Pending(r, c, t) \in Nat
         /\ Pending(r, c, t) = 0 => /\ \A i \in DOMAIN r.up : r.up[i] \notin Requested(t)
                                    /\ \A i \in DOMAIN c.down : c.down[i] \notin Answers(t)
<1>1. r.up \in Seq(Requests) /\ c.down \in Seq(Messages)
  BY DEF Remotes, Conns
<1>2. PICK m, n : m = Count(r.up, Requested(t)) /\ n = Count(c.down, Answers(t))
  OBVIOUS
<1>3. m \in Nat /\ n \in Nat
  BY <1>1, <1>2, CountFacts
<1>4. Pending(r, c, t) = m + n
  BY <1>2 DEF Pending
<1>5. Pending(r, c, t) = 0 => m = 0 /\ n = 0
  BY <1>3, <1>4
<1>6. m = 0 => \A i \in DOMAIN r.up : r.up[i] \notin Requested(t)
  BY <1>1, <1>2, CountFacts
<1>7. n = 0 => \A i \in DOMAIN c.down : c.down[i] \notin Answers(t)
  BY <1>1, <1>2, CountFacts
<1>8. Pending(r, c, t) \in Nat
  BY <1>3, <1>4
<1>. QED
  BY <1>2, <1>3, <1>5, <1>6, <1>7, <1>8

\* Nothing on its way says that t is watched or refused, nothing is to be told of it.
Quiet(r, c, t) ==
    /\ \A i \in DOMAIN r.up : r.up[i].id = t => r.up[i].op # "watch"
    /\ \A i \in DOMAIN c.down : c.down[i].type = "rejected" => c.down[i].id # t
    /\ DOMAIN State(r, t).changes = {}
    /\ t \notin r.resets

\* The elements of a sequence with one more.
LEMMA AppendFacts ==
  ASSUME NEW S, NEW s \in Seq(S), NEW x \in S
  PROVE  /\ Append(s, x) \in Seq(S)
         /\ \A i \in DOMAIN Append(s, x) : \/ i \in DOMAIN s /\ Append(s, x)[i] = s[i]
                                           \/ i = Len(s) + 1 /\ Append(s, x)[i] = x
         /\ \A i \in DOMAIN s : i \in Nat /\ i < Len(s) + 1
OBVIOUS

\* A request that follows nothing that matters is sent.
LEMMA RequestSound ==
  ASSUME NEW c \in Conns, NEW synced, NEW r \in Good(c, synced), r.open,
         NEW op \in {"watch", "unwatch"}, NEW t \in Nat, t < r.next, NEW token \in Tokens,
         op = "watch" => t \in DOMAIN r.listen,
         t \in DOMAIN r.listen => Quiet(r, c, t)
  PROVE  Request(r, op, t, token) \in Good(c, synced)
<1>1. r \in Remotes /\ Sound(r, c, synced)
  BY DEF Good
<1>2. PICK q : q = Request(r, op, t, token)
  OBVIOUS
<1>17. q \in Remotes /\ Requesting(q, r, op, t, token)
  BY <1>1, <1>2, RequestFields
<1>3. /\ q \in Remotes /\ q.open = r.open /\ q.listen = r.listen /\ q.resets = r.resets
      /\ q.resolutions = r.resolutions /\ q.byKey = r.byKey /\ q.next = r.next /\ q.ok = r.ok
  BY <1>17 DEF Requesting
<1>4. PICK e \in Requests, st \in States :
         /\ e.op = op /\ e.id = t /\ e.token = token
         /\ op = "watch" => e.key = r.listen[t].key
         /\ st = [State(r, t) EXCEPT !.out = @ + 1]
         /\ q.targets = With(r.targets, t, st)
         /\ q.up = Append(r.up, e)
  BY <1>17, Zenon DEF Requesting
<1>5. r.targets \in Maps(Nat, States) /\ r.listen \in Maps(Nat, Listens) /\ r.next \in Nat
      /\ r.up \in Seq(Requests) /\ c.down \in Seq(Messages)
  BY <1>1 DEF Remotes, Conns
<1>6. /\ DOMAIN q.targets = DOMAIN r.targets \cup {t}
      /\ q.targets[t] = st
      /\ \A u \in DOMAIN r.targets : u # t => q.targets[u] = r.targets[u]
  <2>1. st \in States /\ r.targets \in Maps(Nat, States)
    BY <1>4, <1>5
  <2>2. Maplet(With(r.targets, t, st), r.targets, t, st)
    BY <2>1, WithFacts
  <2>3. Maplet(q.targets, r.targets, t, st)
    BY <1>4, <2>2, Zenon
  <2>. QED
    BY <2>3 DEF Maplet
<1>7. /\ st.out = State(r, t).out + 1 /\ st.changes = State(r, t).changes
      /\ State(r, t).out \in Nat
  BY <1>1, <1>4, StateTyped DEF States
<1>8. State(q, t) = st /\ \A u : u # t => State(q, u) = State(r, u)
  BY <1>6 DEF State
<1>9. Closed(q, c)
  BY <1>3 DEF Closed
<1>10. Known(q)
  BY <1>1, <1>3, <1>6 DEF Known, Sound, Wired
<1>11. Resolving(q)
  BY <1>1, <1>3 DEF Resolving, Sound, Wired
<1>12. Fitting(q, c)
  <2>1. Fitting(r, c) /\ Resolving(r)
    BY <1>1 DEF Sound, Wired
  <2>2. Follows(q, r)
    BY <1>3, <1>5 DEF Follows
  <2>3. FitRequests(r) \subseteq FitRequests(q) /\ FitMessages(r) \subseteq FitMessages(q)
    BY <1>1, <1>3, <2>2, FitFollows
  <2>4. e \in FitRequests(r)
    <3>1. op = "watch" => Suits(r, t, e.key)
      BY <1>4, <2>1 DEF Resolving, Suits
    <3>. QED
      BY <1>4, <3>1 DEF FitRequests
  <2>5. r.up \in Seq(FitRequests(r))
    BY <2>1 DEF Fitting
  <2>6. q.up \in Seq(FitRequests(r))
    BY <1>4, <2>4, <2>5, AppendFacts
  <2>7. q.up \in Seq(FitRequests(q)) /\ c.down \in Seq(FitMessages(q))
    BY <2>1, <2>3, <2>6, SeqGrows DEF Fitting
  <2>. QED
    BY <1>3, <2>1, <2>7 DEF Fitting, Suits
<1>13. LastWord(q, c)
  <2>1. LastWord(r, c)
    BY <1>1 DEF Sound, Wired
  <2>2. /\ \A i \in DOMAIN q.up : \/ i \in DOMAIN r.up /\ q.up[i] = r.up[i]
                                  \/ i = Len(r.up) + 1 /\ q.up[i] = e
        /\ \A i \in DOMAIN r.up : i \in Nat /\ i < Len(r.up) + 1
        /\ Len(r.up) \in Nat
    BY <1>4, <1>5, AppendFacts
  <2>3. ASSUME NEW i \in DOMAIN q.up, NEW j \in DOMAIN q.up,
               q.up[i].op = "watch", q.up[i].id \in DOMAIN q.listen, j > i
        PROVE  q.up[j].id # q.up[i].id
    <3>1. i \in DOMAIN r.up /\ q.up[i] = r.up[i]
      BY <2>2, <2>3
    <3>2. CASE j \in DOMAIN r.up /\ q.up[j] = r.up[j]
      BY <1>3, <2>1, <2>3, <3>1, <3>2 DEF LastWord
    <3>3. CASE q.up[j] = e
      BY <1>3, <1>4, <2>3, <3>1, <3>3 DEF Quiet
    <3>. QED
      BY <2>2, <3>2, <3>3
  <2>4. ASSUME NEW i \in DOMAIN c.down, c.down[i].type = "rejected", c.down[i].id \in DOMAIN q.listen
        PROVE  /\ \A j \in DOMAIN q.up : q.up[j].id # c.down[i].id
               /\ \A j \in DOMAIN c.down : j > i => c.down[j] \notin Answers(c.down[i].id)
    <3>1. \A j \in DOMAIN r.up : r.up[j].id # c.down[i].id
      BY <1>3, <2>1, <2>4 DEF LastWord
    <3>2. e.id # c.down[i].id
      BY <1>3, <1>4, <2>4 DEF Quiet
    <3>3. \A j \in DOMAIN q.up : q.up[j].id # c.down[i].id
      BY <2>2, <3>1, <3>2
    <3>. QED
      BY <1>3, <2>1, <2>4, <3>3 DEF LastWord
  <2>. QED
    BY <2>3, <2>4 DEF LastWord
<1>14. Owed(q, c)
  <2>1. ASSUME NEW u \in Nat
        PROVE  /\ Pending(q, c, u) <= State(q, u).out
               /\ u \in DOMAIN q.listen => State(q, u).out = Pending(q, c, u)
    <3>1. PICK p, o, m, n : p = Count(r.up, Requested(u)) /\ o = State(r, u).out
                            /\ m = Count(c.down, Answers(u)) /\ n = Count(q.up, Requested(u))
      OBVIOUS
    <3>2. p \in Nat /\ m \in Nat
      BY <1>1, <3>1, PendingFacts
    <3>3. o \in Nat
      BY <1>1, <3>1, StateTyped DEF States
    <3>4. p + m <= o /\ (u \in DOMAIN r.listen => o = p + m)
      BY <1>1, <3>1 DEF Sound, Owed, Pending
    <3>5. CASE u = t
      <4>1. n = p + 1
        <5>1. e \in Requested(u)
          BY <1>4, <3>5 DEF Requested
        <5>. QED
          BY <1>4, <1>5, <3>1, <5>1, CountAppend
      <4>2. State(q, u).out = o + 1
        BY <1>7, <1>8, <3>1, <3>5
      <4>3. n + m <= o + 1 /\ (o = p + m => o + 1 = n + m)
        BY <3>2, <3>3, <3>4, <4>1
      <4>. QED
        BY <1>3, <3>1, <3>4, <4>2, <4>3 DEF Pending
    <3>6. CASE u # t
      <4>1. n = p
        <5>1. e \notin Requested(u)
          BY <1>4, <3>6 DEF Requested
        <5>2. n = p + 0
          BY <1>4, <1>5, <3>1, <5>1, CountAppend
        <5>. QED
          BY <3>2, <5>2
      <4>2. State(q, u) = State(r, u)
        BY <1>8, <3>6
      <4>. QED
        BY <1>3, <3>1, <3>4, <4>1, <4>2 DEF Pending
    <3>. QED
      BY <3>5, <3>6
  <2>. QED
    BY <2>1 DEF Owed
<1>15. Marks(q, synced)
  <2>1. ASSUME NEW u \in DOMAIN q.targets \cap DOMAIN q.listen
        PROVE  Justified(q, u, q.targets[u], synced)
    <3>1. CASE u = t
      BY <1>3, <1>6, <1>7, <2>1, <3>1 DEF Justified, Quiet
    <3>2. CASE u # t
      <4>1. Justified(r, u, r.targets[u], synced)
        BY <1>1, <1>3, <1>6, <2>1, <3>2 DEF Sound, Marks
      <4>. QED
        BY <1>3, <1>6, <2>1, <3>2, <4>1 DEF Justified, KnownTo
    <3>. QED
      BY <3>1, <3>2
  <2>. QED
    BY <2>1 DEF Marks
<1>16. Idle(q)
  <2>1. Query = t => ~(Query \in r.resets \cap DOMAIN r.listen)
    BY DEF Quiet
  <2>. QED
    BY <1>1, <1>3, <1>8, <2>1 DEF Idle, Sound
<1>. QED
  BY <1>1, <1>2, <1>3, <1>9, <1>10, <1>11, <1>12, <1>13, <1>14, <1>15, <1>16
     DEF Sound, Wired, Good

\* An id that has not been given out is about nothing.
LEMMA FreshId ==
  ASSUME NEW c \in Conns, NEW synced, NEW r \in Good(c, synced), NEW t \in Nat, r.next <= t
  PROVE  /\ t \notin DOMAIN r.listen /\ t \notin DOMAIN r.targets /\ t \notin DOMAIN r.resolutions
         /\ State(r, t) = Blank /\ Pending(r, c, t) = 0 /\ Quiet(r, c, t)
<1>1. r \in Remotes /\ Known(r) /\ Resolving(r) /\ Fitting(r, c) /\ Owed(r, c) /\ Idle(r)
  BY DEF Good, Sound, Wired
<1>2. r.next \in Nat
  BY <1>1 DEF Remotes
<1>3. t \notin DOMAIN r.listen /\ t \notin DOMAIN r.targets
  BY <1>1, <1>2 DEF Known
<1>4. t \notin DOMAIN r.resolutions
  BY <1>1, <1>3 DEF Resolving
<1>5. State(r, t) = Blank
  BY <1>3 DEF State
<1>6. Pending(r, c, t) = 0
  <2>1. Pending(r, c, t) \in Nat /\ Pending(r, c, t) <= Blank.out
    BY <1>1, <1>5, PendingFacts DEF Owed
  <2>. QED
    BY <2>1, BlankState
<1>7. Quiet(r, c, t)
  <2>1. r.up \in Seq(FitRequests(r)) /\ c.down \in Seq(FitMessages(r))
    BY <1>1 DEF Fitting
  <2>2. \A i \in DOMAIN r.up : r.up[i] \in FitRequests(r)
    BY <2>1
  <2>3. \A i \in DOMAIN r.up : r.up[i].id # t
    BY <1>2, <2>2 DEF FitRequests
  <2>4. \A i \in DOMAIN c.down : c.down[i] \in FitMessages(r)
    BY <2>1
  <2>5. \A i \in DOMAIN c.down : c.down[i].type = "rejected" => c.down[i].id # t
    BY <1>2, <2>4 DEF FitMessages
  <2>6. t \notin r.resets
    BY <1>1, <1>2 DEF Idle, Query, Known
  <2>. QED
    BY <1>5, <2>3, <2>5, <2>6, BlankState DEF Quiet
<1>. QED
  BY <1>3, <1>4, <1>5, <1>6, <1>7

\* Listens and resolutions change, the aggregator and what is under way do not.
LEMMA ListensChange ==
  ASSUME NEW c \in Conns, NEW synced, NEW r \in Good(c, synced), NEW q \in Remotes,
         q.ok, q.open = r.open, q.targets = r.targets, q.up = r.up, q.resets = r.resets,
         Follows(q, r), Known(q), Resolving(q),
         \A t \in DOMAIN q.listen : t < r.next =>
             /\ t \in DOMAIN r.listen /\ q.listen[t].key = r.listen[t].key
             /\ KnownTo(q, t, synced) = KnownTo(r, t, synced)
  PROVE  q \in Good(c, synced)
<1>1. r \in Remotes /\ Wired(r, c) /\ Owed(r, c) /\ Marks(r, synced) /\ Idle(r) /\ Known(r)
  BY DEF Good, Sound, Wired
<1>2. r.next \in Nat /\ q.listen \in Maps(Nat, Listens) /\ r.targets \in Maps(Nat, States)
  BY <1>1 DEF Remotes
<1>3. Wired(q, c)
  BY <1>1, WiredFollows
<1>4. \A t : State(q, t) = State(r, t) /\ Pending(q, c, t) = Pending(r, c, t)
  BY DEF State, Pending
<1>5. ASSUME NEW t \in DOMAIN q.listen
      PROVE  State(r, t).out = Pending(r, c, t)
  <2>1. t \in Nat
    BY <1>2, MapFacts
  <2>2. CASE t < r.next
    BY <1>1, <2>1, <2>2 DEF Owed
  <2>3. CASE r.next <= t
    BY <2>1, <2>3, FreshId, BlankState
  <2>. QED
    BY <1>2, <2>1, <2>2, <2>3
<1>6. Owed(q, c)
  BY <1>1, <1>4, <1>5 DEF Owed
<1>7. Marks(q, synced)
  <2>1. ASSUME NEW t \in DOMAIN q.targets \cap DOMAIN q.listen
        PROVE  Justified(q, t, q.targets[t], synced)
    <3>1. t < r.next
      BY <1>1, <2>1 DEF Known
    <3>2. t \in DOMAIN r.listen /\ q.listen[t].key = r.listen[t].key
          /\ KnownTo(q, t, synced) = KnownTo(r, t, synced)
      BY <2>1, <3>1
    <3>3. Justified(r, t, r.targets[t], synced)
      BY <1>1, <2>1, <3>2 DEF Marks
    <3>. QED
      BY <3>2, <3>3 DEF Justified
  <2>. QED
    BY <2>1 DEF Marks
<1>8. Idle(q)
  <2>1. Query < r.next
    BY <1>1 DEF Known, Query
  <2>. QED
    BY <1>1, <1>4, <2>1 DEF Idle
<1>. QED
  BY <1>3, <1>6, <1>7, <1>8 DEF Good, Sound

\* One round of the pump starts at most one resolution, on a target id nobody has.
LEMMA PumpOneSound ==
  ASSUME NEW c \in Conns, NEW synced, NEW r \in Good(c, synced)
  PROVE  PumpOne(r) \in Good(c, synced)
<1>1. CASE r.enqueued = <<>> \/ Cardinality(DOMAIN r.byKey) >= MaxLimbo
  BY <1>1 DEF PumpOne
<1>2. CASE ~(r.enqueued = <<>> \/ Cardinality(DOMAIN r.byKey) >= MaxLimbo)
  <2>1. r \in Remotes /\ r.ok /\ Wired(r, c) /\ Known(r) /\ Resolving(r)
    BY DEF Good, Sound, Wired
  <2>2. PICK d, t : d = Head(r.enqueued) /\ t = r.next
    OBVIOUS
  <2>3. /\ r.enqueued \in Seq(Docs) /\ t \in Nat /\ r.resolutions \in Maps(Nat, Resolutions)
        /\ r.byKey \in Maps(Docs, Nat) /\ r.listen \in Maps(Nat, Listens)
    BY <2>1, <2>2 DEF Remotes
  <2>4. d \in Docs /\ Tail(r.enqueued) \in Seq(Docs)
    BY <1>2, <2>2, <2>3
  <2>5. PICK v, l : v = [key |-> d, received |-> FALSE] /\ l = [key |-> d, token |-> 0]
    OBVIOUS
  <2>6. v \in Resolutions /\ l \in Listens /\ v.key = d /\ l.key = d /\ l.token = 0
    <3>1. MaxNow \in Nat
      BY TargetsAssumption
    <3>. QED
      BY <2>4, <2>5, <3>1 DEF Resolutions, Listens, Keys, Tokens
  <2>7. PICK rs, bk, ls, en :
           /\ rs = With(r.resolutions, t, v)
           /\ bk = IF d \in DOMAIN r.byKey THEN r.byKey ELSE With(r.byKey, d, t)
           /\ ls = With(r.listen, t, l)
           /\ en = Tail(r.enqueued)
    OBVIOUS
  <2>8. rs \in Maps(Nat, Resolutions) /\ Maplet(rs, r.resolutions, t, v)
    BY <2>3, <2>6, <2>7, WithFacts
  <2>9. ls \in Maps(Nat, Listens) /\ Maplet(ls, r.listen, t, l)
    BY <2>3, <2>6, <2>7, WithFacts
  <2>10. bk \in Maps(Docs, Nat) /\ (bk = r.byKey \/ Maplet(bk, r.byKey, d, t))
    <3>1. With(r.byKey, d, t) \in Maps(Docs, Nat) /\ Maplet(With(r.byKey, d, t), r.byKey, d, t)
      BY <2>3, <2>4, WithFacts
    <3>. QED
      BY <2>3, <2>7, <3>1
  <2>11. PICK p : p = [r EXCEPT !.enqueued = en, !.next = t + 1, !.resolutions = rs, !.byKey = bk]
    OBVIOUS
  <2>12. PICK q : q = [p EXCEPT !.listen = ls]
    OBVIOUS
  <2>13. PumpOne(r) = IF q.open THEN SendWatchRequest(q, t) ELSE q
    <3>1. PumpOne(r) = Listen(p, t, d)
      BY <1>2, <2>2, <2>5, <2>7, <2>11 DEF PumpOne
    <3>2. p.listen = r.listen /\ p.open = q.open
      BY <2>1, <2>11, <2>12 DEF Remotes
    <3>3. Listen(p, t, d) = IF q.open THEN SendWatchRequest(q, t) ELSE q
      BY <2>5, <2>7, <2>12, <3>2 DEF Listen
    <3>. QED
      BY <3>1, <3>3
  <2>14. /\ q \in Remotes /\ q.ok /\ q.open = r.open /\ q.targets = r.targets /\ q.up = r.up
         /\ q.resets = r.resets /\ q.listen = ls /\ q.resolutions = rs /\ q.byKey = bk
         /\ q.next = t + 1
    <3>1. en \in Seq(Docs) /\ t + 1 \in Nat
      BY <2>3, <2>4, <2>7
    <3>. QED
      BY <2>1, <2>8, <2>9, <2>10, <2>11, <2>12, <3>1 DEF Remotes
  <2>15. t \notin DOMAIN r.listen /\ t \notin DOMAIN r.resolutions /\ Quiet(r, c, t)
         /\ t \notin DOMAIN r.targets
    BY <2>2, <2>3, FreshId
  <2>16. Follows(q, r)
    BY <2>2, <2>3, <2>8, <2>14 DEF Follows, Maplet
  <2>17. Known(q)
    BY <2>1, <2>2, <2>3, <2>9, <2>14, MapFacts DEF Known, Maplet, Remotes
  <2>18. Resolving(q)
    <3>1. DOMAIN rs = DOMAIN ls \ {Query}
      <4>1. t # Query
        BY <2>1, <2>2 DEF Known, Query
      <4>. QED
        BY <2>1, <2>8, <2>9, <4>1 DEF Maplet, Resolving
    <3>2. \A u \in DOMAIN rs : ls[u].key = rs[u].key
      BY <2>1, <2>6, <2>8, <2>9, <2>15 DEF Maplet, Resolving
    <3>3. \A e \in DOMAIN bk : bk[e] \in DOMAIN rs /\ rs[bk[e]].key = e
      <4>1. \A e \in DOMAIN r.byKey : r.byKey[e] \in DOMAIN rs /\ rs[r.byKey[e]].key = e
        BY <2>1, <2>8, <2>15 DEF Maplet, Resolving
      <4>2. t \in DOMAIN rs /\ rs[t].key = d
        BY <2>6, <2>8 DEF Maplet
      <4>. QED
        BY <2>10, <4>1, <4>2 DEF Maplet
    <3>. QED
      BY <2>14, <3>1, <3>2, <3>3 DEF Resolving
  <2>19. ASSUME NEW u \in DOMAIN q.listen, u < r.next
         PROVE  /\ u \in DOMAIN r.listen /\ q.listen[u].key = r.listen[u].key
                /\ KnownTo(q, u, synced) = KnownTo(r, u, synced)
    <3>1. u # t
      BY <2>2, <2>3, <2>19
    <3>2. u \in DOMAIN r.listen /\ ls[u] = r.listen[u]
      BY <2>9, <2>14, <2>19, <3>1 DEF Maplet
    <3>3. KnownTo(q, u, synced) = KnownTo(r, u, synced)
      BY <2>8, <2>14, <3>1 DEF KnownTo, Maplet
    <3>. QED
      BY <2>14, <3>2, <3>3
  <2>20. q \in Good(c, synced)
    BY <2>14, <2>16, <2>17, <2>18, <2>19, ListensChange
  <2>21. ASSUME q.open
         PROVE  SendWatchRequest(q, t) \in Good(c, synced)
    <3>1. Quiet(q, c, t)
      BY <2>14, <2>15 DEF Quiet, State
    <3>2. t \in DOMAIN q.listen /\ q.listen[t].token = 0 /\ t < q.next /\ 0 \in Tokens
      BY <2>3, <2>6, <2>9, <2>14 DEF Maplet, Listens
    <3>3. Request(q, "watch", t, 0) \in Good(c, synced)
      BY <2>3, <2>20, <2>21, <3>1, <3>2, RequestSound
    <3>. QED
      BY <3>2, <3>3 DEF SendWatchRequest
  <2>. QED
    BY <2>13, <2>20, <2>21
<1>. QED
  BY <1>1, <1>2

\* PumpEnqueuedLimboResolutions, for any length of the queue.
LEMMA PumpSound ==
  ASSUME NEW c \in Conns, NEW synced, NEW r \in Good(c, synced)
  PROVE  PumpEnqueuedLimboResolutions(r) \in Good(c, synced)
<1>1. r.enqueued \in Seq(Docs)
  BY DEF Good, Remotes
<1>2. \A q \in Good(c, synced) : PumpOne(q) \in Good(c, synced)
  BY PumpOneSound
<1>. QED
  BY <1>1, <1>2, PumpFold

\* A document enters limbo.
LEMMA TrackSound ==
  ASSUME NEW c \in Conns, NEW synced, NEW r \in Good(c, synced), NEW d \in Docs
  PROVE  TrackLimboChange(d, r) \in Good(c, synced)
<1>1. CASE d \in DOMAIN r.byKey
  BY <1>1 DEF TrackLimboChange
<1>2. CASE d \notin DOMAIN r.byKey
  <2>1. r \in Remotes /\ r.ok /\ Wired(r, c) /\ Known(r) /\ Resolving(r)
    BY DEF Good, Sound, Wired
  <2>2. PICK en : en = Append(r.enqueued, d)
    OBVIOUS
  <2>3. en \in Seq(Docs)
    <3>1. r.enqueued \in Seq(Docs)
      BY <2>1 DEF Remotes
    <3>. QED
      BY <2>2, <3>1, AppendFacts
  <2>4. PICK q : q = [r EXCEPT !.enqueued = en]
    OBVIOUS
  <2>5. /\ q \in Remotes /\ q.ok /\ q.open = r.open /\ q.targets = r.targets /\ q.up = r.up
        /\ q.resets = r.resets /\ q.listen = r.listen /\ q.resolutions = r.resolutions
        /\ q.byKey = r.byKey /\ q.next = r.next /\ r.next \in Nat
    BY <2>1, <2>3, <2>4 DEF Remotes
  <2>6. Follows(q, r) /\ Known(q) /\ Resolving(q)
    BY <2>1, <2>5 DEF Follows, Known, Resolving
  <2>7. \A t : KnownTo(q, t, synced) = KnownTo(r, t, synced)
    BY <2>5 DEF KnownTo
  <2>8. q \in Good(c, synced)
    BY <2>5, <2>6, <2>7, ListensChange
  <2>9. TrackLimboChange(d, r) = PumpEnqueuedLimboResolutions(q)
    BY <1>2, <2>2, <2>4 DEF TrackLimboChange
  <2>. QED
    BY <2>8, <2>9, PumpSound
<1>. QED
  BY <1>1, <1>2

\* r without the resolution of d, and without its listen.
Dropped(r, d) ==
    [r EXCEPT !.listen = Without(@, r.byKey[d]), !.byKey = Without(@, d),
              !.resolutions = Without(@, r.byKey[d])]

\* The listen of a resolution is stopped and the resolution forgotten.
LEMMA DropSound ==
  ASSUME NEW c \in Conns, NEW synced, NEW r \in Good(c, synced), NEW d \in DOMAIN r.byKey
  PROVE  /\ Dropped(r, d) \in Good(c, synced)
         /\ r.byKey[d] \in Nat /\ r.byKey[d] < Dropped(r, d).next
         /\ r.byKey[d] \in DOMAIN r.listen /\ r.byKey[d] \notin DOMAIN Dropped(r, d).listen
<1>1. r \in Remotes /\ r.ok /\ Wired(r, c) /\ Known(r) /\ Resolving(r)
  BY DEF Good, Sound, Wired
<1>2. PICK t : t = r.byKey[d]
  OBVIOUS
<1>3. /\ r.resolutions \in Maps(Nat, Resolutions) /\ r.byKey \in Maps(Docs, Nat)
      /\ r.listen \in Maps(Nat, Listens) /\ r.next \in Nat
  BY <1>1 DEF Remotes
<1>4. t \in Nat /\ t \in DOMAIN r.resolutions /\ r.resolutions[t].key = d
      /\ t \in DOMAIN r.listen /\ t # Query /\ t < r.next
  BY <1>1, <1>2, <1>3, MapFacts DEF Resolving, Known
<1>5. PICK rs, bk, ls : rs = Without(r.resolutions, t) /\ bk = Without(r.byKey, d)
                        /\ ls = Without(r.listen, t)
  OBVIOUS
<1>6. rs \in Maps(Nat, Resolutions) /\ Dropping(rs, r.resolutions, t)
  BY <1>3, <1>5, WithoutFacts
<1>7. bk \in Maps(Docs, Nat) /\ Dropping(bk, r.byKey, d)
  BY <1>3, <1>5, WithoutFacts
<1>8. ls \in Maps(Nat, Listens) /\ Dropping(ls, r.listen, t)
  BY <1>3, <1>5, WithoutFacts
<1>17. PICK q : q = Dropped(r, d)
  OBVIOUS
<1>9. q = [r EXCEPT !.listen = ls, !.byKey = bk, !.resolutions = rs]
  BY <1>2, <1>5, <1>17 DEF Dropped
<1>10. /\ q \in Remotes /\ q.ok /\ q.open = r.open /\ q.targets = r.targets /\ q.up = r.up
       /\ q.resets = r.resets /\ q.listen = ls /\ q.resolutions = rs /\ q.byKey = bk
       /\ q.next = r.next
  BY <1>1, <1>6, <1>7, <1>8, <1>9 DEF Remotes
<1>11. Follows(q, r)
  BY <1>3, <1>6, <1>10 DEF Follows, Dropping
<1>12. Known(q)
  BY <1>1, <1>8, <1>10 DEF Known, Dropping
<1>13. Resolving(q)
  <2>1. DOMAIN rs = DOMAIN ls \ {Query}
    BY <1>1, <1>6, <1>8 DEF Dropping, Resolving
  <2>2. \A u \in DOMAIN rs : ls[u].key = rs[u].key
    BY <1>1, <1>6, <1>8 DEF Dropping, Resolving
  <2>3. ASSUME NEW e \in DOMAIN bk
        PROVE  bk[e] \in DOMAIN rs /\ rs[bk[e]].key = e
    <3>1. e \in DOMAIN r.byKey /\ e # d /\ bk[e] = r.byKey[e]
      BY <1>7, <2>3 DEF Dropping
    <3>2. r.byKey[e] \in DOMAIN r.resolutions /\ r.resolutions[r.byKey[e]].key = e
      BY <1>1, <3>1 DEF Resolving
    <3>3. r.byKey[e] # t
      BY <1>4, <3>1, <3>2
    <3>. QED
      BY <1>6, <3>1, <3>2, <3>3 DEF Dropping
  <2>. QED
    <3>1. q.resolutions = rs /\ q.listen = ls /\ q.byKey = bk
      BY <1>10
    <3>. QED
      BY <2>1, <2>2, <2>3, <3>1 DEF Resolving
<1>14. ASSUME NEW u \in DOMAIN q.listen, u < r.next
       PROVE  /\ u \in DOMAIN r.listen /\ q.listen[u].key = r.listen[u].key
              /\ KnownTo(q, u, synced) = KnownTo(r, u, synced)
  <2>1. u \in DOMAIN r.listen /\ u # t /\ ls[u] = r.listen[u]
    BY <1>8, <1>10, <1>14 DEF Dropping
  <2>2. KnownTo(q, u, synced) = KnownTo(r, u, synced)
    BY <1>6, <1>10, <2>1 DEF KnownTo, Dropping
  <2>. QED
    BY <1>10, <2>1, <2>2
<1>15. q \in Good(c, synced)
  BY <1>10, <1>11, <1>12, <1>13, <1>14, ListensChange
<1>16. t \notin DOMAIN q.listen
  BY <1>8, <1>10 DEF Dropping
<1>. QED
  BY <1>2, <1>4, <1>10, <1>15, <1>16, <1>17

\* A document leaves limbo.
LEMMA RemoveSound ==
  ASSUME NEW c \in Conns, NEW synced, NEW r \in Good(c, synced), NEW d \in Docs
  PROVE  RemoveLimboTarget(d, r) \in Good(c, synced)
<1>1. CASE d \notin DOMAIN r.byKey
  BY <1>1 DEF RemoveLimboTarget
<1>2. CASE d \in DOMAIN r.byKey
  <2>1. r \in Remotes /\ r.ok
    BY DEF Good, Sound
  <2>2. PICK t, rs, bk, ls : t = r.byKey[d] /\ rs = Without(r.resolutions, t)
                             /\ bk = Without(r.byKey, d) /\ ls = Without(r.listen, t)
    OBVIOUS
  <2>3. PICK q : q = [r EXCEPT !.listen = ls, !.byKey = bk, !.resolutions = rs]
    OBVIOUS
  <2>4. q \in Good(c, synced) /\ t \in Nat /\ t < q.next /\ t \in DOMAIN r.listen /\ t \notin DOMAIN q.listen
    <3>1. q = Dropped(r, d)
      BY <2>2, <2>3 DEF Dropped
    <3>. QED
      BY <1>2, <2>2, <3>1, DropSound
  <2>5. PICK s : s = [r EXCEPT !.listen = ls, !.ok = @ /\ t \in DOMAIN r.listen]
    OBVIOUS
  <2>6. s = [r EXCEPT !.listen = ls]
    BY <2>1, <2>4, <2>5 DEF Remotes
  <2>7. s.open = r.open /\ q.open = r.open
    BY <2>1, <2>3, <2>6 DEF Remotes
  <2>8. StopListening(r, t) = IF r.open THEN SendUnwatchRequest(s, t) ELSE s
    BY <2>2, <2>5, <2>7 DEF StopListening
  <2>9. RemoveLimboTarget(d, r) =
          PumpEnqueuedLimboResolutions([StopListening(r, t) EXCEPT !.byKey = Without(@, d),
                                                                   !.resolutions = Without(@, t)])
    BY <1>2, <2>2 DEF RemoveLimboTarget
  <2>10. CASE ~r.open
    <3>1. [s EXCEPT !.byKey = Without(@, d), !.resolutions = Without(@, t)] = q
      BY <2>1, <2>2, <2>3, <2>6 DEF Remotes
    <3>. QED
      BY <2>4, <2>8, <2>9, <2>10, <3>1, PumpSound
  <2>11. CASE r.open
    <3>1. PICK ts, u : /\ ts = With(r.targets, t, [State(r, t) EXCEPT !.out = @ + 1])
                       /\ u = Append(r.up, [op |-> "unwatch", id |-> t, token |-> 0, key |-> All])
      OBVIOUS
    <3>2. SendUnwatchRequest(s, t) = [s EXCEPT !.targets = ts, !.up = u]
      <4>1. s.targets = r.targets /\ s.up = r.up
        BY <2>1, <2>6 DEF Remotes
      <4>. QED
        BY <3>1, <4>1 DEF SendUnwatchRequest, Request, State
    <3>3. Request(q, "unwatch", t, 0) = [q EXCEPT !.targets = ts, !.up = u]
      <4>1. q.targets = r.targets /\ q.up = r.up
        BY <2>1, <2>3 DEF Remotes
      <4>. QED
        BY <3>1, <4>1 DEF Request, State
    <3>4. [[s EXCEPT !.targets = ts, !.up = u] EXCEPT !.byKey = Without(@, d), !.resolutions = Without(@, t)]
            = [q EXCEPT !.targets = ts, !.up = u]
      BY <2>1, <2>2, <2>3, <2>6 DEF Remotes
    <3>5. Request(q, "unwatch", t, 0) \in Good(c, synced)
      <4>1. 0 \in Tokens
        BY TargetsAssumption DEF Tokens
      <4>. QED
        BY <2>4, <2>7, <2>11, <4>1, RequestSound
    <3>. QED
      BY <2>8, <2>9, <2>11, <3>2, <3>3, <3>4, <3>5, PumpSound
  <2>. QED
    BY <2>10, <2>11
<1>. QED
  BY <1>1, <1>2

\* UpdateTrackedLimboDocuments keeps the client in order.
LEMMA UpdateTrackedSound ==
  ASSUME NEW c \in Conns, NEW synced, NEW r \in Good(c, synced),
         NEW removed \in SUBSET Docs, NEW added \in SUBSET Docs
  PROVE  UpdateTrackedLimboDocuments(r, removed, added) \in Good(c, synced)
<1>1. IsFiniteSet(removed) /\ IsFiniteSet(added)
  BY TargetsAssumption, FS_Subset
<1>2. \A d \in removed : \A q \in Good(c, synced) : RemoveLimboTarget(d, q) \in Good(c, synced)
  BY RemoveSound
<1>3. PICK q : q = FoldSet(RemoveLimboTarget, r, removed)
  OBVIOUS
<1>4. q \in Good(c, synced)
  BY <1>1, <1>2, <1>3, RemoveFold
<1>5. \A d \in added : \A p \in Good(c, synced) : TrackLimboChange(d, p) \in Good(c, synced)
  BY TrackSound
<1>6. FoldSet(TrackLimboChange, q, added) \in Good(c, synced)
  BY <1>1, <1>4, <1>5, TrackFold
<1>. QED
  BY <1>3, <1>6 DEF UpdateTrackedLimboDocuments

-----------------------------------------------------------------------------
(* A message arrives                                                       *)

\* The stream when its first message has been taken.
Delivered(c) == [c EXCEPT !.down = Tail(@)]

\* The elements of a sequence without its first.
LEMMA TailFacts ==
  ASSUME NEW S, NEW s \in Seq(S), s # <<>>
  PROVE  /\ Head(s) \in S /\ Tail(s) \in Seq(S)
         /\ Head(s) = s[1] /\ 1 \in DOMAIN s
         /\ \A i \in DOMAIN Tail(s) : /\ i \in Nat /\ i + 1 \in DOMAIN s /\ i + 1 > 1
                                      /\ Tail(s)[i] = s[i + 1]
OBVIOUS

\* A message is taken from the stream.
LEMMA DeliveredWired ==
  ASSUME NEW c \in Conns, NEW r \in Remotes, Wired(r, c), c.down # <<>>
  PROVE  /\ Delivered(c) \in Conns /\ Wired(r, Delivered(c)) /\ r.open
         /\ Head(c.down) \in FitMessages(r) /\ Head(c.down) \in Messages
         /\ \A t : Pending(r, c, t) = Pending(r, Delivered(c), t)
                                        + (IF Head(c.down) \in Answers(t) THEN 1 ELSE 0)
<1>1. PICK b : b = Delivered(c)
  OBVIOUS
<1>2. c.down \in Seq(Messages) /\ c.down \in Seq(FitMessages(r))
  BY DEF Conns, Wired, Fitting
<1>3. Head(c.down) \in FitMessages(r) /\ Tail(c.down) \in Seq(FitMessages(r))
  BY <1>2, TailFacts
<1>4. Head(c.down) \in Messages /\ Tail(c.down) \in Seq(Messages)
  BY <1>2, TailFacts
<1>5. b \in Conns /\ b.down = Tail(c.down) /\ b.watched = c.watched
  BY <1>1, <1>4 DEF Delivered, Conns
<1>6. r.open
  BY DEF Wired, Closed
<1>7. Fitting(r, b)
  BY <1>3, <1>5 DEF Wired, Fitting
<1>8. LastWord(r, b)
  <2>1. \A i \in DOMAIN b.down : i \in Nat /\ i + 1 \in DOMAIN c.down /\ b.down[i] = c.down[i + 1]
    BY <1>2, <1>5, TailFacts
  <2>2. LastWord(r, c)
    BY DEF Wired
  <2>3. ASSUME NEW i \in DOMAIN b.down, b.down[i].type = "rejected", b.down[i].id \in DOMAIN r.listen
        PROVE  /\ \A j \in DOMAIN r.up : r.up[j].id # b.down[i].id
               /\ \A j \in DOMAIN b.down : j > i => b.down[j] \notin Answers(b.down[i].id)
    <3>1. PICK k \in DOMAIN c.down : k = i + 1 /\ b.down[i] = c.down[k]
      BY <2>1
    <3>2. /\ \A j \in DOMAIN r.up : r.up[j].id # b.down[i].id
          /\ \A j \in DOMAIN c.down : j > k => c.down[j] \notin Answers(b.down[i].id)
      BY <2>2, <2>3, <3>1 DEF LastWord
    <3>3. ASSUME NEW j \in DOMAIN b.down, j > i
          PROVE  b.down[j] \notin Answers(b.down[i].id)
      <4>1. j + 1 \in DOMAIN c.down /\ j + 1 > k /\ b.down[j] = c.down[j + 1]
        BY <2>1, <3>1, <3>3
      <4>. QED
        BY <3>2, <4>1
    <3>. QED
      BY <3>2, <3>3
  <2>. QED
    BY <2>2, <2>3 DEF LastWord
<1>9. Wired(r, b)
  BY <1>6, <1>7, <1>8 DEF Wired, Closed
<1>10. ASSUME NEW t
       PROVE  Pending(r, c, t) = Pending(r, b, t) + (IF Head(c.down) \in Answers(t) THEN 1 ELSE 0)
  <2>1. PICK u, m, n : u = Count(r.up, Requested(t)) /\ m = Count(c.down, Answers(t))
                       /\ n = Count(b.down, Answers(t))
    OBVIOUS
  <2>2. u \in Nat /\ m \in Nat /\ n \in Nat
    BY <1>5, <2>1, PendingFacts
  <2>3. m = n + (IF Head(c.down) \in Answers(t) THEN 1 ELSE 0)
    BY <1>2, <1>5, <2>1, CountTail
  <2>4. u + m = (u + n) + (IF Head(c.down) \in Answers(t) THEN 1 ELSE 0)
    BY <2>2, <2>3
  <2>. QED
    BY <2>1, <2>4 DEF Pending
<1>. QED
  BY <1>1, <1>3, <1>4, <1>5, <1>6, <1>9, <1>10

\* A message that answers nothing leaves the client in order.
LEMMA DeliveredSound ==
  ASSUME NEW c \in Conns, NEW synced, NEW r \in Good(c, synced), c.down # <<>>,
         \A t \in Nat : Head(c.down) \notin Answers(t)
  PROVE  r \in Good(Delivered(c), synced)
<1>1. r \in Remotes /\ Wired(r, c) /\ Owed(r, c)
  BY DEF Good, Sound
<1>2. Delivered(c) \in Conns /\ Wired(r, Delivered(c))
  BY <1>1, DeliveredWired
<1>3. ASSUME NEW t \in Nat
      PROVE  Pending(r, Delivered(c), t) = Pending(r, c, t)
  <2>1. PICK m, n : m = Pending(r, c, t) /\ n = Pending(r, Delivered(c), t)
    OBVIOUS
  <2>2. m \in Nat /\ n \in Nat /\ m = n + 0
    BY <1>1, <1>2, <2>1, DeliveredWired, PendingFacts
  <2>. QED
    BY <2>1, <2>2
<1>4. Owed(r, Delivered(c))
  BY <1>1, <1>3 DEF Owed
<1>. QED
  BY <1>2, <1>4 DEF Good, Sound

SameListens(q, r) ==
    /\ q.open = r.open /\ q.listen = r.listen /\ q.up = r.up
    /\ q.resolutions = r.resolutions /\ q.byKey = r.byKey /\ q.next = r.next

\* The aggregator changes, the listens and what is under way do not.
LEMMA AggregatorChange ==
  ASSUME NEW c \in Conns, NEW synced, NEW r \in Remotes, Wired(r, c), NEW q \in Remotes,
         r.open, q.ok, SameListens(q, r),
         DOMAIN q.targets \subseteq DOMAIN r.targets \cup DOMAIN r.listen,
         Owed(q, c), Marks(q, synced), Idle(q)
  PROVE  q \in Good(c, synced)
<1>1. r.next \in Nat
  BY DEF Remotes
<1>2. Follows(q, r)
  BY <1>1 DEF Follows, SameListens
<1>3. Known(q) /\ Resolving(q)
  BY DEF Wired, Known, Resolving, SameListens
<1>4. Wired(q, c)
  BY <1>2, <1>3, WiredFollows DEF SameListens
<1>. QED
  BY <1>4 DEF Good, Sound

\* q is r with the state st for the target t.
TargetSet(q, r, t, st) ==
    /\ SameListens(q, r) /\ q.ok = r.ok /\ q.resets = r.resets
    /\ DOMAIN q.targets = DOMAIN r.targets \cup {t}
    /\ State(q, t) = st /\ \A u : u # t => State(q, u) = State(r, u)
    /\ \A u \in DOMAIN q.targets : q.targets[u] = State(q, u)

\* SetTarget writes the state of one target.
LEMMA SetTargetFields ==
  ASSUME NEW r \in Remotes, NEW t \in Nat, NEW st \in States
  PROVE  SetTarget(r, t, st) \in Remotes /\ TargetSet(SetTarget(r, t, st), r, t, st)
<1>1. PICK ts, q : ts = With(r.targets, t, st) /\ q = SetTarget(r, t, st)
  OBVIOUS
<1>2. r.targets \in Maps(Nat, States)
  BY DEF Remotes
<1>3. ts \in Maps(Nat, States) /\ Maplet(ts, r.targets, t, st)
  BY <1>1, <1>2, WithFacts
<1>4. q = [r EXCEPT !.targets = ts]
  BY <1>1 DEF SetTarget
<1>5. q \in Remotes /\ SameListens(q, r) /\ q.ok = r.ok /\ q.resets = r.resets /\ q.targets = ts
  BY <1>3, <1>4 DEF Remotes, SameListens
<1>6. /\ DOMAIN q.targets = DOMAIN r.targets \cup {t}
      /\ State(q, t) = st /\ \A u : u # t => State(q, u) = State(r, u)
      /\ \A u \in DOMAIN q.targets : q.targets[u] = State(q, u)
  BY <1>3, <1>5 DEF Maplet, State
<1>. QED
  BY <1>1, <1>5, <1>6 DEF TargetSet

\* An answer is owed: the target counts one request less.
LEMMA Answered ==
  ASSUME NEW c \in Conns, NEW synced, NEW r \in Good(c, synced), c.down # <<>>,
         NEW t \in Nat, Head(c.down) \in Answers(t)
  PROVE  /\ State(r, t).out \in Nat /\ State(r, t).out >= 1 /\ t \in DOMAIN r.targets
         /\ t \in DOMAIN r.listen => DOMAIN State(r, t).changes = {}
         /\ t = Query => ~(Query \in r.resets \cap DOMAIN r.listen)
         /\ \A q : /\ q.up = r.up /\ q.listen = r.listen
                   /\ State(q, t).out + 1 = State(r, t).out /\ State(q, t).out \in Nat
                   /\ \A u : u # t => State(q, u) = State(r, u)
                   => Owed(q, Delivered(c))
<1>1. r \in Remotes /\ Wired(r, c) /\ Owed(r, c) /\ Marks(r, synced) /\ Idle(r)
  BY DEF Good, Sound
<1>2. Delivered(c) \in Conns
  BY <1>1, DeliveredWired
<1>3. PICK o : o = State(r, t).out
  OBVIOUS
<1>4. o \in Nat /\ o >= 1
  <2>1. PICK m, n : m = Pending(r, c, t) /\ n = Pending(r, Delivered(c), t)
    OBVIOUS
  <2>2. m \in Nat /\ n \in Nat /\ m = n + 1
    BY <1>1, <1>2, <2>1, DeliveredWired, PendingFacts
  <2>3. m <= o
    BY <1>1, <1>3, <2>1 DEF Owed
  <2>4. o \in Nat
    BY <1>1, <1>3, StateTyped DEF States
  <2>. QED
    BY <2>2, <2>3, <2>4
<1>5. t \in DOMAIN r.targets /\ State(r, t) = r.targets[t]
  BY <1>1, <1>3, <1>4, BlankState DEF State
<1>6. t \in DOMAIN r.listen => DOMAIN State(r, t).changes = {}
  <2>1. ASSUME t \in DOMAIN r.listen
        PROVE  DOMAIN State(r, t).changes = {}
    <3>1. Justified(r, t, r.targets[t], synced)
      BY <1>1, <1>5, <2>1 DEF Marks
    <3>2. State(r, t).out > 0
      BY <1>3, <1>4
    <3>. QED
      BY <1>5, <3>1, <3>2 DEF Justified
  <2>. QED
    BY <2>1
<1>7. t = Query => ~(Query \in r.resets \cap DOMAIN r.listen)
  <2>1. o # 0
    BY <1>4
  <2>. QED
    BY <1>1, <1>3, <2>1 DEF Idle
<1>8. ASSUME NEW q, q.up = r.up, q.listen = r.listen,
             State(q, t).out + 1 = State(r, t).out, State(q, t).out \in Nat,
             \A u : u # t => State(q, u) = State(r, u)
      PROVE  Owed(q, Delivered(c))
  <2>1. ASSUME NEW u \in Nat
        PROVE  /\ Pending(q, Delivered(c), u) <= State(q, u).out
               /\ u \in DOMAIN q.listen => State(q, u).out = Pending(q, Delivered(c), u)
    <3>1. PICK m, n, p, v : m = Pending(r, c, u) /\ n = Pending(r, Delivered(c), u)
                            /\ p = State(r, u).out /\ v = State(q, u).out
      OBVIOUS
    <3>2. m \in Nat /\ n \in Nat
      BY <1>1, <1>2, <3>1, PendingFacts
    <3>3. m = n + (IF Head(c.down) \in Answers(u) THEN 1 ELSE 0)
      BY <1>1, <3>1, DeliveredWired
    <3>4. m <= p /\ (u \in DOMAIN r.listen => p = m)
      BY <1>1, <3>1 DEF Owed
    <3>5. p \in Nat
      BY <1>1, <3>1, StateTyped DEF States
    <3>6. n <= v /\ (u \in DOMAIN r.listen => v = n)
      <4>1. CASE u = t
        <5>1. m = n + 1 /\ v + 1 = p /\ v \in Nat
          BY <1>8, <3>1, <3>3, <4>1
        <5>. QED
          BY <3>2, <3>4, <3>5, <5>1
      <4>2. CASE u # t
        <5>1. Head(c.down) \notin Answers(u)
          BY <4>2 DEF Answers
        <5>2. m = n + 0 /\ v = p
          BY <1>8, <3>1, <3>3, <4>2, <5>1
        <5>. QED
          BY <3>2, <3>4, <3>5, <5>2
      <4>. QED
        BY <4>1, <4>2
    <3>7. Pending(q, Delivered(c), u) = n
      BY <1>8, <3>1 DEF Pending
    <3>. QED
      BY <1>8, <3>1, <3>6, <3>7
  <2>. QED
    BY <2>1 DEF Owed
<1>. QED
  BY <1>3, <1>4, <1>5, <1>6, <1>7, <1>8

\* q is what is left to do for r once the answer about t has set its state to st.
LEMMA AnswerSet ==
  ASSUME NEW c \in Conns, NEW synced, NEW r \in Good(c, synced), c.down # <<>>,
         NEW t \in Nat, Head(c.down) \in Answers(t), NEW st \in States,
         st.out + 1 = State(r, t).out,
         t \in DOMAIN r.listen => DOMAIN st.changes = {}
  PROVE  SetTarget(r, t, st) \in Good(Delivered(c), synced)
<1>1. PICK q : q = SetTarget(r, t, st)
  OBVIOUS
<1>2. r \in Remotes /\ r.ok /\ Wired(r, c) /\ Marks(r, synced) /\ Idle(r)
  BY DEF Good, Sound
<1>3. Delivered(c) \in Conns /\ Wired(r, Delivered(c)) /\ r.open
  BY <1>2, DeliveredWired
<1>4. q \in Remotes /\ TargetSet(q, r, t, st)
  BY <1>1, <1>2, SetTargetFields
<1>5. DOMAIN q.targets \subseteq DOMAIN r.targets \cup DOMAIN r.listen
  BY <1>4, Answered DEF TargetSet
<1>6. Owed(q, Delivered(c))
  <2>1. q.up = r.up /\ q.listen = r.listen
    BY <1>4 DEF TargetSet, SameListens
  <2>2. State(q, t).out + 1 = State(r, t).out /\ State(q, t).out \in Nat
    BY <1>4 DEF TargetSet, States
  <2>3. \A u : u # t => State(q, u) = State(r, u)
    BY <1>4 DEF TargetSet
  <2>. QED
    BY <2>1, <2>2, <2>3, Answered
<1>7. Marks(q, synced)
  <2>1. ASSUME NEW u \in DOMAIN q.targets \cap DOMAIN q.listen
        PROVE  Justified(q, u, q.targets[u], synced)
    <3>1. u \in DOMAIN r.listen /\ q.targets[u] = State(q, u) /\ SameListens(q, r)
      BY <1>4, <2>1 DEF TargetSet, SameListens
    <3>2. CASE u = t
      BY <1>4, <3>1, <3>2 DEF TargetSet, Justified
    <3>3. CASE u # t
      <4>1. u \in DOMAIN r.targets /\ q.targets[u] = r.targets[u]
        BY <1>4, <2>1, <3>1, <3>3 DEF TargetSet, State
      <4>2. Justified(r, u, r.targets[u], synced)
        BY <1>2, <3>1, <4>1 DEF Marks
      <4>. QED
        BY <3>1, <4>1, <4>2 DEF Justified, KnownTo, SameListens
    <3>. QED
      BY <3>2, <3>3
  <2>. QED
    BY <2>1 DEF Marks
<1>8. Idle(q)
  <2>1. t = Query => ~(Query \in r.resets \cap DOMAIN r.listen)
    BY Answered
  <2>2. q.resets = r.resets /\ q.listen = r.listen /\ \A u : u # t => State(q, u) = State(r, u)
    BY <1>4 DEF TargetSet, SameListens
  <2>. QED
    BY <1>2, <2>1, <2>2 DEF Idle
<1>9. q.ok /\ SameListens(q, r)
  BY <1>2, <1>4 DEF TargetSet
<1>. QED
  BY <1>1, <1>3, <1>2, <1>4, <1>5, <1>6, <1>7, <1>8, <1>9, AggregatorChange

\* The answer to a watch request.
LEMMA TargetAddedSound ==
  ASSUME NEW c \in Conns, NEW synced, NEW r \in Good(c, synced), c.down # <<>>,
         NEW t \in Nat, Head(c.down) \in Answers(t)
  PROVE  TargetAdded(r, t) \in Good(Delivered(c), synced)
<1>1. r \in Remotes
  BY DEF Good
<1>2. PICK old, st, new : /\ old = State(r, t) /\ st = [old EXCEPT !.out = @ - 1]
                          /\ new = IF st.out = 0 THEN [st EXCEPT !.changes = <<>>, !.dirty = FALSE] ELSE st
  OBVIOUS
<1>3. old \in States /\ old.out \in Nat /\ old.out >= 1
      /\ (t \in DOMAIN r.listen => DOMAIN old.changes = {})
  BY <1>1, <1>2, Answered, StateTyped
<1>4. old.out - 1 \in Nat /\ (old.out - 1) + 1 = old.out
  BY <1>3
<1>5. st \in States /\ st.out = old.out - 1 /\ st.changes = old.changes
  BY <1>2, <1>3, <1>4 DEF States
<1>6. PICK e : e = <<>> /\ e \in Maps(Docs, Kinds) /\ DOMAIN e = {}
  BY EmptyMap
<1>7. [st EXCEPT !.changes = e, !.dirty = FALSE] \in States
      /\ [st EXCEPT !.changes = e, !.dirty = FALSE].out = st.out
      /\ [st EXCEPT !.changes = e, !.dirty = FALSE].changes = e
  BY <1>5, <1>6 DEF States
<1>8. new \in States /\ new.out = old.out - 1 /\ (new.changes = old.changes \/ new.changes = e)
  BY <1>2, <1>5, <1>6, <1>7
<1>9. new.out + 1 = State(r, t).out /\ (t \in DOMAIN r.listen => DOMAIN new.changes = {})
  BY <1>2, <1>3, <1>4, <1>6, <1>8
<1>10. SetTarget(r, t, new) \in Good(Delivered(c), synced)
  BY <1>8, <1>9, AnswerSet
<1>11. TargetAdded(r, t) = SetTarget(r, t, new)
  BY <1>2 DEF TargetAdded
<1>. QED
  BY <1>10, <1>11

\* The answer to an unwatch request.
LEMMA TargetRemovedSound ==
  ASSUME NEW c \in Conns, NEW synced, NEW r \in Good(c, synced), c.down # <<>>,
         NEW t \in Nat, Head(c.down) \in Answers(t)
  PROVE  TargetRemoved(r, t) \in Good(Delivered(c), synced)
<1>1. r \in Remotes /\ r.ok /\ Wired(r, c) /\ Marks(r, synced) /\ Idle(r)
  BY DEF Good, Sound
<1>2. CASE State(r, t).out # 1
  <2>1. PICK old, st : old = State(r, t) /\ st = [old EXCEPT !.out = @ - 1]
    OBVIOUS
  <2>2. old \in States /\ old.out \in Nat /\ old.out >= 1
        /\ (t \in DOMAIN r.listen => DOMAIN old.changes = {})
    BY <1>1, <2>1, Answered, StateTyped
  <2>3. old.out - 1 \in Nat /\ (old.out - 1) + 1 = old.out
    BY <2>2
  <2>4. st \in States /\ st.out = old.out - 1 /\ st.changes = old.changes
    BY <2>1, <2>2, <2>3 DEF States
  <2>5. st.out + 1 = State(r, t).out /\ (t \in DOMAIN r.listen => DOMAIN st.changes = {})
    BY <2>1, <2>2, <2>3, <2>4
  <2>6. SetTarget(r, t, st) \in Good(Delivered(c), synced)
    BY <2>4, <2>5, AnswerSet
  <2>7. TargetRemoved(r, t) = SetTarget(r, t, st)
    BY <1>2, <2>1 DEF TargetRemoved
  <2>. QED
    BY <2>6, <2>7
<1>3. CASE State(r, t).out = 1
  <2>1. PICK ts, q : ts = Without(r.targets, t) /\ q = [r EXCEPT !.targets = ts]
    OBVIOUS
  <2>2. r.targets \in Maps(Nat, States)
    BY <1>1 DEF Remotes
  <2>3. ts \in Maps(Nat, States) /\ Dropping(ts, r.targets, t)
    BY <2>1, <2>2, WithoutFacts
  <2>4. q \in Remotes /\ SameListens(q, r) /\ q.ok /\ q.resets = r.resets /\ q.targets = ts
    BY <1>1, <2>1, <2>3 DEF Remotes, SameListens
  <2>5. State(q, t) = Blank /\ \A u : u # t => State(q, u) = State(r, u)
    BY <2>3, <2>4 DEF Dropping, State
  <2>6. Owed(q, Delivered(c))
    <3>1. q.up = r.up /\ q.listen = r.listen
      BY <2>4 DEF SameListens
    <3>2. State(q, t).out + 1 = State(r, t).out /\ State(q, t).out \in Nat
      BY <1>3, <2>5, BlankState
    <3>. QED
      BY <2>5, <3>1, <3>2, Answered
  <2>7. Marks(q, synced)
    <3>1. ASSUME NEW u \in DOMAIN q.targets \cap DOMAIN q.listen
          PROVE  Justified(q, u, q.targets[u], synced)
      <4>1. u \in DOMAIN r.targets /\ q.targets[u] = r.targets[u] /\ u \in DOMAIN r.listen
        BY <2>3, <2>4, <3>1 DEF Dropping, SameListens
      <4>2. Justified(r, u, r.targets[u], synced)
        BY <1>1, <4>1 DEF Marks
      <4>. QED
        BY <2>4, <4>1, <4>2 DEF Justified, KnownTo, SameListens
    <3>. QED
      BY <3>1 DEF Marks
  <2>8. Idle(q)
    <3>1. t = Query => ~(Query \in r.resets \cap DOMAIN r.listen)
      BY Answered
    <3>. QED
      BY <1>1, <2>4, <2>5, <3>1 DEF Idle, SameListens
  <2>9. DOMAIN q.targets \subseteq DOMAIN r.targets \cup DOMAIN r.listen
    BY <2>3, <2>4 DEF Dropping
  <2>10. Delivered(c) \in Conns /\ Wired(r, Delivered(c)) /\ r.open
    BY <1>1, DeliveredWired
  <2>11. q \in Good(Delivered(c), synced)
    BY <1>1, <2>4, <2>6, <2>7, <2>8, <2>9, <2>10, AggregatorChange
  <2>. QED
    BY <1>3, <2>1, <2>11 DEF TargetRemoved
<1>. QED
  BY <1>2, <1>3

-----------------------------------------------------------------------------
(* What the aggregator is told of a target that is active                  *)

\* The state of an active target is written.
LEMMA ActiveSet ==
  ASSUME NEW c \in Conns, NEW synced, NEW r \in Good(c, synced), r.open,
         NEW t \in DOMAIN r.listen, State(r, t).out = 0,
         NEW st \in States, st.out = 0, Justified(r, t, st, synced)
  PROVE  SetTarget(r, t, st) \in Good(c, synced)
<1>1. PICK q : q = SetTarget(r, t, st)
  OBVIOUS
<1>2. r \in Remotes /\ r.ok /\ Wired(r, c) /\ Owed(r, c) /\ Marks(r, synced) /\ Idle(r)
  BY DEF Good, Sound
<1>3. t \in Nat
  <2>1. r.listen \in Maps(Nat, Listens)
    BY <1>2 DEF Remotes
  <2>. QED
    BY <2>1, MapFacts
<1>4. q \in Remotes /\ TargetSet(q, r, t, st)
  BY <1>1, <1>2, <1>3, SetTargetFields
<1>5. DOMAIN q.targets \subseteq DOMAIN r.targets \cup DOMAIN r.listen
  BY <1>4 DEF TargetSet
<1>6. \A u : State(q, u).out = State(r, u).out
  BY <1>4 DEF TargetSet
<1>7. Owed(q, c)
  BY <1>2, <1>4, <1>6 DEF Owed, Pending, TargetSet, SameListens
<1>8. Marks(q, synced)
  <2>1. ASSUME NEW u \in DOMAIN q.targets \cap DOMAIN q.listen
        PROVE  Justified(q, u, q.targets[u], synced)
    <3>1. u \in DOMAIN r.listen /\ q.targets[u] = State(q, u) /\ SameListens(q, r)
      BY <1>4, <2>1 DEF TargetSet, SameListens
    <3>2. CASE u = t
      <4>1. q.targets[u] = st
        BY <1>4, <3>1, <3>2 DEF TargetSet
      <4>. QED
        BY <3>1, <3>2, <4>1 DEF Justified, KnownTo, SameListens
    <3>3. CASE u # t
      <4>1. u \in DOMAIN r.targets /\ q.targets[u] = r.targets[u]
        BY <1>4, <2>1, <3>1, <3>3 DEF TargetSet, State
      <4>2. Justified(r, u, r.targets[u], synced)
        BY <1>2, <3>1, <4>1 DEF Marks
      <4>. QED
        BY <3>1, <4>1, <4>2 DEF Justified, KnownTo, SameListens
    <3>. QED
      BY <3>2, <3>3
  <2>. QED
    BY <2>1 DEF Marks
<1>9. Idle(q)
  BY <1>2, <1>4, <1>6 DEF Idle, TargetSet, SameListens
<1>10. q.ok /\ SameListens(q, r)
  BY <1>2, <1>4 DEF TargetSet
<1>. QED
  BY <1>1, <1>2, <1>4, <1>5, <1>7, <1>8, <1>9, <1>10, AggregatorChange

\* Of an active target something is marked only when it is dirty.
LEMMA ActiveFacts ==
  ASSUME NEW c \in Conns, NEW synced, NEW r \in Good(c, synced), NEW t, IsActive(r, t)
  PROVE  /\ t \in DOMAIN r.listen /\ t \in Nat /\ State(r, t).out = 0 /\ State(r, t) \in States
         /\ Justified(r, t, State(r, t), synced)
         /\ t # Query => /\ t \in DOMAIN r.resolutions
                         /\ r.listen[t].key = r.resolutions[t].key /\ r.listen[t].key \in Docs
<1>1. r \in Remotes /\ Marks(r, synced) /\ Resolving(r)
  BY DEF Good, Sound, Wired
<1>2. t \in DOMAIN r.listen /\ State(r, t).out = 0
  BY DEF IsActive
<1>3. r.listen \in Maps(Nat, Listens) /\ r.resolutions \in Maps(Nat, Resolutions)
  BY <1>1 DEF Remotes
<1>4. t \in Nat
  BY <1>2, <1>3, MapFacts
<1>5. Justified(r, t, State(r, t), synced)
  <2>1. CASE t \in DOMAIN r.targets
    BY <1>1, <1>2, <2>1 DEF Marks, State
  <2>2. CASE t \notin DOMAIN r.targets
    BY <2>2, BlankState DEF State, Justified
  <2>. QED
    BY <2>1, <2>2
<1>6. t # Query => /\ t \in DOMAIN r.resolutions
                   /\ r.listen[t].key = r.resolutions[t].key /\ r.listen[t].key \in Docs
  <2>1. ASSUME t # Query
        PROVE  /\ t \in DOMAIN r.resolutions
               /\ r.listen[t].key = r.resolutions[t].key /\ r.listen[t].key \in Docs
    <3>1. t \in DOMAIN r.resolutions /\ r.listen[t].key = r.resolutions[t].key
      BY <1>1, <1>2, <2>1 DEF Resolving
    <3>2. r.resolutions[t] \in Resolutions
      BY <1>3, <3>1, MapFacts
    <3>. QED
      BY <3>1, <3>2 DEF Resolutions
  <2>. QED
    BY <2>1
<1>. QED
  BY <1>1, <1>2, <1>4, <1>5, <1>6, StateTyped

\* RemoteKeys are the documents the target knows.
LEMMA RemoteKeysKnown ==
  ASSUME NEW r \in Remotes, NEW t, view.synced \subseteq Docs
  PROVE  RemoteKeys(r, t) = KnownTo(r, t, view.synced) /\ RemoteKeys(r, t) \subseteq Docs
<1>1. r.resolutions \in Maps(Nat, Resolutions)
  BY DEF Remotes
<1>2. t \in DOMAIN r.resolutions => r.resolutions[t].key \in Docs
  <2>1. t \in DOMAIN r.resolutions => r.resolutions[t] \in Resolutions
    BY <1>1, MapFacts
  <2>. QED
    BY <2>1 DEF Resolutions
<1>. QED
  BY <1>2 DEF RemoteKeys, KnownTo

\* A target is said to be current.
LEMMA TargetCurrentSound ==
  ASSUME NEW c \in Conns, NEW synced, NEW r \in Good(c, synced), r.open, NEW t, NEW token \in Tokens
  PROVE  TargetCurrent(r, t, token) \in Good(c, synced)
<1>1. CASE ~IsActive(r, t)
  BY <1>1 DEF TargetCurrent
<1>2. CASE IsActive(r, t)
  <2>1. PICK old, st : old = State(r, t)
                       /\ st = [old EXCEPT !.current = TRUE, !.dirty = TRUE, !.token = token]
    OBVIOUS
  <2>2. t \in DOMAIN r.listen /\ old.out = 0 /\ old \in States /\ Justified(r, t, old, synced)
    BY <1>2, <2>1, ActiveFacts
  <2>3. st \in States /\ st.out = 0 /\ st.changes = old.changes /\ st.dirty
    BY <2>1, <2>2 DEF States
  <2>4. Justified(r, t, st, synced)
    BY <2>2, <2>3 DEF Justified
  <2>5. SetTarget(r, t, st) \in Good(c, synced)
    BY <2>1, <2>2, <2>3, <2>4, ActiveSet
  <2>. QED
    BY <1>2, <2>1, <2>5 DEF TargetCurrent
<1>. QED
  BY <1>1, <1>2

\* A target starts over: only what it knew is marked as removed.
LEMMA ResetTargetSound ==
  ASSUME NEW c \in Conns, NEW r \in Good(c, view.synced), r.open, NEW t, IsActive(r, t),
         view.synced \subseteq Docs
  PROVE  /\ ResetTarget(r, t) \in Good(c, view.synced)
         /\ State(ResetTarget(r, t), t).out = 0 /\ ResetTarget(r, t).open
<1>1. r \in Remotes
  BY DEF Good
<1>2. PICK keys, st : keys = RemoteKeys(r, t)
                      /\ st = [Blank EXCEPT !.changes = [d \in keys |-> "removed"], !.dirty = keys # {}]
  OBVIOUS
<1>3. keys = KnownTo(r, t, view.synced) /\ keys \subseteq Docs
  BY <1>1, <1>2, RemoteKeysKnown
<1>4. PICK ch : ch = [d \in keys |-> "removed"]
  OBVIOUS
<1>5. ch \in Maps(Docs, Kinds) /\ DOMAIN ch = keys /\ \A d \in keys : ch[d] = "removed"
  <2>1. ch = [d \in DOMAIN ch |-> ch[d]] /\ DOMAIN ch = keys /\ \A d \in keys : ch[d] = "removed"
    BY <1>4
  <2>. QED
    BY <1>3, <2>1, MapFacts DEF Kinds
<1>6. st = [Blank EXCEPT !.changes = ch, !.dirty = keys # {}]
  BY <1>2, <1>4
<1>7. st \in States /\ st.out = 0 /\ st.changes = ch /\ (st.dirty <=> keys # {})
  <2>1. PICK b \in BOOLEAN : b <=> keys # {}
    OBVIOUS
  <2>2. st = [Blank EXCEPT !.changes = ch, !.dirty = b]
    BY <1>6, <2>1
  <2>3. st \in States /\ st.out = 0 /\ st.changes = ch /\ st.dirty = b
    BY <1>5, <2>2, BlankState DEF States
  <2>. QED
    BY <2>1, <2>3
<1>8. t \in DOMAIN r.listen /\ t \in Nat /\ State(r, t).out = 0
      /\ (t # Query => t \in DOMAIN r.resolutions /\ r.listen[t].key = r.resolutions[t].key)
  BY ActiveFacts
<1>9. Justified(r, t, st, view.synced)
  <2>1. st.out > 0 \/ ~st.dirty => DOMAIN st.changes = {}
    <3>1. ~(st.out > 0)
      BY <1>7
    <3>2. ~st.dirty => DOMAIN st.changes = {}
      BY <1>5, <1>7, Zenon
    <3>. QED
      BY <3>1, <3>2, Zenon
  <2>2. \A d \in DOMAIN st.changes : d \in KnownTo(r, t, view.synced)
    BY <1>3, <1>5, <1>7
  <2>3. t # Query => DOMAIN st.changes \subseteq {r.listen[t].key}
    BY <1>3, <1>5, <1>7, <1>8 DEF KnownTo
  <2>. QED
    BY <2>1, <2>2, <2>3 DEF Justified
<1>10. SetTarget(r, t, st) \in Good(c, view.synced)
  BY <1>7, <1>8, <1>9, ActiveSet
<1>11. TargetSet(SetTarget(r, t, st), r, t, st)
  BY <1>1, <1>7, <1>8, SetTargetFields
<1>12. ResetTarget(r, t) = SetTarget(r, t, st)
  BY <1>2 DEF ResetTarget
<1>. QED
  BY <1>7, <1>10, <1>11, <1>12 DEF TargetSet, SameListens

\* A query whose documents do not add up is to be watched again.
LEMMA ResetsSound ==
  ASSUME NEW c \in Conns, NEW synced, NEW r \in Good(c, synced), r.open, State(r, Query).out = 0
  PROVE  [r EXCEPT !.resets = @ \cup {Query}] \in Good(c, synced)
<1>1. r \in Remotes /\ r.ok /\ Wired(r, c) /\ Owed(r, c) /\ Marks(r, synced) /\ Idle(r)
  BY DEF Good, Sound
<1>2. PICK q, rs : rs = r.resets \cup {Query} /\ q = [r EXCEPT !.resets = rs]
  OBVIOUS
<1>3. rs \in SUBSET Nat /\ rs \subseteq {Query}
  BY <1>1, <1>2 DEF Idle, Query, Remotes
<1>4. q \in Remotes /\ SameListens(q, r) /\ q.ok /\ q.targets = r.targets /\ q.resets = rs
  BY <1>1, <1>2, <1>3 DEF Remotes, SameListens
<1>5. \A t : State(q, t) = State(r, t)
  BY <1>4 DEF State
<1>6. Owed(q, c) /\ Idle(q)
  BY <1>1, <1>3, <1>4, <1>5 DEF Owed, Pending, Idle, SameListens
<1>7. Marks(q, synced)
  BY <1>1, <1>4 DEF Marks, Justified, KnownTo, SameListens
<1>8. q \in Good(c, synced)
  BY <1>1, <1>4, <1>6, <1>7, AggregatorChange
<1>. QED
  BY <1>2, <1>8

\* A change of one document marks as modified or removed only what the target knows.
LEMMA ChangeDocumentFacts ==
  ASSUME NEW c \in Conns, NEW r \in Good(c, view.synced), NEW t, IsActive(r, t),
         view.synced \subseteq Docs, NEW d \in Docs, t # Query => r.listen[t].key = d,
         NEW exists \in BOOLEAN
  PROVE  /\ ChangeDocument(r, t, d, exists) \in States
         /\ ChangeDocument(r, t, d, exists).out = 0
         /\ Justified(r, t, ChangeDocument(r, t, d, exists), view.synced)
<1>1. r \in Remotes
  BY DEF Good
<1>2. PICK old, keys, ch :
         /\ old = State(r, t) /\ keys = RemoteKeys(r, t)
         /\ ch = IF exists THEN With(old.changes, d, IF d \in keys THEN "modified" ELSE "added")
                 ELSE IF d \in keys THEN With(old.changes, d, "removed") ELSE Without(old.changes, d)
  OBVIOUS
<1>3. PICK st : st = [old EXCEPT !.dirty = TRUE, !.changes = ch]
  OBVIOUS
<1>4. ChangeDocument(r, t, d, exists) = st
  BY <1>2, <1>3 DEF ChangeDocument
<1>5. keys = KnownTo(r, t, view.synced)
  BY <1>1, <1>2, RemoteKeysKnown
<1>6. old \in States /\ old.out = 0 /\ Justified(r, t, old, view.synced)
  BY <1>2, ActiveFacts
<1>7. old.changes \in Maps(Docs, Kinds)
  BY <1>6 DEF States
<1>8. \A v \in Kinds : With(old.changes, d, v) \in Maps(Docs, Kinds)
                       /\ Maplet(With(old.changes, d, v), old.changes, d, v)
  BY <1>7, WithFacts
<1>9. Without(old.changes, d) \in Maps(Docs, Kinds)
      /\ Dropping(Without(old.changes, d), old.changes, d)
  BY <1>7, WithoutFacts
<1>10. /\ ch \in Maps(Docs, Kinds)
       /\ \/ Dropping(ch, old.changes, d)
          \/ \E v \in Kinds : Maplet(ch, old.changes, d, v) /\ (v # "added" => d \in keys)
  <2>1. CASE exists /\ d \in keys
    <3>1. ch = With(old.changes, d, "modified") /\ "modified" \in Kinds
      BY <1>2, <2>1 DEF Kinds
    <3>. QED
      BY <1>8, <2>1, <3>1
  <2>2. CASE exists /\ d \notin keys
    <3>1. ch = With(old.changes, d, "added") /\ "added" \in Kinds
      BY <1>2, <2>2 DEF Kinds
    <3>. QED
      BY <1>8, <3>1
  <2>3. CASE ~exists /\ d \in keys
    <3>1. ch = With(old.changes, d, "removed") /\ "removed" \in Kinds
      BY <1>2, <2>3 DEF Kinds
    <3>. QED
      BY <1>8, <2>3, <3>1
  <2>4. CASE ~exists /\ d \notin keys
    BY <1>2, <1>9, <2>4
  <2>. QED
    BY <2>1, <2>2, <2>3, <2>4
<1>11. st \in States /\ st.out = 0 /\ st.changes = ch /\ st.dirty
  BY <1>3, <1>6, <1>10 DEF States
<1>12. \A e \in DOMAIN ch : ch[e] \in {"modified", "removed"} => e \in KnownTo(r, t, view.synced)
  <2>1. ASSUME NEW e \in DOMAIN ch, ch[e] \in {"modified", "removed"}
        PROVE  e \in keys
    <3>1. CASE Dropping(ch, old.changes, d)
      BY <1>5, <1>6, <2>1, <3>1 DEF Dropping, Justified
    <3>2. ASSUME NEW v \in Kinds, Maplet(ch, old.changes, d, v), v # "added" => d \in keys
          PROVE  e \in keys
      <4>1. CASE e = d
        BY <2>1, <3>2, <4>1 DEF Maplet
      <4>2. CASE e # d
        BY <1>5, <1>6, <2>1, <3>2, <4>2 DEF Maplet, Justified
      <4>. QED
        BY <4>1, <4>2
    <3>. QED
      BY <1>10, <3>1, <3>2
  <2>. QED
    BY <1>5, <2>1
<1>13. t # Query => DOMAIN ch \subseteq {r.listen[t].key}
  <2>1. DOMAIN ch \subseteq DOMAIN old.changes \cup {d}
    BY <1>10 DEF Maplet, Dropping
  <2>. QED
    BY <1>6, <2>1 DEF Justified
<1>14. Justified(r, t, st, view.synced)
  <2>1. ~(st.out > 0 \/ ~st.dirty)
    BY <1>11
  <2>. QED
    BY <1>11, <1>12, <1>13, <2>1 DEF Justified
<1>. QED
  BY <1>4, <1>11, <1>14

\* A document message, for every active target it concerns.
LEMMA HandleDocumentChangeSound ==
  ASSUME NEW c \in Conns, NEW r \in Good(c, view.synced), r.open, view.synced \subseteq Docs,
         NEW ts, NEW d \in Docs, NEW doc \in Versions,
         \A t \in ts : IsActive(r, t) /\ t # Query => r.listen[t].key = d
  PROVE  /\ HandleDocumentChange(r, ts, d, doc) \in Good(c, view.synced)
         /\ SameListens(HandleDocumentChange(r, ts, d, doc), r)
         /\ \A t : State(HandleDocumentChange(r, ts, d, doc), t).out = State(r, t).out
<1>1. r \in Remotes /\ r.ok /\ Wired(r, c) /\ Owed(r, c) /\ Marks(r, view.synced) /\ Idle(r)
  BY DEF Good, Sound
<1>2. PICK active : active = {t \in ts : IsActive(r, t)}
  OBVIOUS
<1>3. CASE active = {}
  BY <1>2, <1>3 DEF HandleDocumentChange, SameListens
<1>4. CASE active # {}
  <2>1. PICK ups, tg :
           /\ ups = With(r.updates, d, doc)
           /\ tg = [t \in DOMAIN r.targets \cup active |->
                      IF t \in active THEN ChangeDocument(r, t, d, doc.exists) ELSE r.targets[t]]
    OBVIOUS
  <2>2. PICK q : q = [r EXCEPT !.updates = ups, !.targets = tg]
    OBVIOUS
  <2>3. HandleDocumentChange(r, ts, d, doc) = q
    BY <1>2, <1>4, <2>1, <2>2 DEF HandleDocumentChange
  <2>4. ups \in Maps(Docs, Versions)
    <3>1. r.updates \in Maps(Docs, Versions)
      BY <1>1 DEF Remotes
    <3>. QED
      BY <2>1, <3>1, WithFacts
  <2>5. doc.exists \in BOOLEAN
    BY DEF Versions
  <2>6. \A t \in active : /\ ChangeDocument(r, t, d, doc.exists) \in States
                          /\ ChangeDocument(r, t, d, doc.exists).out = 0
                          /\ Justified(r, t, ChangeDocument(r, t, d, doc.exists), view.synced)
    BY <1>2, <2>5, ChangeDocumentFacts
  <2>7. \A t \in active : t \in DOMAIN r.listen /\ t \in Nat /\ State(r, t).out = 0
    BY <1>2, ActiveFacts
  <2>8. tg \in Maps(Nat, States) /\ DOMAIN tg = DOMAIN r.targets \cup active
        /\ (\A t \in active : tg[t] = ChangeDocument(r, t, d, doc.exists))
        /\ (\A t \in DOMAIN r.targets \ active : tg[t] = r.targets[t])
    <3>1. r.targets \in Maps(Nat, States)
      BY <1>1 DEF Remotes
    <3>2. DOMAIN r.targets \subseteq Nat /\ \A t \in DOMAIN r.targets : r.targets[t] \in States
      BY <3>1, MapFacts
    <3>3. \A t \in DOMAIN r.targets \cup active : tg[t] \in States
      BY <2>1, <2>6, <3>2
    <3>4. tg = [t \in DOMAIN tg |-> tg[t]] /\ DOMAIN tg = DOMAIN r.targets \cup active
      BY <2>1
    <3>5. tg \in Maps(Nat, States)
      BY <2>7, <3>2, <3>3, <3>4, MapFacts
    <3>. QED
      BY <2>1, <3>4, <3>5
  <2>9. q \in Remotes /\ SameListens(q, r) /\ q.ok /\ q.resets = r.resets /\ q.targets = tg
    BY <1>1, <2>2, <2>4, <2>8 DEF Remotes, SameListens
  <2>10. ASSUME NEW t
         PROVE  State(q, t).out = State(r, t).out
    <3>1. CASE t \in active
      BY <2>6, <2>7, <2>8, <2>9, <3>1 DEF State
    <3>2. CASE t \notin active
      BY <2>8, <2>9, <3>2 DEF State
    <3>. QED
      BY <3>1, <3>2
  <2>11. Owed(q, c) /\ Idle(q)
    BY <1>1, <2>9, <2>10 DEF Owed, Pending, Idle, SameListens
  <2>12. Marks(q, view.synced)
    <3>1. ASSUME NEW t \in DOMAIN q.targets \cap DOMAIN q.listen
          PROVE  Justified(q, t, q.targets[t], view.synced)
      <4>1. Justified(r, t, q.targets[t], view.synced)
        <5>1. CASE t \in active
          BY <2>6, <2>8, <2>9, <5>1
        <5>2. CASE t \notin active
          BY <1>1, <2>8, <2>9, <3>1, <5>2 DEF Marks, SameListens
        <5>. QED
          BY <5>1, <5>2
      <4>. QED
        BY <2>9, <4>1 DEF Justified, KnownTo, SameListens
    <3>. QED
      BY <3>1 DEF Marks
  <2>13. DOMAIN q.targets \subseteq DOMAIN r.targets \cup DOMAIN r.listen
    BY <2>7, <2>8, <2>9
  <2>14. q \in Good(c, view.synced)
    BY <1>1, <2>9, <2>11, <2>12, <2>13, AggregatorChange
  <2>. QED
    BY <2>3, <2>9, <2>10, <2>14
<1>. QED
  BY <1>3, <1>4

\* The count of an existence filter for a limbo target is at most one.
LEMMA HandleExistenceFilterSound ==
  ASSUME NEW c \in Conns, NEW r \in Good(c, view.synced), r.open, view.synced \subseteq Docs,
         NEW t, NEW count \in Nat, t \in DOMAIN r.resolutions => count <= 1
  PROVE  HandleExistenceFilter(r, t, count) \in Good(c, view.synced)
<1>1. CASE ~IsActive(r, t)
  BY <1>1 DEF HandleExistenceFilter
<1>2. CASE IsActive(r, t) /\ t # Query
  <2>1. r.listen[t].key \in Docs /\ t \in DOMAIN r.resolutions
    BY <1>2, ActiveFacts
  <2>2. CASE count = 0
    <3>1. None \in Versions
      BY TargetsAssumption DEF None, Versions
    <3>2. HandleDocumentChange(r, {t}, r.listen[t].key, None) \in Good(c, view.synced)
      BY <2>1, <3>1, HandleDocumentChangeSound
    <3>. QED
      BY <1>2, <2>2, <3>2 DEF HandleExistenceFilter
  <2>3. CASE count # 0
    <3>1. count = 1
      BY <2>1, <2>3
    <3>2. r \in Remotes /\ r.ok
      BY DEF Good, Sound
    <3>3. [r EXCEPT !.ok = @ /\ count = 1] = r
      BY <3>1, <3>2 DEF Remotes
    <3>. QED
      BY <1>2, <2>3, <3>3 DEF HandleExistenceFilter
  <2>. QED
    BY <2>2, <2>3
<1>3. CASE IsActive(r, t) /\ t = Query
  <2>1. CASE CurrentCount(r, t) = count
    BY <1>3, <2>1 DEF HandleExistenceFilter
  <2>2. CASE CurrentCount(r, t) # count
    <3>1. PICK q : q = ResetTarget(r, t)
      OBVIOUS
    <3>2. q \in Good(c, view.synced) /\ State(q, Query).out = 0 /\ q.open
      BY <1>3, <3>1, ResetTargetSound
    <3>3. [q EXCEPT !.resets = @ \cup {Query}] \in Good(c, view.synced)
      BY <3>2, ResetsSound
    <3>. QED
      BY <1>3, <2>2, <3>1, <3>3 DEF HandleExistenceFilter
  <2>. QED
    BY <2>1, <2>2
<1>. QED
  BY <1>1, <1>2, <1>3

-----------------------------------------------------------------------------
(* A snapshot                                                              *)

\* Only finitely many targets are known, so that they can be folded over.
LEMMA IdsFinite ==
  ASSUME NEW r \in Remotes, Known(r)
  PROVE  /\ IsFiniteSet(DOMAIN r.targets) /\ IsFiniteSet(DOMAIN r.listen)
         /\ DOMAIN r.targets \subseteq Nat /\ DOMAIN r.listen \subseteq Nat
<1>1. r.next \in Nat /\ r.targets \in Maps(Nat, States) /\ r.listen \in Maps(Nat, Listens)
  BY DEF Remotes
<1>2. DOMAIN r.targets \subseteq Nat /\ DOMAIN r.listen \subseteq Nat
  BY <1>1, MapFacts
<1>3. IsFiniteSet(0 .. r.next)
  BY <1>1, FS_Interval
<1>4. DOMAIN r.targets \subseteq 0 .. r.next /\ DOMAIN r.listen \subseteq 0 .. r.next
  BY <1>1, <1>2 DEF Known
<1>. QED
  BY <1>2, <1>3, <1>4, FS_Subset

\* CreateRemoteEvent makes up deletions of the missing limbo documents.
LEMMA SynthesizeDeletesSound ==
  ASSUME NEW c \in Conns, NEW r \in Good(c, view.synced), r.open, view.synced \subseteq Docs,
         NEW ver \in Tokens
  PROVE  /\ SynthesizeDeletes(r, ver) \in Good(c, view.synced)
         /\ SameListens(SynthesizeDeletes(r, ver), r)
<1>1. r \in Remotes /\ Known(r)
  BY DEF Good, Sound, Wired
<1>2. PICK S, U : S = MissingIn(r) /\ U = {q \in Good(c, view.synced) : SameListens(q, r)}
  OBVIOUS
<1>3. IsFiniteSet(S)
  BY <1>1, <1>2, IdsFinite, FS_Subset DEF MissingIn
<1>4. r \in U
  BY <1>2 DEF SameListens
<1>5. [ver |-> ver, exists |-> FALSE] \in Versions
  BY DEF Versions, Tokens
<1>6. ASSUME NEW t \in S, NEW q \in U
      PROVE  HandleDocumentChange(q, {t}, r.listen[t].key, [ver |-> ver, exists |-> FALSE]) \in U
  <2>1. IsActive(r, t) /\ t # Query
    BY <1>2 DEF MissingIn
  <2>2. r.listen[t].key \in Docs
    BY <2>1, ActiveFacts
  <2>3. q \in Good(c, view.synced) /\ q.open /\ q.listen = r.listen /\ SameListens(q, r)
    BY <1>2 DEF SameListens
  <2>4. PICK d, doc : d = r.listen[t].key /\ doc = [ver |-> ver, exists |-> FALSE]
    OBVIOUS
  <2>5. PICK p : p = HandleDocumentChange(q, {t}, d, doc)
    OBVIOUS
  <2>6. p \in Good(c, view.synced) /\ SameListens(p, q)
    BY <1>5, <2>2, <2>3, <2>4, <2>5, HandleDocumentChangeSound
  <2>7. SameListens(p, r)
    BY <2>3, <2>6 DEF SameListens
  <2>. QED
    BY <1>2, <2>4, <2>5, <2>6, <2>7
<1>7. SynthesizeDeletes(r, ver) \in U
  BY <1>2, <1>3, <1>4, <1>6, DeleteFold
<1>. QED
  BY <1>2, <1>7

\* Every active target gets the token of the snapshot.
LEMMA SnapshotTokensSound ==
  ASSUME NEW c \in Conns, NEW synced, NEW r \in Good(c, synced), r.open, NEW ver \in Tokens
  PROVE  [r EXCEPT !.targets = [t \in DOMAIN @ |->
             IF IsActive(r, t) THEN [@[t] EXCEPT !.token = ver, !.dirty = TRUE] ELSE @[t]]]
           \in Good(c, synced)
<1>1. r \in Remotes /\ r.ok /\ Wired(r, c) /\ Owed(r, c) /\ Marks(r, synced) /\ Idle(r)
  BY DEF Good, Sound
<1>2. PICK tg, q : /\ tg = [t \in DOMAIN r.targets |->
                         IF IsActive(r, t) THEN [r.targets[t] EXCEPT !.token = ver, !.dirty = TRUE]
                         ELSE r.targets[t]]
                   /\ q = [r EXCEPT !.targets = tg]
  OBVIOUS
<1>3. r.targets \in Maps(Nat, States)
  BY <1>1 DEF Remotes
<1>4. DOMAIN r.targets \subseteq Nat /\ \A t \in DOMAIN r.targets : r.targets[t] \in States
  BY <1>3, MapFacts
<1>5. ASSUME NEW t \in DOMAIN r.targets
      PROVE  /\ tg[t] \in States /\ tg[t].out = r.targets[t].out
             /\ tg[t].changes = r.targets[t].changes
             /\ ~tg[t].dirty \/ tg[t].out > 0 => tg[t] = r.targets[t]
  <2>1. CASE IsActive(r, t)
    <3>1. tg[t] = [r.targets[t] EXCEPT !.token = ver, !.dirty = TRUE]
      BY <1>2, <2>1
    <3>2. r.targets[t] \in States /\ r.targets[t].out = 0
      BY <1>4, <2>1 DEF IsActive, State
    <3>3. /\ tg[t] \in States /\ tg[t].out = 0 /\ tg[t].dirty = TRUE
          /\ tg[t].changes = r.targets[t].changes
      BY <3>1, <3>2 DEF States
    <3>4. ~(tg[t].out > 0)
      BY <3>3
    <3>. QED
      BY <3>2, <3>3, <3>4, Zenon
  <2>2. CASE ~IsActive(r, t)
    BY <1>2, <1>4, <2>2
  <2>. QED
    BY <2>1, <2>2
<1>6. tg \in Maps(Nat, States) /\ DOMAIN tg = DOMAIN r.targets
  <2>1. tg = [t \in DOMAIN tg |-> tg[t]] /\ DOMAIN tg = DOMAIN r.targets
    BY <1>2
  <2>. QED
    BY <1>4, <1>5, <2>1, MapFacts
<1>7. q \in Remotes /\ SameListens(q, r) /\ q.ok /\ q.resets = r.resets /\ q.targets = tg
  BY <1>1, <1>2, <1>6 DEF Remotes, SameListens
<1>8. \A t : State(q, t).out = State(r, t).out
  BY <1>5, <1>6, <1>7 DEF State
<1>9. Owed(q, c) /\ Idle(q)
  BY <1>1, <1>7, <1>8 DEF Owed, Pending, Idle, SameListens
<1>10. Marks(q, synced)
  <2>1. ASSUME NEW t \in DOMAIN q.targets \cap DOMAIN q.listen
        PROVE  Justified(q, t, q.targets[t], synced)
    <3>1. t \in DOMAIN r.targets /\ t \in DOMAIN r.listen /\ q.targets[t] = tg[t]
      BY <1>6, <1>7, <2>1 DEF SameListens
    <3>2. Justified(r, t, r.targets[t], synced)
      BY <1>1, <3>1 DEF Marks
    <3>3. tg[t].out > 0 \/ ~tg[t].dirty => DOMAIN tg[t].changes = {}
      <4>1. tg[t].dirty \in BOOLEAN
        BY <1>5, <3>1 DEF States
      <4>2. tg[t].out > 0 \/ ~tg[t].dirty => tg[t] = r.targets[t]
        BY <1>5, <3>1, <4>1
      <4>. QED
        BY <3>2, <4>2 DEF Justified
    <3>4. tg[t].changes = r.targets[t].changes
      BY <1>5, <3>1
    <3>. QED
      BY <1>7, <3>1, <3>2, <3>3, <3>4 DEF Justified, KnownTo, SameListens
  <2>. QED
    BY <2>1 DEF Marks
<1>11. q \in Good(c, synced)
  BY <1>1, <1>6, <1>7, <1>9, <1>10, AggregatorChange
<1>. QED
  BY <1>2, <1>11

\* An aggregator that has told all it knew: nothing is marked in a target.
Clean(c) ==
    {r \in Good(c, {}) :
        /\ r.resets = {}
        /\ \A t \in DOMAIN r.targets \cap DOMAIN r.listen : DOMAIN r.targets[t].changes = {}}

\* A clean client is a good one, whatever the query knows.
LEMMA CleanIsGood ==
  ASSUME NEW c, NEW r \in Clean(c), NEW synced
  PROVE  r \in Good(c, synced)
<1>1. r \in Remotes /\ r.ok /\ Wired(r, c) /\ Owed(r, c) /\ Idle(r)
  BY DEF Clean, Good, Sound
<1>2. Marks(r, synced)
  BY DEF Clean, Marks, Justified
<1>. QED
  BY <1>1, <1>2 DEF Good, Sound

\* While nothing is marked, tokens and resolutions may change.
LEMMA CleanChange ==
  ASSUME NEW c \in Conns, NEW r \in Clean(c), NEW q \in Remotes, q.ok,
         q.open = r.open, q.targets = r.targets, q.up = r.up, q.resets = r.resets,
         q.byKey = r.byKey, q.next = r.next,
         DOMAIN q.listen = DOMAIN r.listen, DOMAIN q.resolutions = DOMAIN r.resolutions,
         \A t \in DOMAIN r.listen : q.listen[t].key = r.listen[t].key,
         \A t \in DOMAIN r.resolutions : q.resolutions[t].key = r.resolutions[t].key
  PROVE  q \in Clean(c)
<1>1. /\ r \in Remotes /\ Wired(r, c) /\ Owed(r, c) /\ Idle(r) /\ r.resets = {}
      /\ Known(r) /\ Resolving(r)
      /\ \A t \in DOMAIN r.targets \cap DOMAIN r.listen : DOMAIN r.targets[t].changes = {}
  BY DEF Clean, Good, Sound, Wired
<1>2. r.next \in Nat
  BY <1>1 DEF Remotes
<1>3. Follows(q, r)
  BY <1>2 DEF Follows
<1>4. Known(q) /\ Resolving(q)
  BY <1>1 DEF Known, Resolving
<1>5. Wired(q, c)
  BY <1>1, <1>3, <1>4, WiredFollows
<1>6. Owed(q, c) /\ Idle(q)
  BY <1>1 DEF Owed, Pending, State, Idle
<1>7. Marks(q, {})
  BY <1>1 DEF Marks, Justified
<1>. QED
  BY <1>1, <1>5, <1>6, <1>7 DEF Clean, Good, Sound

\* Once the changes have been handed on, no target has any left.
LEMMA ClearPendingClean ==
  ASSUME NEW c \in Conns, NEW synced, NEW r \in Good(c, synced), r.open
  PROVE  /\ ClearPending(r) \in Clean(c) /\ SameListens(ClearPending(r), r)
         /\ State(ClearPending(r), Query).out = State(r, Query).out
<1>1. r \in Remotes /\ r.ok /\ Wired(r, c) /\ Owed(r, c) /\ Marks(r, synced) /\ Idle(r)
  BY DEF Good, Sound
<1>2. PICK e : e = <<>>
  OBVIOUS
<1>3. e \in Maps(Docs, Kinds) /\ e \in Maps(Docs, Versions) /\ DOMAIN e = {}
  BY <1>2, EmptyMap
<1>4. PICK changed, tg, q :
         /\ changed = {t \in DOMAIN r.targets : IsActive(r, t) /\ r.targets[t].dirty}
         /\ tg = [t \in DOMAIN r.targets |->
                    IF t \in changed THEN [r.targets[t] EXCEPT !.changes = e, !.dirty = FALSE]
                    ELSE r.targets[t]]
         /\ q = [r EXCEPT !.updates = e, !.resets = {}, !.targets = tg]
  OBVIOUS
<1>5. ClearPending(r) = q
  <2>1. DOMAIN TargetChanges(r) = changed
    BY <1>4 DEF TargetChanges
  <2>. QED
    BY <1>2, <1>4, <2>1 DEF ClearPending
<1>6. r.targets \in Maps(Nat, States)
  BY <1>1 DEF Remotes
<1>7. DOMAIN r.targets \subseteq Nat /\ \A t \in DOMAIN r.targets : r.targets[t] \in States
  BY <1>6, MapFacts
<1>8. ASSUME NEW t \in DOMAIN r.targets
      PROVE  /\ tg[t] \in States /\ tg[t].out = r.targets[t].out
             /\ t \in changed => tg[t].changes = e
             /\ t \notin changed => tg[t] = r.targets[t]
  BY <1>3, <1>4, <1>7 DEF States
<1>9. tg \in Maps(Nat, States) /\ DOMAIN tg = DOMAIN r.targets
  <2>1. tg = [t \in DOMAIN tg |-> tg[t]] /\ DOMAIN tg = DOMAIN r.targets
    BY <1>4
  <2>. QED
    BY <1>7, <1>8, <2>1, MapFacts
<1>10. q \in Remotes /\ SameListens(q, r) /\ q.ok /\ q.resets = {} /\ q.targets = tg
  BY <1>1, <1>3, <1>4, <1>9 DEF Remotes, SameListens
<1>11. \A t : State(q, t).out = State(r, t).out
  BY <1>8, <1>9, <1>10 DEF State
<1>12. Owed(q, c)
  BY <1>1, <1>10, <1>11 DEF Owed, Pending, SameListens
<1>13. Idle(q)
  BY <1>10 DEF Idle
<1>14. ASSUME NEW t \in DOMAIN q.targets \cap DOMAIN q.listen
       PROVE  DOMAIN q.targets[t].changes = {}
  <2>1. t \in DOMAIN r.targets /\ t \in DOMAIN r.listen /\ q.targets[t] = tg[t]
    BY <1>9, <1>10, <1>14 DEF SameListens
  <2>2. CASE t \in changed
    BY <1>3, <1>8, <2>1, <2>2
  <2>3. CASE t \notin changed
    <3>1. ~IsActive(r, t) \/ ~r.targets[t].dirty
      BY <1>4, <2>1, <2>3
    <3>2. State(r, t) = r.targets[t] /\ r.targets[t].out \in Nat
      BY <1>7, <2>1 DEF State, States
    <3>3. r.targets[t].out > 0 \/ ~r.targets[t].dirty
      BY <2>1, <3>1, <3>2 DEF IsActive
    <3>4. Justified(r, t, r.targets[t], synced)
      BY <1>1, <2>1 DEF Marks
    <3>5. DOMAIN r.targets[t].changes = {}
      BY <3>3, <3>4 DEF Justified
    <3>. QED
      BY <1>8, <2>1, <2>3, <3>5
  <2>. QED
    BY <2>2, <2>3
<1>15. Marks(q, {})
  BY <1>14 DEF Marks, Justified
<1>16. q \in Good(c, {})
  BY <1>1, <1>9, <1>10, <1>12, <1>13, <1>15, AggregatorChange
<1>. QED
  BY <1>5, <1>10, <1>11, <1>14, <1>16 DEF Clean

\* The new resume tokens are stored with the listens.
LEMMA UpdateTokensClean ==
  ASSUME NEW c \in Conns, NEW r \in Clean(c), NEW changes,
         \A t \in DOMAIN changes : changes[t] \in States
  PROVE  /\ UpdateTokens(r, changes) \in Clean(c)
         /\ UpdateTokens(r, changes).open = r.open
         /\ UpdateTokens(r, changes).targets = r.targets
         /\ UpdateTokens(r, changes).resolutions = r.resolutions
         /\ DOMAIN UpdateTokens(r, changes).listen = DOMAIN r.listen
<1>1. r \in Remotes /\ r.ok
  BY DEF Clean, Good, Sound
<1>2. PICK ls, q : /\ ls = [t \in DOMAIN r.listen |->
                              IF t \in DOMAIN changes /\ changes[t].token # 0
                              THEN [r.listen[t] EXCEPT !.token = changes[t].token] ELSE r.listen[t]]
                   /\ q = [r EXCEPT !.listen = ls]
  OBVIOUS
<1>3. r.listen \in Maps(Nat, Listens)
  BY <1>1 DEF Remotes
<1>4. DOMAIN r.listen \subseteq Nat /\ \A t \in DOMAIN r.listen : r.listen[t] \in Listens
  BY <1>3, MapFacts
<1>5. \A t \in DOMAIN changes : changes[t].token \in Tokens
  BY DEF States
<1>6. \A t \in DOMAIN r.listen : ls[t] \in Listens /\ ls[t].key = r.listen[t].key
  BY <1>2, <1>4, <1>5 DEF Listens
<1>7. ls \in Maps(Nat, Listens) /\ DOMAIN ls = DOMAIN r.listen
  <2>1. ls = [t \in DOMAIN ls |-> ls[t]] /\ DOMAIN ls = DOMAIN r.listen
    BY <1>2
  <2>. QED
    BY <1>4, <1>6, <2>1, MapFacts
<1>8. /\ q \in Remotes /\ q.ok /\ q.open = r.open /\ q.targets = r.targets /\ q.up = r.up
      /\ q.resets = r.resets /\ q.byKey = r.byKey /\ q.next = r.next
      /\ q.resolutions = r.resolutions /\ q.listen = ls
  BY <1>1, <1>2, <1>7 DEF Remotes
<1>9. q \in Clean(c)
  BY <1>6, <1>7, <1>8, CleanChange
<1>10. UpdateTokens(r, changes) = q
  BY <1>2 DEF UpdateTokens
<1>. QED
  BY <1>7, <1>8, <1>9, <1>10

\* A request while nothing is marked.
LEMMA RequestClean ==
  ASSUME NEW c \in Conns, NEW r \in Clean(c), r.open,
         NEW op \in {"watch", "unwatch"}, NEW t \in DOMAIN r.listen, NEW token \in Tokens,
         \A i \in DOMAIN r.up : r.up[i].id = t => r.up[i].op # "watch",
         \A i \in DOMAIN c.down : c.down[i].type = "rejected" => c.down[i].id # t
  PROVE  /\ Request(r, op, t, token) \in Clean(c)
         /\ Requesting(Request(r, op, t, token), r, op, t, token)
<1>1. /\ r \in Remotes /\ Known(r) /\ r.resets = {} /\ r \in Good(c, {})
      /\ \A u \in DOMAIN r.targets \cap DOMAIN r.listen : DOMAIN r.targets[u].changes = {}
  BY DEF Clean, Good, Sound, Wired
<1>2. t \in Nat /\ t < r.next
  BY <1>1, IdsFinite DEF Known
<1>3. DOMAIN State(r, t).changes = {}
  BY <1>1, BlankState DEF State
<1>4. Quiet(r, c, t)
  BY <1>1, <1>3 DEF Quiet
<1>5. PICK q : q = Request(r, op, t, token)
  OBVIOUS
<1>6. q \in Good(c, {})
  BY <1>1, <1>2, <1>4, <1>5, RequestSound
<1>7. Requesting(q, r, op, t, token)
  BY <1>1, <1>2, <1>5, RequestFields
<1>8. q.resets = {}
  BY <1>1, <1>7 DEF Requesting
<1>9. \A u \in DOMAIN q.targets \cap DOMAIN q.listen : DOMAIN q.targets[u].changes = {}
  <2>1. PICK st \in States : st = [State(r, t) EXCEPT !.out = @ + 1] /\ q.targets = With(r.targets, t, st)
    BY <1>7 DEF Requesting
  <2>2. st.changes = State(r, t).changes
    BY <1>1, <2>1, StateTyped DEF States
  <2>3. r.targets \in Maps(Nat, States)
    BY <1>1 DEF Remotes
  <2>4. Maplet(q.targets, r.targets, t, st)
    BY <1>2, <2>1, <2>3, WithFacts
  <2>5. q.listen = r.listen
    BY <1>7 DEF Requesting
  <2>. QED
    BY <1>1, <1>3, <2>2, <2>4, <2>5 DEF Maplet
<1>. QED
  BY <1>5, <1>6, <1>7, <1>8, <1>9 DEF Clean

\* What Rewatch does is typed whenever the target is listened to.
LEMMA RewatchTyped ==
  ASSUME NEW r \in Remotes, NEW t \in DOMAIN r.listen
  PROVE  /\ [r EXCEPT !.listen[t].token = 0] \in Remotes
         /\ DOMAIN [r EXCEPT !.listen[t].token = 0].listen = DOMAIN r.listen
         /\ [r EXCEPT !.listen[t].token = 0].listen[t].token = 0
         /\ \A u \in DOMAIN r.listen : [r EXCEPT !.listen[t].token = 0].listen[u].key = r.listen[u].key
         /\ Rewatch(t, r) \in Remotes
         /\ DOMAIN Rewatch(t, r).listen = DOMAIN r.listen
<1>1. r.listen \in Maps(Nat, Listens)
  BY DEF Remotes
<1>2. 0 \in Tokens
  BY TargetsAssumption DEF Tokens
<1>3. t \in Nat /\ \A u \in DOMAIN r.listen : r.listen[u] \in Listens
  BY <1>1, MapFacts
<1>4. PICK ls, s : ls = [r.listen EXCEPT ![t].token = 0] /\ s = [r EXCEPT !.listen = ls]
  OBVIOUS
<1>5. DOMAIN ls = DOMAIN r.listen /\ \A u \in DOMAIN r.listen : ls[u] \in Listens /\ ls[u].key = r.listen[u].key
  BY <1>2, <1>3, <1>4 DEF Listens
<1>6. ls[t].token = 0
  BY <1>3, <1>4 DEF Listens
<1>7. ls \in Maps(Nat, Listens)
  <2>1. ls = [u \in DOMAIN ls |-> ls[u]]
    BY <1>4
  <2>2. DOMAIN ls \subseteq Nat
    BY <1>1, <1>5, MapFacts
  <2>. QED
    BY <1>5, <2>1, <2>2, MapFacts
<1>8. s \in Remotes /\ s.listen = ls
  BY <1>4, <1>7 DEF Remotes
<1>9. s = [r EXCEPT !.listen[t].token = 0]
  BY <1>4
<1>10. PICK p : p = SendUnwatchRequest(s, t)
  OBVIOUS
<1>11. p \in Remotes /\ p.listen = ls
  BY <1>2, <1>3, <1>8, <1>10, RequestFields DEF SendUnwatchRequest, Requesting
<1>12. PICK q : q = SendWatchRequest(p, t)
  OBVIOUS
<1>13. q = Request(p, "watch", t, 0)
  BY <1>6, <1>11, <1>12 DEF SendWatchRequest
<1>14. q \in Remotes /\ q.listen = ls
  BY <1>2, <1>3, <1>5, <1>11, <1>13, RequestFields DEF Requesting
<1>15. Rewatch(t, r) = q
  BY <1>9, <1>10, <1>12 DEF Rewatch
<1>. QED
  BY <1>5, <1>6, <1>8, <1>9, <1>14, <1>15

\* Nothing is under way about a target that waits for nothing.
LEMMA NothingPending ==
  ASSUME NEW c \in Conns, NEW synced, NEW r \in Good(c, synced), NEW t \in DOMAIN r.listen,
         State(r, t).out = 0
  PROVE  /\ t \in Nat
         /\ \A i \in DOMAIN r.up : r.up[i].id # t
         /\ \A i \in DOMAIN c.down : c.down[i].type = "rejected" => c.down[i].id # t
<1>1. r \in Remotes /\ Owed(r, c)
  BY DEF Good, Sound
<1>2. r.listen \in Maps(Nat, Listens) /\ r.up \in Seq(Requests) /\ c.down \in Seq(Messages)
  BY <1>1 DEF Remotes, Conns
<1>3. t \in Nat
  BY <1>2, MapFacts
<1>4. Pending(r, c, t) = 0
  BY <1>1, <1>3 DEF Owed
<1>5. /\ \A i \in DOMAIN r.up : r.up[i] \notin Requested(t)
      /\ \A i \in DOMAIN c.down : c.down[i] \notin Answers(t)
  BY <1>1, <1>4, PendingFacts
<1>6. \A i \in DOMAIN r.up : r.up[i] \in Requests
  BY <1>2
<1>7. \A i \in DOMAIN c.down : c.down[i] \in Messages
  BY <1>2
<1>8. \A i \in DOMAIN r.up : r.up[i].id # t
  BY <1>5, <1>6 DEF Requested
<1>9. \A i \in DOMAIN c.down : c.down[i].type = "rejected" => c.down[i].id # t
  BY <1>5, <1>7, MessageFields
<1>. QED
  BY <1>3, <1>8, <1>9

\* A target that waits for nothing is watched again from nothing.
LEMMA RewatchClean ==
  ASSUME NEW c \in Conns, NEW r \in Clean(c), r.open, NEW t \in DOMAIN r.listen,
         State(r, t).out = 0
  PROVE  /\ Rewatch(t, r) \in Clean(c) /\ Rewatch(t, r).open
         /\ Rewatch(t, r).resolutions = r.resolutions
         /\ DOMAIN Rewatch(t, r).listen = DOMAIN r.listen
         /\ \A u : u # t => State(Rewatch(t, r), u) = State(r, u)
<1>1. r \in Remotes /\ r.ok /\ r \in Good(c, {})
  BY DEF Clean, Good, Sound
<1>2. PICK s : s = [r EXCEPT !.listen[t].token = 0]
  OBVIOUS
<1>3. /\ s \in Remotes /\ DOMAIN s.listen = DOMAIN r.listen /\ s.listen[t].token = 0
      /\ \A u \in DOMAIN r.listen : s.listen[u].key = r.listen[u].key
  BY <1>1, <1>2, RewatchTyped
<1>4. /\ s.ok /\ s.open = r.open /\ s.targets = r.targets /\ s.up = r.up
      /\ s.resets = r.resets /\ s.byKey = r.byKey /\ s.next = r.next
      /\ s.resolutions = r.resolutions
  BY <1>1, <1>2 DEF Remotes
<1>5. s \in Clean(c)
  BY <1>3, <1>4, CleanChange
<1>6. /\ t \in Nat
      /\ \A i \in DOMAIN r.up : r.up[i].id # t
      /\ \A i \in DOMAIN c.down : c.down[i].type = "rejected" => c.down[i].id # t
  BY <1>1, NothingPending
<1>7. 0 \in Tokens
  BY TargetsAssumption DEF Tokens
<1>8. PICK p : p = Request(s, "unwatch", t, 0)
  OBVIOUS
<1>9. p \in Clean(c) /\ Requesting(p, s, "unwatch", t, 0)
  BY <1>3, <1>4, <1>5, <1>6, <1>7, <1>8, RequestClean
<1>10. p.open = s.open /\ p.listen = s.listen /\ p.resolutions = s.resolutions
  BY <1>9 DEF Requesting
<1>11. \A i \in DOMAIN p.up : p.up[i].id = t => p.up[i].op # "watch"
  <2>1. PICK e \in Requests : e.op = "unwatch" /\ p.up = Append(s.up, e)
    BY <1>9 DEF Requesting
  <2>2. s.up \in Seq(Requests)
    BY <1>3 DEF Remotes
  <2>. QED
    BY <1>4, <1>6, <2>1, <2>2, AppendFacts
<1>12. PICK q : q = Request(p, "watch", t, 0)
  OBVIOUS
<1>13. q \in Clean(c) /\ Requesting(q, p, "watch", t, 0)
  BY <1>3, <1>4, <1>6, <1>7, <1>9, <1>10, <1>11, <1>12, RequestClean
<1>14. q.open = p.open /\ q.listen = p.listen /\ q.resolutions = p.resolutions
  BY <1>13 DEF Requesting
<1>15. Rewatch(t, r) = q
  <2>1. SendUnwatchRequest(s, t) = p
    BY <1>8 DEF SendUnwatchRequest
  <2>2. SendWatchRequest(p, t) = q
    BY <1>3, <1>10, <1>12 DEF SendWatchRequest
  <2>. QED
    BY <1>2, <2>1, <2>2 DEF Rewatch
<1>16. \A u : u # t => State(q, u) = State(r, u)
  <2>1. PICK st \in States : p.targets = With(s.targets, t, st)
    BY <1>9 DEF Requesting
  <2>2. PICK st2 \in States : q.targets = With(p.targets, t, st2)
    BY <1>13 DEF Requesting
  <2>3. s.targets \in Maps(Nat, States) /\ p.targets \in Maps(Nat, States) /\ t \in Nat
    BY <1>3, <1>6, <1>9 DEF Remotes, Clean, Good
  <2>4. Maplet(p.targets, s.targets, t, st)
    <3>1. Maplet(With(s.targets, t, st), s.targets, t, st)
      BY <2>3, WithFacts
    <3>. QED
      BY <2>1, <3>1
  <2>5. Maplet(q.targets, p.targets, t, st2)
    <3>1. Maplet(With(p.targets, t, st2), p.targets, t, st2)
      BY <2>3, WithFacts
    <3>. QED
      BY <2>2, <3>1
  <2>. QED
    BY <1>4, <2>4, <2>5 DEF Maplet, State
<1>. QED
  BY <1>3, <1>4, <1>10, <1>13, <1>14, <1>15, <1>16

\* The query is watched again when its documents did not add up.
LEMMA RewatchMismatchesClean ==
  ASSUME NEW c \in Conns, NEW r \in Clean(c), r.open, NEW resets, resets \subseteq {Query},
         Query \in resets \cap DOMAIN r.listen => State(r, Query).out = 0
  PROVE  /\ RewatchMismatches(r, resets) \in Clean(c)
         /\ RewatchMismatches(r, resets).resolutions = r.resolutions
         /\ DOMAIN RewatchMismatches(r, resets).listen = DOMAIN r.listen
<1>1. PICK S, U, G :
         /\ S = resets \cap DOMAIN r.listen
         /\ U = {q \in Remotes : S \subseteq DOMAIN q.listen}
         /\ G = [s \in SUBSET S |-> {q \in Clean(c) : /\ q.open /\ q.resolutions = r.resolutions
                                                      /\ DOMAIN q.listen = DOMAIN r.listen
                                                      /\ \A t \in S \ s : State(q, t).out = 0}]
  OBVIOUS
<1>2. S \subseteq {Query} /\ IsFiniteSet(S)
  BY <1>1, FS_Singleton, FS_Subset
<1>3. r \in Remotes /\ \A q \in Clean(c) : q \in Remotes
  BY DEF Clean, Good
<1>4. r \in U /\ r \in G[{}]
  BY <1>1, <1>2, <1>3
<1>5. ASSUME NEW t \in S, NEW q \in U
      PROVE  Rewatch(t, q) \in U
  BY <1>1, RewatchTyped
<1>6. ASSUME NEW s \in SUBSET S, NEW t \in s, NEW q \in U, q \in G[s \ {t}]
      PROVE  Rewatch(t, q) \in G[s]
  <2>1. s \ {t} \in SUBSET S /\ t \in S \ (s \ {t})
    OBVIOUS
  <2>2. /\ q \in Clean(c) /\ q.open /\ q.resolutions = r.resolutions
        /\ DOMAIN q.listen = DOMAIN r.listen
        /\ \A u \in S \ (s \ {t}) : State(q, u).out = 0
    BY <1>1, <1>6, <2>1
  <2>3. t \in DOMAIN q.listen /\ State(q, t).out = 0
    BY <1>1, <2>1, <2>2
  <2>4. PICK p : p = Rewatch(t, q)
    OBVIOUS
  <2>5. /\ p \in Clean(c) /\ p.open /\ p.resolutions = q.resolutions
        /\ DOMAIN p.listen = DOMAIN q.listen
        /\ \A u : u # t => State(p, u) = State(q, u)
    BY <2>2, <2>3, <2>4, RewatchClean
  <2>6. \A u \in S \ s : State(p, u).out = 0
    BY <2>2, <2>5
  <2>. QED
    BY <1>1, <2>2, <2>4, <2>5, <2>6
<1>7. FoldSet(Rewatch, r, S) \in G[S]
  BY <1>2, <1>4, <1>5, <1>6, RewatchFold
<1>8. RewatchMismatches(r, resets) = FoldSet(Rewatch, r, S)
  BY <1>1 DEF RewatchMismatches
<1>. QED
  BY <1>1, <1>7, <1>8

\* Of a limbo target no more is told than its resolution allows.
Resolved(r, changes) ==
    \A t \in DOMAIN changes \cap DOMAIN r.resolutions :
       /\ DOMAIN changes[t].changes \subseteq {r.resolutions[t].key}
       /\ \A d \in DOMAIN changes[t].changes :
             changes[t].changes[d] \in {"modified", "removed"} => r.resolutions[t].received

\* ApplyRemoteEvent notes what the limbo targets have delivered, and its assertions hold.
LEMMA UpdateResolutionsClean ==
  ASSUME NEW c \in Conns, NEW r \in Clean(c), NEW changes, Resolved(r, changes)
  PROVE  UpdateResolutions(r, changes) \in Clean(c)
<1>1. r \in Remotes /\ r.ok
  BY DEF Clean, Good, Sound
<1>2. PICK limbo : limbo = DOMAIN changes \cap DOMAIN r.resolutions
  OBVIOUS
<1>3. PICK kept, rs, q :
         /\ kept = (r.ok /\ \A t \in limbo :
                        /\ Cardinality(DOMAIN changes[t].changes) <= 1
                        /\ ~r.resolutions[t].received =>
                             Marked(changes[t], "modified") \cup Marked(changes[t], "removed") = {})
         /\ rs = [t \in DOMAIN r.resolutions |->
                   IF t \notin limbo THEN r.resolutions[t]
                   ELSE [r.resolutions[t] EXCEPT !.received =
                           \/ Marked(changes[t], "added") # {}
                           \/ r.resolutions[t].received /\ Marked(changes[t], "removed") = {}]]
         /\ q = [r EXCEPT !.ok = kept, !.resolutions = rs]
  OBVIOUS
<1>4. UpdateResolutions(r, changes) = q
  BY <1>2, <1>3 DEF UpdateResolutions
<1>5. r.resolutions \in Maps(Nat, Resolutions)
  BY <1>1 DEF Remotes
<1>6. DOMAIN r.resolutions \subseteq Nat /\ \A t \in DOMAIN r.resolutions : r.resolutions[t] \in Resolutions
  BY <1>5, MapFacts
<1>7. ASSUME NEW t \in limbo
      PROVE  /\ Cardinality(DOMAIN changes[t].changes) <= 1
             /\ ~r.resolutions[t].received =>
                  Marked(changes[t], "modified") \cup Marked(changes[t], "removed") = {}
  <2>1. /\ DOMAIN changes[t].changes \subseteq {r.resolutions[t].key}
        /\ \A d \in DOMAIN changes[t].changes :
              changes[t].changes[d] \in {"modified", "removed"} => r.resolutions[t].received
    BY <1>2 DEF Resolved
  <2>2. Cardinality(DOMAIN changes[t].changes) <= 1
    <3>1. IsFiniteSet({r.resolutions[t].key}) /\ Cardinality({r.resolutions[t].key}) = 1
      BY FS_Singleton
    <3>. QED
      BY <2>1, <3>1, FS_Subset
  <2>. QED
    BY <2>1, <2>2 DEF Marked
<1>8. kept = TRUE
  BY <1>1, <1>3, <1>7, Zenon
<1>9. \A t \in DOMAIN r.resolutions : rs[t] \in Resolutions /\ rs[t].key = r.resolutions[t].key
  <2>1. ASSUME NEW t \in DOMAIN r.resolutions
        PROVE  rs[t] \in Resolutions /\ rs[t].key = r.resolutions[t].key
    <3>1. CASE t \notin limbo
      BY <1>3, <1>6, <3>1
    <3>2. CASE t \in limbo
      <4>1. PICK b \in BOOLEAN : rs[t] = [r.resolutions[t] EXCEPT !.received = b]
        BY <1>3, <3>2
      <4>. QED
        BY <1>6, <4>1 DEF Resolutions
    <3>. QED
      BY <3>1, <3>2
  <2>. QED
    BY <2>1
<1>10. rs \in Maps(Nat, Resolutions) /\ DOMAIN rs = DOMAIN r.resolutions
  <2>1. rs = [t \in DOMAIN rs |-> rs[t]] /\ DOMAIN rs = DOMAIN r.resolutions
    BY <1>3
  <2>. QED
    BY <1>6, <1>9, <2>1, MapFacts
<1>11. /\ q \in Remotes /\ q.ok /\ q.open = r.open /\ q.targets = r.targets /\ q.up = r.up
       /\ q.resets = r.resets /\ q.byKey = r.byKey /\ q.next = r.next
       /\ q.resolutions = rs /\ q.listen = r.listen
  BY <1>1, <1>3, <1>8, <1>10 DEF Remotes
<1>12. q \in Clean(c)
  BY <1>9, <1>10, <1>11, CleanChange
<1>. QED
  BY <1>4, <1>12

\* When nothing was told, no resolution changes.
LEMMA UpdateNoResolutions ==
  ASSUME NEW r \in Remotes, r.ok
  PROVE  UpdateResolutions(r, <<>>) = r
<1>1. PICK e : e = <<>> /\ DOMAIN e = {}
  BY EmptyMap
<1>2. r.resolutions \in Maps(Nat, Resolutions)
  BY DEF Remotes
<1>3. r.resolutions = [t \in DOMAIN r.resolutions |-> r.resolutions[t]]
  BY <1>2, MapFacts
<1>4. UpdateResolutions(r, e) = [r EXCEPT !.ok = TRUE, !.resolutions = r.resolutions]
  BY <1>1, <1>3 DEF UpdateResolutions
<1>. QED
  BY <1>1, <1>4 DEF Remotes

-----------------------------------------------------------------------------
(* The view and the store                                                  *)

Views == [synced : SUBSET Docs, current : BOOLEAN, limbo : SUBSET Docs, own : SUBSET Docs]
Stores == [cache : [Docs -> Versions], committed : SUBSET Docs, mine : SUBSET Docs,
           snapshot : SUBSET Docs, token : Tokens]

\* EmitNewSnapshots for a view v and a store s.
LEMMA EmitSound ==
  ASSUME NEW c \in Conns, NEW v \in Views, NEW s \in Stores, NEW r \in Good(c, v.synced),
         Emit(r, v, s)
  PROVE  /\ view' \in Views /\ store' = s /\ view'.synced = v.synced
         /\ remote' \in Good(c, view'.synced)
<1>1. PICK limbo : limbo = IF Query \in DOMAIN r.listen THEN LimboDocuments(v, s) ELSE {}
  OBVIOUS
<1>2. /\ view' = [v EXCEPT !.limbo = limbo]
      /\ remote' = UpdateTrackedLimboDocuments(r, v.limbo \ limbo, limbo \ v.limbo)
      /\ store' = s
  BY <1>1 DEF Emit
<1>3. limbo \in SUBSET Docs
  BY <1>1 DEF LimboDocuments, Shown, Exists, Views, Stores
<1>4. view' \in Views /\ view'.synced = v.synced
  BY <1>2, <1>3 DEF Views
<1>5. v.limbo \ limbo \in SUBSET Docs /\ limbo \ v.limbo \in SUBSET Docs
  BY <1>3 DEF Views
<1>6. UpdateTrackedLimboDocuments(r, v.limbo \ limbo, limbo \ v.limbo) \in Good(c, v.synced)
  BY <1>5, UpdateTrackedSound
<1>. QED
  BY <1>2, <1>4, <1>6

\* SyncEngine::ApplyRemoteEvent.
LEMMA ApplyRemoteEventSound ==
  ASSUME NEW c \in Conns, view \in Views, store \in Stores, NEW r, NEW changes,
         NEW updates \in Maps(Docs, Versions), NEW snapshot \in SUBSET Docs,
         Query \notin DOMAIN changes => UpdateResolutions(r, changes) \in Good(c, view.synced),
         Query \in DOMAIN changes =>
            /\ \A synced : UpdateResolutions(r, changes) \in Good(c, synced)
            /\ changes[Query] \in States
            /\ Marked(changes[Query], "modified") \subseteq view.synced,
         ApplyRemoteEvent(r, changes, updates, snapshot)
  PROVE  /\ view' \in Views /\ store' \in Stores /\ store'.mine = store.mine
         /\ remote' \in Good(c, view'.synced)
<1>1. PICK replaced, r1, cache, s1, v1 :
         /\ replaced = Replaced(updates)
         /\ r1 = UpdateResolutions(r, changes)
         /\ cache = [d \in Docs |-> IF d \in replaced THEN updates[d] ELSE store.cache[d]]
         /\ s1 = [store EXCEPT !.committed = @ \ replaced, !.cache = cache]
         /\ v1 = [view EXCEPT !.own = @ \ (replaced \ store.mine)]
  OBVIOUS
<1>2. replaced \subseteq DOMAIN updates /\ \A d \in DOMAIN updates : updates[d] \in Versions
  BY <1>1, MapFacts DEF Replaced
<1>3. cache \in [Docs -> Versions]
  BY <1>1, <1>2 DEF Stores
<1>4. /\ s1 \in Stores /\ v1 \in Views /\ v1.synced = view.synced /\ s1.token \in Tokens
      /\ s1.mine = store.mine
  BY <1>1, <1>3 DEF Stores, Views
<1>5. s1 = [store EXCEPT !.committed = @ \ replaced,
              !.cache = [d \in Docs |-> IF d \in replaced THEN updates[d] ELSE @[d]]]
  BY <1>1
<1>6. CASE Query \notin DOMAIN changes
  <2>1. Emit(r1, v1, s1)
    BY <1>1, <1>5, <1>6 DEF ApplyRemoteEvent
  <2>2. r1 \in Good(c, v1.synced)
    BY <1>1, <1>4, <1>6
  <2>. QED
    BY <1>4, <2>1, <2>2, EmitSound
<1>7. CASE Query \in DOMAIN changes
  <2>1. PICK q, token, synced : /\ q = changes[Query]
                                /\ token = PersistedToken(s1.token, q)
                                /\ synced = (view.synced \cup Marked(q, "added")) \ Marked(q, "removed")
    OBVIOUS
  <2>2. q \in States /\ Marked(q, "modified") \subseteq view.synced
    BY <1>7, <2>1
  <2>3. q.current \in BOOLEAN /\ q.token \in Tokens /\ DOMAIN q.changes \subseteq Docs
    <3>1. q.changes \in Maps(Docs, Kinds)
      BY <2>2 DEF States
    <3>. QED
      BY <2>2, <3>1, MapFacts DEF States
  <2>4. token \in Tokens
    BY <1>4, <2>1, <2>3 DEF PersistedToken
  <2>5. synced \in SUBSET Docs
    BY <2>1, <2>3 DEF Marked, Views
  <2>6. PICK v2, s2 : /\ v2 = [v1 EXCEPT !.synced = synced, !.current = q.current]
                      /\ s2 = [s1 EXCEPT !.token = token, !.snapshot = snapshot]
    OBVIOUS
  <2>7. v2 \in Views /\ s2 \in Stores /\ s2.mine = store.mine
    BY <1>4, <2>3, <2>4, <2>5, <2>6 DEF Views, Stores
  <2>8. r1 \in Good(c, v2.synced)
    BY <1>1, <1>7
  <2>9. [r1 EXCEPT !.ok = @ /\ Marked(q, "modified") \subseteq view.synced] = r1
    BY <2>2, <2>8 DEF Good, Sound, Remotes
  <2>10. v2 = [v1 EXCEPT !.synced = (@ \cup Marked(q, "added")) \ Marked(q, "removed"),
                         !.current = q.current]
    BY <1>4, <2>1, <2>6
  <2>11. s2 = [s1 EXCEPT !.token = PersistedToken(@, q), !.snapshot = snapshot]
    BY <2>1, <2>6
  <2>12. Emit([r1 EXCEPT !.ok = @ /\ Marked(q, "modified") \subseteq view.synced],
              [v1 EXCEPT !.synced = (@ \cup Marked(q, "added")) \ Marked(q, "removed"),
                         !.current = q.current],
              [s1 EXCEPT !.token = PersistedToken(@, q), !.snapshot = snapshot])
    BY <1>1, <1>5, <1>7, <2>1 DEF ApplyRemoteEvent
  <2>13. Emit(r1, v2, s2)
    BY <2>9, <2>10, <2>11, <2>12
  <2>. QED
    BY <2>7, <2>8, <2>13, EmitSound
<1>. QED
  BY <1>6, <1>7

\* What a snapshot tells of the targets.
LEMMA TargetChangesFacts ==
  ASSUME NEW c \in Conns, NEW synced, NEW r \in Good(c, synced), NEW q,
         q.resolutions = r.resolutions
  PROVE  /\ \A t \in DOMAIN TargetChanges(r) : TargetChanges(r)[t] \in States
         /\ Resolved(q, TargetChanges(r))
         /\ Query \in DOMAIN TargetChanges(r) => Marked(TargetChanges(r)[Query], "modified") \subseteq synced
<1>1. r \in Remotes /\ Marks(r, synced) /\ Resolving(r)
  BY DEF Good, Sound, Wired
<1>2. PICK changes : changes = TargetChanges(r)
  OBVIOUS
<1>3. \A t \in DOMAIN changes : t \in DOMAIN r.targets /\ changes[t] = r.targets[t] /\ IsActive(r, t)
  BY <1>2 DEF TargetChanges
<1>4. r.targets \in Maps(Nat, States)
  BY <1>1 DEF Remotes
<1>5. \A t \in DOMAIN changes : changes[t] \in States
  BY <1>3, <1>4, MapFacts
<1>6. \A t \in DOMAIN changes : Justified(r, t, changes[t], synced)
  BY <1>1, <1>3 DEF Marks, IsActive
<1>7. Resolved(q, changes)
  <2>1. ASSUME NEW t \in DOMAIN changes \cap DOMAIN r.resolutions
        PROVE  /\ DOMAIN changes[t].changes \subseteq {r.resolutions[t].key}
               /\ \A d \in DOMAIN changes[t].changes :
                     changes[t].changes[d] \in {"modified", "removed"} => r.resolutions[t].received
    <3>1. t # Query /\ r.listen[t].key = r.resolutions[t].key
      BY <1>1 DEF Resolving
    <3>. QED
      BY <1>6, <3>1 DEF Justified, KnownTo
  <2>. QED
    BY <2>1 DEF Resolved
<1>8. Query \in DOMAIN changes => Marked(changes[Query], "modified") \subseteq synced
  <2>1. Query \notin DOMAIN r.resolutions
    BY <1>1 DEF Resolving
  <2>. QED
    BY <1>6, <2>1 DEF Justified, KnownTo, Marked
<1>. QED
  BY <1>2, <1>5, <1>7, <1>8

\* A global snapshot.
LEMMA SnapshotSound ==
  ASSUME conn \in Conns, conn.down # <<>>, view \in Views, store \in Stores,
         remote \in Good(conn, view.synced),
         NEW m, m = Head(conn.down), m.type = "snapshot", Snapshot(m)
  PROVE  /\ view' \in Views /\ store' \in Stores /\ store'.mine = store.mine
         /\ remote' \in Good(Delivered(conn), view'.synced)
<1>1. remote \in Remotes /\ Wired(remote, conn) /\ view.synced \subseteq Docs
  BY DEF Good, Sound, Views
<1>2. Delivered(conn) \in Conns /\ remote.open /\ m \in Messages
  BY <1>1, DeliveredWired
<1>3. m.ver \in Tokens /\ m.docs \in SUBSET Docs /\ \A t \in Nat : m \notin Answers(t)
  BY <1>2, MessageFields
<1>4. PICK b, synced : b = Delivered(conn) /\ synced = view.synced
  OBVIOUS
<1>5. b \in Conns /\ remote \in Good(b, synced)
  BY <1>2, <1>3, <1>4, DeliveredSound
<1>6. PICK tokens, r, changes, k, u, w :
         /\ tokens = [remote EXCEPT !.targets = [t \in DOMAIN @ |->
                        IF IsActive(remote, t) THEN [@[t] EXCEPT !.token = m.ver, !.dirty = TRUE]
                        ELSE @[t]]]
         /\ r = SynthesizeDeletes(tokens, m.ver)
         /\ changes = TargetChanges(r)
         /\ k = ClearPending(r)
         /\ u = UpdateTokens(k, changes)
         /\ w = RewatchMismatches(u, r.resets)
  OBVIOUS
<1>7. ApplyRemoteEvent(w, changes, r.updates, m.docs)
  BY <1>6 DEF Snapshot
<1>8. tokens \in Good(b, synced) /\ tokens.open
  <2>1. tokens \in Good(b, synced)
    BY <1>2, <1>3, <1>5, <1>6, SnapshotTokensSound
  <2>2. tokens.open = remote.open
    BY <1>1, <1>6 DEF Remotes
  <2>. QED
    BY <1>2, <2>1, <2>2
<1>9. r \in Good(b, synced) /\ SameListens(r, tokens)
  BY <1>1, <1>3, <1>4, <1>5, <1>6, <1>8, SynthesizeDeletesSound
<1>10. r.open /\ r \in Remotes /\ Idle(r)
  BY <1>8, <1>9 DEF SameListens, Good, Sound
<1>11. k \in Clean(b) /\ SameListens(k, r) /\ State(k, Query).out = State(r, Query).out
  BY <1>5, <1>6, <1>9, <1>10, ClearPendingClean
<1>12. \A t \in DOMAIN changes : changes[t] \in States
  BY <1>5, <1>6, <1>9, TargetChangesFacts
<1>13. /\ u \in Clean(b) /\ u.open = k.open /\ u.targets = k.targets
       /\ u.resolutions = k.resolutions /\ DOMAIN u.listen = DOMAIN k.listen
  <2>1. b \in Conns /\ k \in Clean(b) /\ \A t \in DOMAIN changes : changes[t] \in States
    BY <1>5, <1>11, <1>12
  <2>2. PICK p : p = UpdateTokens(k, changes)
    OBVIOUS
  <2>3. /\ p \in Clean(b) /\ p.open = k.open /\ p.targets = k.targets
        /\ p.resolutions = k.resolutions /\ DOMAIN p.listen = DOMAIN k.listen
    BY <2>1, <2>2, UpdateTokensClean
  <2>. QED
    BY <1>6, <2>2, <2>3, Zenon
<1>14. r.resets \subseteq {Query}
       /\ (Query \in r.resets \cap DOMAIN u.listen => State(u, Query).out = 0)
  <2>1. State(u, Query) = State(k, Query)
    BY <1>13 DEF State
  <2>. QED
    BY <1>10, <1>11, <1>13, <2>1 DEF Idle, SameListens
<1>15. w \in Clean(b) /\ w.resolutions = u.resolutions
  <2>1. u.open
    BY <1>10, <1>11, <1>13 DEF SameListens
  <2>2. PICK rs, p : rs = r.resets /\ p = RewatchMismatches(u, rs)
    OBVIOUS
  <2>3. /\ b \in Conns /\ u \in Clean(b) /\ u.open /\ rs \subseteq {Query}
        /\ Query \in rs \cap DOMAIN u.listen => State(u, Query).out = 0
    BY <1>5, <1>13, <1>14, <2>1, <2>2
  <2>4. p \in Clean(b) /\ p.resolutions = u.resolutions
    BY <2>2, <2>3, RewatchMismatchesClean
  <2>. QED
    BY <1>6, <2>2, <2>4, Zenon
<1>16. w.resolutions = r.resolutions
  BY <1>11, <1>13, <1>15 DEF SameListens
<1>17. /\ Resolved(w, changes)
       /\ Query \in DOMAIN changes => Marked(changes[Query], "modified") \subseteq synced
  BY <1>5, <1>6, <1>9, <1>16, TargetChangesFacts
<1>18. UpdateResolutions(w, changes) \in Clean(b)
  BY <1>5, <1>15, <1>17, UpdateResolutionsClean
<1>19. \A s : UpdateResolutions(w, changes) \in Good(b, s)
  BY <1>18, CleanIsGood
<1>20. r.updates \in Maps(Docs, Versions)
  BY <1>10 DEF Remotes
<1>. QED
  BY <1>3, <1>4, <1>5, <1>7, <1>12, <1>17, <1>19, <1>20, ApplyRemoteEventSound

-----------------------------------------------------------------------------
(* The server refuses a target                                             *)

\* An answer about a target that is no longer listened to is taken as it is.
LEMMA ForgottenAnswer ==
  ASSUME NEW c \in Conns, NEW synced, NEW r \in Good(c, synced), c.down # <<>>,
         NEW t \in Nat, t \notin DOMAIN r.listen, Head(c.down) \in Answers(t)
  PROVE  r \in Good(Delivered(c), synced)
<1>1. r \in Remotes /\ Wired(r, c) /\ Owed(r, c)
  BY DEF Good, Sound
<1>2. Delivered(c) \in Conns /\ Wired(r, Delivered(c))
  BY <1>1, DeliveredWired
<1>3. ASSUME NEW u \in Nat
      PROVE  /\ Pending(r, Delivered(c), u) <= State(r, u).out
             /\ u \in DOMAIN r.listen => State(r, u).out = Pending(r, Delivered(c), u)
  <2>1. PICK m, n, o : m = Pending(r, c, u) /\ n = Pending(r, Delivered(c), u) /\ o = State(r, u).out
    OBVIOUS
  <2>2. m \in Nat /\ n \in Nat /\ o \in Nat
    BY <1>1, <1>2, <2>1, PendingFacts, StateTyped DEF States
  <2>3. m = n + (IF Head(c.down) \in Answers(u) THEN 1 ELSE 0)
    BY <1>1, <2>1, DeliveredWired
  <2>4. m <= o /\ (u \in DOMAIN r.listen => o = m)
    BY <1>1, <2>1 DEF Owed
  <2>5. u \in DOMAIN r.listen => Head(c.down) \notin Answers(u)
    BY DEF Answers
  <2>6. n <= o /\ (u \in DOMAIN r.listen => o = n)
    BY <2>2, <2>3, <2>4, <2>5
  <2>. QED
    BY <2>1, <2>6
<1>4. Owed(r, Delivered(c))
  BY <1>3 DEF Owed
<1>. QED
  BY <1>2, <1>4 DEF Good, Sound

\* q is r without the target t, which the server has refused.
LEMMA RefusedTarget ==
  ASSUME NEW c \in Conns, NEW synced, NEW r \in Good(c, synced), c.down # <<>>,
         NEW t \in DOMAIN r.listen, Head(c.down).type = "rejected", Head(c.down).id = t,
         NEW q \in Remotes, q.ok, q.listen = Without(r.listen, t), q.targets = Without(r.targets, t),
         q.open = r.open, q.up = r.up, q.resets = r.resets, q.next = r.next, Resolving(q),
         \A u \in DOMAIN q.resolutions : u \in DOMAIN r.resolutions /\ q.resolutions[u] = r.resolutions[u],
         \A u \in DOMAIN r.resolutions : u # t => u \in DOMAIN q.resolutions
  PROVE  q \in Good(Delivered(c), synced)
<1>1. r \in Remotes /\ Wired(r, c) /\ Owed(r, c) /\ Marks(r, synced) /\ Idle(r) /\ LastWord(r, c)
  BY DEF Good, Sound, Wired
<1>2. PICK b, m : b = Delivered(c) /\ m = Head(c.down)
  OBVIOUS
<1>3. b \in Conns /\ Wired(r, b) /\ r.open /\ m \in Messages /\ Known(r)
  BY <1>1, <1>2, DeliveredWired DEF Wired
<1>4. /\ r.listen \in Maps(Nat, Listens) /\ r.targets \in Maps(Nat, States) /\ r.next \in Nat
      /\ r.up \in Seq(Requests) /\ c.down \in Seq(Messages) /\ b.down \in Seq(Messages)
  BY <1>1, <1>3 DEF Remotes, Conns
<1>5. t \in Nat
  BY <1>4, MapFacts
<1>6. Dropping(q.listen, r.listen, t) /\ Dropping(q.targets, r.targets, t)
  <2>1. Dropping(Without(r.listen, t), r.listen, t)
    BY <1>4, WithoutFacts
  <2>2. Dropping(Without(r.targets, t), r.targets, t)
    BY <1>4, WithoutFacts
  <2>. QED
    BY <2>1, <2>2
<1>7. Pending(r, b, t) = 0
  <2>1. m = c.down[1] /\ 1 \in DOMAIN c.down
    BY <1>2, <1>4, TailFacts
  <2>2. /\ \A j \in DOMAIN r.up : r.up[j].id # t
        /\ \A j \in DOMAIN c.down : j > 1 => c.down[j] \notin Answers(t)
    BY <1>1, <1>2, <2>1 DEF LastWord
  <2>3. b.down = Tail(c.down)
    BY <1>2 DEF Delivered, Conns
  <2>4. \A i \in DOMAIN b.down : b.down[i] \notin Answers(t)
    BY <1>4, <2>2, <2>3, TailFacts
  <2>5. \A i \in DOMAIN r.up : r.up[i] \notin Requested(t)
    BY <2>2 DEF Requested
  <2>6. Count(b.down, Answers(t)) = 0
    BY <1>4, <2>4, CountFacts
  <2>7. Count(r.up, Requested(t)) = 0
    BY <1>4, <2>5, CountFacts
  <2>. QED
    BY <2>6, <2>7 DEF Pending
<1>8. Follows(q, r)
  BY <1>4 DEF Follows
<1>9. Known(q)
  BY <1>3, <1>6 DEF Known, Dropping
<1>10. \A u \in DOMAIN q.listen : u \in DOMAIN r.listen /\ u # t /\ q.listen[u] = r.listen[u]
  BY <1>6 DEF Dropping
<1>11. Wired(q, b)
  BY <1>1, <1>3, <1>8, <1>9, <1>10, WiredFollows
<1>12. State(q, t) = Blank /\ \A u : u # t => State(q, u) = State(r, u)
  BY <1>6 DEF Dropping, State
<1>13. Owed(q, b)
  <2>1. ASSUME NEW u \in Nat
        PROVE  /\ Pending(q, b, u) <= State(q, u).out
               /\ u \in DOMAIN q.listen => State(q, u).out = Pending(q, b, u)
    <3>1. Pending(q, b, u) = Pending(r, b, u)
      BY DEF Pending
    <3>2. CASE u = t
      <4>1. 0 <= Blank.out
        BY BlankState
      <4>. QED
        BY <1>7, <1>10, <1>12, <3>1, <3>2, <4>1
    <3>3. CASE u # t
      <4>1. m \notin Answers(u)
        BY <1>2, <3>3 DEF Answers
      <4>2. PICK x, y : x = Pending(r, c, u) /\ y = Pending(r, b, u)
        OBVIOUS
      <4>3. x \in Nat /\ y \in Nat /\ x = y + 0
        BY <1>1, <1>2, <1>3, <4>1, <4>2, DeliveredWired, PendingFacts
      <4>4. Pending(r, b, u) = Pending(r, c, u)
        BY <4>2, <4>3
      <4>. QED
        BY <1>1, <1>10, <1>12, <3>1, <3>3, <4>4 DEF Owed
    <3>. QED
      BY <3>2, <3>3
  <2>. QED
    BY <2>1 DEF Owed
<1>14. Marks(q, synced)
  <2>1. ASSUME NEW u \in DOMAIN q.targets \cap DOMAIN q.listen
        PROVE  Justified(q, u, q.targets[u], synced)
    <3>1. u # t /\ u \in DOMAIN r.targets /\ q.targets[u] = r.targets[u]
          /\ u \in DOMAIN r.listen /\ q.listen[u] = r.listen[u]
      BY <1>6, <1>10, <2>1 DEF Dropping
    <3>2. KnownTo(q, u, synced) = KnownTo(r, u, synced)
      BY <3>1 DEF KnownTo
    <3>3. Justified(r, u, r.targets[u], synced)
      BY <1>1, <3>1 DEF Marks
    <3>. QED
      BY <3>1, <3>2, <3>3 DEF Justified
  <2>. QED
    BY <2>1 DEF Marks
<1>15. Idle(q)
  BY <1>1, <1>10, <1>12 DEF Idle
<1>. QED
  BY <1>2, <1>11, <1>13, <1>14, <1>15 DEF Good, Sound

\* RemoteStore::ProcessTargetError.
LEMMA RejectedSound ==
  ASSUME conn \in Conns, conn.down # <<>>, view \in Views, store \in Stores,
         remote \in Good(conn, view.synced),
         NEW m, m = Head(conn.down), m.type = "rejected", HandleRejectedListen(m.id)
  PROVE  /\ view' \in Views /\ store' \in Stores /\ store'.mine = store.mine
         /\ remote' \in Good(Delivered(conn), view'.synced)
<1>1. remote \in Remotes /\ remote.ok /\ Wired(remote, conn) /\ Resolving(remote)
  BY DEF Good, Sound, Wired
<1>2. Delivered(conn) \in Conns /\ m \in Messages
  BY <1>1, DeliveredWired
<1>3. PICK t, b : t = m.id /\ b = Delivered(conn)
  OBVIOUS
<1>4. t \in Nat /\ m \in Answers(t) /\ b \in Conns
  BY <1>2, <1>3, MessageFields
<1>5. CASE t \notin DOMAIN remote.listen
  <2>1. remote' = remote /\ view' = view /\ store' = store
    BY <1>3, <1>5 DEF HandleRejectedListen
  <2>2. remote \in Good(b, view.synced)
    BY <1>3, <1>4, <1>5, ForgottenAnswer
  <2>. QED
    BY <1>3, <2>1, <2>2
<1>6. PICK ls, tg, r : /\ ls = Without(remote.listen, t) /\ tg = Without(remote.targets, t)
                       /\ r = [remote EXCEPT !.listen = ls, !.targets = tg]
  OBVIOUS
<1>7. /\ remote.listen \in Maps(Nat, Listens) /\ remote.targets \in Maps(Nat, States)
      /\ remote.resolutions \in Maps(Nat, Resolutions) /\ remote.byKey \in Maps(Docs, Nat)
  BY <1>1 DEF Remotes
<1>8. ls \in Maps(Nat, Listens) /\ Dropping(ls, remote.listen, t)
  BY <1>6, <1>7, WithoutFacts
<1>9. tg \in Maps(Nat, States)
  BY <1>6, <1>7, WithoutFacts
<1>10. /\ r \in Remotes /\ r.ok /\ r.listen = ls /\ r.targets = tg
       /\ r.open = remote.open /\ r.up = remote.up /\ r.resets = remote.resets
       /\ r.next = remote.next /\ r.resolutions = remote.resolutions /\ r.byKey = remote.byKey
  BY <1>1, <1>6, <1>8, <1>9 DEF Remotes
<1>11. CASE t = Query /\ t \in DOMAIN remote.listen
  <2>1. RemoveAndCleanupTarget(r)
    BY <1>3, <1>6, <1>11 DEF HandleRejectedListen
  <2>2. Resolving(r)
    BY <1>1, <1>8, <1>10, <1>11 DEF Resolving, Dropping
  <2>3. r \in Good(b, view.synced)
    <3>1. \A u \in DOMAIN r.resolutions : u \in DOMAIN remote.resolutions /\ r.resolutions[u] = remote.resolutions[u]
      BY <1>10
    <3>2. \A u \in DOMAIN remote.resolutions : u # t => u \in DOMAIN r.resolutions
      BY <1>10
    <3>3. r.listen = Without(remote.listen, t) /\ r.targets = Without(remote.targets, t)
      BY <1>6, <1>10
    <3>. QED
      BY <1>3, <1>10, <1>11, <2>2, <3>1, <3>2, <3>3, RefusedTarget
  <2>4. view.limbo \in SUBSET Docs /\ {} \in SUBSET Docs
    BY DEF Views
  <2>5. UpdateTrackedLimboDocuments(r, view.limbo, {}) \in Good(b, view.synced)
    BY <1>4, <2>3, <2>4, UpdateTrackedSound
  <2>6. view' \in Views /\ view'.synced = view.synced /\ store' = store
    BY <2>1 DEF RemoveAndCleanupTarget, Views
  <2>. QED
    BY <1>3, <2>1, <2>5, <2>6 DEF RemoveAndCleanupTarget
<1>12. CASE t # Query /\ t \in DOMAIN remote.listen
  <2>1. PICK d, bk, rs, q :
           /\ d = remote.resolutions[t].key
           /\ bk = Without(remote.byKey, d) /\ rs = Without(remote.resolutions, t)
           /\ q = [r EXCEPT !.byKey = bk, !.resolutions = rs]
    OBVIOUS
  <2>2. t \in DOMAIN remote.resolutions
    BY <1>1, <1>12 DEF Resolving
  <2>3. d \in Docs
    <3>1. remote.resolutions[t] \in Resolutions
      BY <1>7, <2>2, MapFacts
    <3>. QED
      BY <2>1, <3>1 DEF Resolutions
  <2>4. bk \in Maps(Docs, Nat) /\ Dropping(bk, remote.byKey, d)
    BY <1>7, <2>1, WithoutFacts
  <2>5. rs \in Maps(Nat, Resolutions) /\ Dropping(rs, remote.resolutions, t)
    BY <1>7, <2>1, WithoutFacts
  <2>6. /\ q \in Remotes /\ q.ok /\ q.listen = ls /\ q.targets = tg
        /\ q.open = remote.open /\ q.up = remote.up /\ q.resets = remote.resets
        /\ q.next = remote.next /\ q.resolutions = rs /\ q.byKey = bk
    BY <1>10, <2>1, <2>4, <2>5 DEF Remotes
  <2>7. Resolving(q)
    <3>1. DOMAIN rs = DOMAIN ls \ {Query}
      BY <1>1, <1>8, <2>5 DEF Dropping, Resolving
    <3>2. \A u \in DOMAIN rs : ls[u].key = rs[u].key
      BY <1>1, <1>8, <2>5 DEF Dropping, Resolving
    <3>3. ASSUME NEW e \in DOMAIN bk
          PROVE  bk[e] \in DOMAIN rs /\ rs[bk[e]].key = e
      <4>1. e \in DOMAIN remote.byKey /\ e # d /\ bk[e] = remote.byKey[e]
        BY <2>4, <3>3 DEF Dropping
      <4>2. remote.byKey[e] \in DOMAIN remote.resolutions /\ remote.resolutions[remote.byKey[e]].key = e
        BY <1>1, <4>1 DEF Resolving
      <4>3. remote.byKey[e] # t
        BY <2>1, <4>1, <4>2
      <4>. QED
        BY <2>5, <4>1, <4>2, <4>3 DEF Dropping
    <3>4. q.resolutions = rs /\ q.listen = ls /\ q.byKey = bk
      BY <2>6
    <3>. QED
      BY <3>1, <3>2, <3>3, <3>4 DEF Resolving
  <2>8. q \in Good(b, view.synced)
    <3>1. \A u \in DOMAIN q.resolutions : u \in DOMAIN remote.resolutions /\ q.resolutions[u] = remote.resolutions[u]
      BY <2>5, <2>6 DEF Dropping
    <3>2. \A u \in DOMAIN remote.resolutions : u # t => u \in DOMAIN q.resolutions
      BY <2>5, <2>6 DEF Dropping
    <3>3. q.listen = Without(remote.listen, t) /\ q.targets = Without(remote.targets, t)
      BY <1>6, <2>6
    <3>. QED
      BY <1>3, <1>12, <2>6, <2>7, <3>1, <3>2, <3>3, RefusedTarget
  <2>9. PICK p, e, ups : /\ p = PumpEnqueuedLimboResolutions(q) /\ e = <<>>
                         /\ ups = With(e, d, None)
    OBVIOUS
  <2>10. p \in Good(b, view.synced)
    BY <1>4, <2>8, <2>9, PumpSound
  <2>11. ApplyRemoteEvent(p, e, ups, store.snapshot)
    <3>1. q = [r EXCEPT !.byKey = Without(@, d), !.resolutions = Without(@, t)]
      BY <1>10, <2>1
    <3>. QED
      BY <1>3, <1>6, <1>12, <2>1, <2>9, <3>1 DEF HandleRejectedListen
  <2>12. ups \in Maps(Docs, Versions) /\ DOMAIN e = {}
    <3>1. None \in Versions
      BY TargetsAssumption DEF None, Versions
    <3>2. e \in Maps(Docs, Versions) /\ DOMAIN e = {}
      BY <2>9, EmptyMap
    <3>. QED
      BY <2>3, <2>9, <3>1, <3>2, WithFacts
  <2>13. UpdateResolutions(p, e) = p
    BY <2>9, <2>10, UpdateNoResolutions DEF Good, Sound
  <2>14. store.snapshot \in SUBSET Docs
    BY DEF Stores
  <2>. QED
    BY <1>3, <1>4, <2>10, <2>11, <2>12, <2>13, <2>14, ApplyRemoteEventSound
<1>. QED
  BY <1>5, <1>11, <1>12

-----------------------------------------------------------------------------
(* The stream opens and breaks, the app is started                         *)

\* A stream opens: every listen is sent, and each waits for one answer.
LEMMA OpensSound ==
  ASSUME conn \in Conns, NEW synced, remote \in Good(conn, synced), StreamOpens
  PROVE  remote' \in Good(conn, synced) /\ conn' = conn
<1>1. /\ remote \in Remotes /\ remote.ok /\ Closed(remote, conn) /\ Known(remote) /\ Resolving(remote)
      /\ Fitting(remote, conn) /\ LastWord(remote, conn) /\ Owed(remote, conn)
      /\ Marks(remote, synced) /\ Idle(remote)
  BY DEF Good, Sound, Wired
<1>2. /\ ~remote.open /\ conn' = conn
      /\ remote' = FoldSet(LAMBDA t, r : SendWatchRequest(r, t), [remote EXCEPT !.open = TRUE],
                           DOMAIN remote.listen)
  BY DEF StreamOpens
<1>3. DOMAIN remote.targets = {} /\ remote.up = <<>> /\ remote.resets = {} /\ conn.down = <<>>
  BY <1>1, <1>2 DEF Closed
<1>4. PICK base, L, S : base = [remote EXCEPT !.open = TRUE] /\ L = remote.listen /\ S = DOMAIN L
  OBVIOUS
<1>5. /\ base \in Remotes /\ base.ok /\ base.open /\ base.listen = L /\ base.targets = remote.targets
      /\ base.up = remote.up /\ base.resets = remote.resets /\ base.byKey = remote.byKey
      /\ base.resolutions = remote.resolutions /\ base.next = remote.next
  BY <1>1, <1>4 DEF Remotes
<1>6. base \in Good(conn, synced)
  <2>1. Closed(base, conn) /\ Known(base) /\ Resolving(base)
    BY <1>1, <1>4, <1>5 DEF Closed, Known, Resolving
  <2>2. Fitting(base, conn)
    <3>1. remote.next \in Nat
      BY <1>1 DEF Remotes
    <3>2. Follows(base, remote)
      BY <1>5, <3>1 DEF Follows
    <3>. QED
      BY <1>1, <1>5, <3>2, FittingFollows
  <2>3. LastWord(base, conn)
    BY <1>1, <1>4, <1>5 DEF LastWord
  <2>4. Owed(base, conn) /\ Idle(base)
    BY <1>1, <1>4, <1>5 DEF Owed, Pending, State, Idle
  <2>5. Marks(base, synced)
    BY <1>3, <1>5 DEF Marks
  <2>. QED
    BY <1>5, <2>1, <2>2, <2>3, <2>4, <2>5 DEF Good, Sound, Wired
<1>7. PICK U, G :
         /\ U = {q \in Remotes : q.listen = L}
         /\ G = [s \in SUBSET S |-> {q \in Good(conn, synced) :
                                        /\ q.open /\ q.listen = L /\ q.resets = {}
                                        /\ DOMAIN q.targets \subseteq s
                                        /\ \A i \in DOMAIN q.up : q.up[i].id \in s}]
  OBVIOUS
<1>8. IsFiniteSet(S) /\ S \subseteq Nat
  BY <1>1, <1>4, IdsFinite
<1>9. base \in U /\ base \in G[{}]
  <2>1. DOMAIN base.up = {}
    BY <1>3, <1>5
  <2>. QED
    BY <1>3, <1>5, <1>6, <1>7, <2>1
<1>10. ASSUME NEW t \in S, NEW q \in U
       PROVE  /\ SendWatchRequest(q, t) = Request(q, "watch", t, q.listen[t].token)
              /\ q.listen[t].token \in Tokens /\ t \in DOMAIN q.listen
              /\ SendWatchRequest(q, t) \in Remotes
              /\ Requesting(SendWatchRequest(q, t), q, "watch", t, q.listen[t].token)
  <2>1. q \in Remotes /\ q.listen = L /\ t \in DOMAIN q.listen /\ q.listen \in Maps(Nat, Listens)
    BY <1>4, <1>7 DEF Remotes
  <2>2. t \in Nat /\ q.listen[t].token \in Tokens
    <3>1. t \in Nat /\ q.listen[t] \in Listens
      BY <2>1, MapFacts
    <3>. QED
      BY <3>1 DEF Listens
  <2>3. PICK token \in Tokens : token = q.listen[t].token
    BY <2>2
  <2>4. SendWatchRequest(q, t) = Request(q, "watch", t, token)
    BY <2>3 DEF SendWatchRequest
  <2>5. Request(q, "watch", t, token) \in Remotes /\ Requesting(Request(q, "watch", t, token), q, "watch", t, token)
    BY <2>1, <2>2, RequestFields
  <2>. QED
    BY <2>1, <2>3, <2>4, <2>5
<1>11. ASSUME NEW t \in S, NEW q \in U
       PROVE  SendWatchRequest(q, t) \in U
  BY <1>7, <1>10, <1>11 DEF Requesting
<1>12. ASSUME NEW s \in SUBSET S, NEW t \in s, NEW q \in U, q \in G[s \ {t}]
       PROVE  SendWatchRequest(q, t) \in G[s]
  <2>1. s \ {t} \in SUBSET S /\ t \in S /\ t \in Nat
    BY <1>8
  <2>2. /\ q \in Good(conn, synced) /\ q.open /\ q.listen = L /\ q.resets = {}
        /\ DOMAIN q.targets \subseteq s \ {t}
        /\ \A i \in DOMAIN q.up : q.up[i].id \in s \ {t}
    BY <1>7, <1>12, <2>1
  <2>3. PICK p, token : p = SendWatchRequest(q, t) /\ token = q.listen[t].token
    OBVIOUS
  <2>4. p = Request(q, "watch", t, token) /\ token \in Tokens /\ t \in DOMAIN q.listen
        /\ p \in Remotes /\ Requesting(p, q, "watch", t, token)
    BY <1>10, <2>1, <2>3
  <2>5. Quiet(q, conn, t)
    <3>1. State(q, t) = Blank
      BY <2>2 DEF State
    <3>2. DOMAIN conn.down = {}
      BY <1>3
    <3>. QED
      BY <2>2, <3>1, <3>2, BlankState DEF Quiet
  <2>6. t < q.next /\ q \in Remotes
    BY <2>2, <2>4 DEF Good, Sound, Wired, Known
  <2>7. p \in Good(conn, synced)
    BY <2>1, <2>2, <2>4, <2>5, <2>6, RequestSound
  <2>8. p.open = q.open /\ p.listen = q.listen /\ p.resets = q.resets
    BY <2>4 DEF Requesting
  <2>9. PICK e \in Requests, st \in States :
           /\ e.id = t /\ p.targets = With(q.targets, t, st) /\ p.up = Append(q.up, e)
    BY <2>4 DEF Requesting
  <2>10. DOMAIN p.targets \subseteq s
    <3>1. q.targets \in Maps(Nat, States) /\ st \in States
      BY <2>6 DEF Remotes
    <3>2. Maplet(With(q.targets, t, st), q.targets, t, st)
      BY <2>1, <3>1, WithFacts
    <3>. QED
      BY <2>2, <2>9, <3>2 DEF Maplet
  <2>11. \A i \in DOMAIN p.up : p.up[i].id \in s
    <3>1. q.up \in Seq(Requests)
      BY <2>6 DEF Remotes
    <3>. QED
      BY <2>2, <2>9, <3>1, AppendFacts
  <2>. QED
    BY <1>7, <2>2, <2>3, <2>7, <2>8, <2>10, <2>11
<1>13. FoldSet(LAMBDA t, r : SendWatchRequest(r, t), base, S) \in G[S]
  BY <1>8, <1>9, <1>11, <1>12, SendFold
<1>14. remote' \in G[S]
  BY <1>2, <1>4, <1>13
<1>. QED
  BY <1>2, <1>7, <1>14

\* A stream that does not exist carries nothing.
LEMMA NoStreamTyped == NoStream \in Conns /\ NoStream.down = <<>> /\ DOMAIN NoStream.watched = {}
<1>1. PICK e : e = <<>> /\ e \in Maps(Nat, Versioned) /\ DOMAIN e = {}
  BY EmptyMap
<1>2. e \in Seq(Messages)
  BY <1>1
<1>3. NoStream = [watched |-> e, down |-> e, told |-> TRUE]
  BY <1>1 DEF NoStream
<1>. QED
  BY <1>1, <1>2, <1>3 DEF Conns

\* A client whose stream is closed.
LEMMA ClosedSound ==
  ASSUME NEW r \in Remotes, r.ok, ~r.open, DOMAIN r.targets = {}, r.up = <<>>, r.resets = {},
         Known(r), Resolving(r), NEW synced
  PROVE  r \in Good(NoStream, synced)
<1>1. PICK c : c = NoStream /\ c \in Conns /\ c.down = <<>> /\ DOMAIN c.watched = {}
  BY NoStreamTyped
<1>2. DOMAIN r.up = {} /\ DOMAIN c.down = {}
  BY <1>1
<1>3. Closed(r, c)
  BY <1>1 DEF Closed
<1>4. Fitting(r, c)
  <2>1. r.up \in Seq(FitRequests(r)) /\ c.down \in Seq(FitMessages(r))
    BY <1>1
  <2>. QED
    BY <1>1, <2>1 DEF Fitting
<1>5. LastWord(r, c)
  BY <1>2 DEF LastWord
<1>6. Owed(r, c)
  <2>1. ASSUME NEW t \in Nat
        PROVE  State(r, t).out = 0 /\ Pending(r, c, t) = 0
    <3>1. State(r, t).out = 0
      BY BlankState DEF State
    <3>2. r.up \in Seq(Requests) /\ c.down \in Seq(Messages)
      BY <1>1 DEF Remotes, Conns
    <3>3. Count(r.up, Requested(t)) = 0
      BY <1>2, <3>2, CountFacts
    <3>4. Count(c.down, Answers(t)) = 0
      BY <1>2, <3>2, CountFacts
    <3>. QED
      BY <3>1, <3>3, <3>4 DEF Pending
  <2>. QED
    BY <2>1 DEF Owed
<1>7. Marks(r, synced) /\ Idle(r)
  BY DEF Marks, Idle
<1>. QED
  BY <1>1, <1>3, <1>4, <1>5, <1>6, <1>7 DEF Good, Sound, Wired

\* A stream breaks: nothing is under way and nothing is waited for.
LEMMA BreaksSound ==
  ASSUME NEW synced, remote \in Good(conn, synced), StreamBreaks
  PROVE  remote' \in Good(conn', synced) /\ conn' \in Conns
<1>1. remote \in Remotes /\ remote.ok /\ Known(remote) /\ Resolving(remote)
  BY DEF Good, Sound, Wired
<1>2. PICK e : e = <<>> /\ DOMAIN e = {}
  BY EmptyMap
<1>3. e \in Maps(Nat, States) /\ e \in Maps(Docs, Versions) /\ e \in Seq(Requests)
  BY <1>2, EmptyMap
<1>4. conn' = NoStream
      /\ remote' = [remote EXCEPT !.open = FALSE, !.targets = e, !.updates = e, !.resets = {}, !.up = e]
  BY <1>2 DEF StreamBreaks
<1>5. PICK q : q = [remote EXCEPT !.open = FALSE, !.targets = e, !.updates = e, !.resets = {}, !.up = e]
  OBVIOUS
<1>6. /\ q \in Remotes /\ q.ok /\ ~q.open /\ q.targets = e /\ q.up = e /\ q.resets = {}
      /\ q.listen = remote.listen /\ q.resolutions = remote.resolutions
      /\ q.byKey = remote.byKey /\ q.next = remote.next
  BY <1>1, <1>3, <1>5 DEF Remotes
<1>7. Known(q) /\ Resolving(q)
  BY <1>1, <1>2, <1>6 DEF Known, Resolving
<1>. QED
  BY <1>2, <1>4, <1>5, <1>6, <1>7, ClosedSound, NoStreamTyped

\* The client that has just opened its query.
LEMMA ListeningSound ==
  ASSUME NEW token \in Tokens, NEW synced
  PROVE  Listening(token) \in Good(NoStream, synced)
<1>1. PICK e : e = <<>> /\ DOMAIN e = {}
  BY EmptyMap
<1>2. /\ e \in Maps(Nat, States) /\ e \in Maps(Docs, Versions) /\ e \in Seq(Requests)
      /\ e \in Maps(Nat, Resolutions) /\ e \in Maps(Docs, Nat) /\ e \in Seq(Docs)
      /\ e \in Maps(Nat, Listens)
  BY <1>1, EmptyMap
<1>3. PICK l : l = [key |-> All, token |-> token]
  OBVIOUS
<1>4. l \in Listens /\ Query \in Nat
  BY <1>3 DEF Listens, Keys, Query
<1>5. PICK ls : ls = With(e, Query, l)
  OBVIOUS
<1>6. ls \in Maps(Nat, Listens) /\ Maplet(ls, e, Query, l)
  BY <1>2, <1>4, <1>5, WithFacts
<1>7. DOMAIN ls = {Query}
  BY <1>1, <1>6 DEF Maplet
<1>8. PICK q : q = [open |-> FALSE, listen |-> ls, targets |-> e, updates |-> e, resets |-> {}, up |-> e,
                    resolutions |-> e, byKey |-> e, enqueued |-> e, next |-> 1, ok |-> TRUE]
  OBVIOUS
<1>9. Listening(token) = q
  BY <1>1, <1>3, <1>5, <1>8 DEF Listening
<1>10. /\ q \in Remotes /\ q.ok /\ ~q.open /\ q.targets = e /\ q.up = e /\ q.resets = {}
       /\ q.listen = ls /\ q.resolutions = e /\ q.byKey = e /\ q.next = 1
  BY <1>2, <1>6, <1>8 DEF Remotes
<1>11. Known(q) /\ Resolving(q)
  BY <1>1, <1>7, <1>10 DEF Known, Resolving, Query
<1>. QED
  BY <1>1, <1>9, <1>10, <1>11, ClosedSound

-----------------------------------------------------------------------------
(* The server                                                              *)

\* A finite set put in a sequence.
LEMMA SetToSeqFacts ==
  ASSUME NEW S, IsFiniteSet(S), NEW T, S \subseteq T
  PROVE  SetToSeq(S) \in Seq(T)
<1>1. PICK n : n = Cardinality(S)
  OBVIOUS
<1>2. n \in Nat /\ ExistsBijection(1..n, S)
  BY <1>1, FS_CardinalityType
<1>3. \E f \in [1..n -> S] : IsInjective(f)
  BY <1>2 DEF ExistsBijection, Bijection, Injection
<1>4. SetToSeq(S) = CHOOSE f \in [1..n -> S] : IsInjective(f)
  BY <1>1 DEF SetToSeq
<1>5. SetToSeq(S) \in [1..n -> S]
  BY <1>3, <1>4
<1>. QED
  BY <1>2, <1>5

\* The elements of two sequences put together.
LEMMA JoinFacts ==
  ASSUME NEW S, NEW s \in Seq(S), NEW w \in Seq(S)
  PROVE  /\ s \o w \in Seq(S)
         /\ \A i \in DOMAIN (s \o w) : \/ i \in DOMAIN s /\ (s \o w)[i] = s[i]
                                       \/ \E j \in DOMAIN w : (s \o w)[i] = w[j]
<1>1. PICK n, m : n = Len(s) /\ m = Len(w)
  OBVIOUS
<1>2. /\ n \in Nat /\ m \in Nat /\ DOMAIN s = 1..n /\ DOMAIN w = 1..m
      /\ DOMAIN (s \o w) = 1..(n + m)
      /\ \A i \in 1..n : (s \o w)[i] = s[i]
      /\ \A i \in 1..(n + m) : i > n => (s \o w)[i] = w[i - n]
  BY <1>1
<1>3. s \o w \in Seq(S)
  OBVIOUS
<1>4. \A i \in 1..(n + m) : i > n => i - n \in 1..m
  BY <1>2
<1>5. ASSUME NEW i \in DOMAIN (s \o w)
      PROVE  \/ i \in DOMAIN s /\ (s \o w)[i] = s[i]
             \/ \E j \in DOMAIN w : (s \o w)[i] = w[j]
  BY <1>2, <1>4
<1>. QED
  BY <1>3, <1>5

\* The messages that answer no request.
Informs(r) == {m \in FitMessages(r) : \A t : m \notin Answers(t)}

\* What a connection carries and watches concerns the targets of r.
WatchesFit(r, c) == \A t \in DOMAIN c.watched : t < r.next /\ Suits(r, t, c.watched[t].key)

\* The server says more.
LEMMA InformedSound ==
  ASSUME NEW c \in Conns, NEW synced, NEW r \in Good(c, synced), r.open,
         NEW ms \in Seq(Informs(r)),
         NEW b \in Conns, b.down = c.down \o ms, WatchesFit(r, b)
  PROVE  r \in Good(b, synced)
<1>1. r \in Remotes /\ Wired(r, c) /\ Owed(r, c) /\ LastWord(r, c)
  BY DEF Good, Sound, Wired
<1>2. Informs(r) \subseteq FitMessages(r) /\ Informs(r) \subseteq Messages
  BY DEF Informs, FitMessages
<1>3. c.down \in Seq(FitMessages(r)) /\ c.down \in Seq(Messages)
  BY <1>1 DEF Wired, Fitting, Conns
<1>4. ms \in Seq(FitMessages(r)) /\ ms \in Seq(Messages)
  BY <1>2, SeqGrows
<1>5. \A i \in DOMAIN ms : ms[i] \in Messages /\ \A t : ms[i] \notin Answers(t)
  <2>1. \A i \in DOMAIN ms : ms[i] \in Informs(r)
    OBVIOUS
  <2>. QED
    BY <1>2, <2>1 DEF Informs
<1>6. Fitting(r, b)
  <2>1. b.down \in Seq(FitMessages(r))
    BY <1>3, <1>4, JoinFacts
  <2>. QED
    BY <1>1, <2>1 DEF Wired, Fitting, WatchesFit
<1>7. /\ \A i \in DOMAIN b.down : \/ i \in DOMAIN c.down /\ b.down[i] = c.down[i]
                                  \/ \E j \in DOMAIN ms : b.down[i] = ms[j]
  BY <1>3, <1>4, JoinFacts
<1>8. LastWord(r, b)
  <2>1. ASSUME NEW i \in DOMAIN b.down, b.down[i].type = "rejected", b.down[i].id \in DOMAIN r.listen
        PROVE  /\ \A j \in DOMAIN r.up : r.up[j].id # b.down[i].id
               /\ \A j \in DOMAIN b.down : j > i => b.down[j] \notin Answers(b.down[i].id)
    <3>1. b.down[i] \in Answers(b.down[i].id)
      <4>1. b.down[i] \in Messages
        BY <1>3, <1>5, <1>7
      <4>. QED
        BY <2>1, <4>1, MessageFields
    <3>2. i \in DOMAIN c.down /\ b.down[i] = c.down[i]
      BY <1>5, <1>7, <3>1
    <3>3. /\ \A j \in DOMAIN r.up : r.up[j].id # b.down[i].id
          /\ \A j \in DOMAIN c.down : j > i => c.down[j] \notin Answers(b.down[i].id)
      BY <1>1, <2>1, <3>2 DEF LastWord
    <3>. QED
      BY <1>5, <1>7, <3>3
  <2>. QED
    BY <1>1, <2>1 DEF LastWord
<1>9. Wired(r, b)
  BY <1>1, <1>6, <1>8 DEF Wired, Closed
<1>10. ASSUME NEW t \in Nat
       PROVE  Pending(r, b, t) = Pending(r, c, t)
  <2>1. Count(b.down, Answers(t)) = Count(c.down, Answers(t))
    BY <1>3, <1>4, <1>5, CountJoin
  <2>. QED
    BY <2>1 DEF Pending
<1>11. Owed(r, b)
  BY <1>1, <1>10 DEF Owed
<1>. QED
  BY <1>9, <1>11 DEF Good, Sound

\* The server takes the first request and answers it with m.
LEMMA AnsweredSound ==
  ASSUME NEW c \in Conns, NEW synced, NEW r \in Good(c, synced), r.up # <<>>,
         NEW m \in FitMessages(r), m \in Answers(Head(r.up).id),
         m.type = "rejected" => Head(r.up).op = "watch",
         NEW b \in Conns, b.down = Append(c.down, m), WatchesFit(r, b)
  PROVE  [r EXCEPT !.up = Tail(@)] \in Good(b, synced)
<1>1. /\ r \in Remotes /\ r.ok /\ Wired(r, c) /\ Owed(r, c) /\ LastWord(r, c) /\ Marks(r, synced)
      /\ Idle(r) /\ Known(r) /\ Resolving(r)
  BY DEF Good, Sound, Wired
<1>2. r.open
  BY <1>1 DEF Wired, Closed
<1>3. /\ r.up \in Seq(FitRequests(r)) /\ r.up \in Seq(Requests) /\ r.next \in Nat
      /\ c.down \in Seq(FitMessages(r)) /\ c.down \in Seq(Messages)
  BY <1>1 DEF Wired, Fitting, Conns, Remotes
<1>4. PICK p, q, u : p = [r EXCEPT !.up = u] /\ u = Tail(r.up) /\ q = Head(r.up)
  OBVIOUS
<1>5. /\ u \in Seq(Requests) /\ u \in Seq(FitRequests(r)) /\ q \in Requests /\ q \in FitRequests(r)
      /\ q = r.up[1] /\ 1 \in DOMAIN r.up
      /\ \A i \in DOMAIN u : i \in Nat /\ i + 1 \in DOMAIN r.up /\ i + 1 > 1 /\ u[i] = r.up[i + 1]
  BY <1>3, <1>4, TailFacts
<1>6. /\ p \in Remotes /\ p.ok /\ p.up = u
      /\ p.open /\ p.listen = r.listen /\ p.targets = r.targets /\ p.resets = r.resets
      /\ p.resolutions = r.resolutions /\ p.byKey = r.byKey /\ p.next = r.next
  BY <1>1, <1>2, <1>4, <1>5 DEF Remotes, SameListens
<1>7. Closed(p, b) /\ Known(p) /\ Resolving(p)
  BY <1>1, <1>6 DEF Closed, Known, Resolving
<1>8. m \in Messages
  BY DEF FitMessages
<1>9. Fitting(p, b)
  <2>1. Follows(p, r)
    BY <1>3, <1>6 DEF Follows
  <2>2. FitRequests(r) \subseteq FitRequests(p) /\ FitMessages(r) \subseteq FitMessages(p)
    BY <1>1, <1>6, <2>1, FitFollows
  <2>3. b.down \in Seq(FitMessages(r))
    BY <1>3, AppendFacts
  <2>4. p.up \in Seq(FitRequests(p)) /\ b.down \in Seq(FitMessages(p))
    BY <1>5, <1>6, <2>2, <2>3, SeqGrows
  <2>. QED
    BY <1>6, <2>4 DEF Fitting, WatchesFit, Suits
<1>10. /\ \A i \in DOMAIN b.down : \/ i \in DOMAIN c.down /\ b.down[i] = c.down[i]
                                   \/ i = Len(c.down) + 1 /\ b.down[i] = m
       /\ \A i \in DOMAIN c.down : i \in Nat /\ i < Len(c.down) + 1
       /\ Len(c.down) \in Nat
  BY <1>3, <1>8, AppendFacts
<1>11. LastWord(p, b)
  <2>1. ASSUME NEW i \in DOMAIN u, NEW j \in DOMAIN u, u[i].op = "watch", u[i].id \in DOMAIN r.listen, j > i
        PROVE  u[j].id # u[i].id
    <3>1. /\ i + 1 \in DOMAIN r.up /\ u[i] = r.up[i + 1]
          /\ j + 1 \in DOMAIN r.up /\ u[j] = r.up[j + 1]
      BY <1>5
    <3>2. j + 1 > i + 1
      <4>1. i \in Nat /\ j \in Nat
        BY <1>5
      <4>. QED
        BY <2>1, <4>1
    <3>. QED
      BY <1>1, <2>1, <3>1, <3>2 DEF LastWord
  <2>2. ASSUME NEW i \in DOMAIN b.down, b.down[i].type = "rejected", b.down[i].id \in DOMAIN r.listen
        PROVE  /\ \A j \in DOMAIN u : u[j].id # b.down[i].id
               /\ \A j \in DOMAIN b.down : j > i => b.down[j] \notin Answers(b.down[i].id)
    <3>1. CASE i \in DOMAIN c.down /\ b.down[i] = c.down[i]
      <4>1. /\ \A j \in DOMAIN r.up : r.up[j].id # b.down[i].id
            /\ \A j \in DOMAIN c.down : j > i => c.down[j] \notin Answers(b.down[i].id)
        BY <1>1, <2>2, <3>1 DEF LastWord
      <4>2. q.id # b.down[i].id
        BY <1>5, <4>1
      <4>3. m \notin Answers(b.down[i].id)
        BY <1>4, <4>2 DEF Answers
      <4>4. \A j \in DOMAIN u : u[j].id # b.down[i].id
        BY <1>5, <4>1
      <4>. QED
        BY <1>10, <4>1, <4>3, <4>4
    <3>2. CASE i = Len(c.down) + 1 /\ b.down[i] = m
      <4>1. m.id = q.id /\ q.op = "watch"
        BY <1>4, <1>8, <2>2, <3>2, MessageFields
      <4>2. \A j \in DOMAIN r.up : j > 1 => r.up[j].id # q.id
        BY <1>1, <1>5, <2>2, <3>2, <4>1 DEF LastWord
      <4>3. \A j \in DOMAIN u : u[j].id # q.id
        BY <1>5, <4>2
      <4>4. \A j \in DOMAIN b.down : ~(j > i)
        BY <1>10, <3>2
      <4>. QED
        BY <3>2, <4>1, <4>3, <4>4
    <3>. QED
      BY <1>10, <3>1, <3>2
  <2>. QED
    BY <1>6, <2>1, <2>2 DEF LastWord
<1>12. Owed(p, b)
  <2>1. ASSUME NEW t \in Nat
        PROVE  Pending(p, b, t) = Pending(r, c, t)
    <3>1. PICK x, y, v, w : /\ x = Count(r.up, Requested(t)) /\ y = Count(u, Requested(t))
                            /\ v = Count(c.down, Answers(t)) /\ w = Count(b.down, Answers(t))
      OBVIOUS
    <3>2. x \in Nat /\ y \in Nat /\ v \in Nat /\ w \in Nat
      BY <1>1, <1>6, <3>1, PendingFacts
    <3>3. x = y + (IF q \in Requested(t) THEN 1 ELSE 0)
      BY <1>3, <1>4, <3>1, CountTail
    <3>4. w = v + (IF m \in Answers(t) THEN 1 ELSE 0)
      BY <1>3, <1>8, <3>1, CountAppend
    <3>5. q \in Requested(t) <=> m \in Answers(t)
      <4>1. q \in Requested(t) <=> q.id = t
        BY <1>5 DEF Requested
      <4>2. m \in Answers(t) <=> q.id = t
        BY <1>4 DEF Answers
      <4>. QED
        BY <4>1, <4>2
    <3>6. y + w = x + v
      BY <3>2, <3>3, <3>4, <3>5
    <3>. QED
      BY <1>6, <3>1, <3>6 DEF Pending
  <2>2. \A t : State(p, t) = State(r, t)
    BY <1>6 DEF State
  <2>. QED
    BY <1>1, <1>6, <2>1, <2>2 DEF Owed
<1>13. Marks(p, synced) /\ Idle(p)
  BY <1>1, <1>6 DEF Marks, Justified, KnownTo, Idle, State
<1>. QED
  BY <1>4, <1>6, <1>7, <1>9, <1>11, <1>12, <1>13 DEF Good, Sound, Wired

Servers == [docs : [Docs -> Versions], now : Tokens, acks : Maps(Docs, 1 .. MaxNow)]

\* A function on a finite set has finitely many values.
LEMMA FiniteImage ==
  ASSUME NEW S, IsFiniteSet(S), NEW f, DOMAIN f = S
  PROVE  IsFiniteSet({f[x] : x \in S})
<1>1. PICK T, g : T = {f[x] : x \in S} /\ g = [x \in S |-> f[x]]
  OBVIOUS
<1>2. g \in Surjection(S, T)
  BY <1>1 DEF Surjection
<1>. QED
  BY <1>1, <1>2, FS_Surjection

\* What a target watches: a limbo target one document.
LEMMA SuitsFacts ==
  ASSUME NEW r \in Remotes, NEW t, NEW key, Suits(r, t, key), NEW d, Watches(key, d)
  PROVE  /\ Suits(r, t, d)
         /\ t \in DOMAIN r.resolutions => d = key
<1>1. ASSUME t \in DOMAIN r.resolutions
      PROVE  key \in Docs /\ key = r.resolutions[t].key
  <2>1. r.resolutions \in Maps(Nat, Resolutions)
    BY DEF Remotes
  <2>2. r.resolutions[t] \in Resolutions
    BY <1>1, <2>1, MapFacts
  <2>. QED
    BY <1>1, <2>2 DEF Suits, Resolutions
<1>. QED
  BY <1>1, TargetsAssumption DEF Suits, Watches

\* Documents of a target are no answers, and fit it.
LEMMA DocumentMessageFits ==
  ASSUME server \in Servers, NEW r \in Remotes, NEW d \in Docs, NEW ids \in SUBSET Nat,
         \A t \in ids : t < r.next /\ Suits(r, t, d)
  PROVE  DocumentMessage(d, ids) \in Informs(r)
<1>1. PICK m : m = DocumentMessage(d, ids)
  OBVIOUS
<1>2. server.docs[d] \in Versions
  BY DEF Servers
<1>3. m = [type |-> "document", key |-> d, ids |-> ids, doc |-> server.docs[d]]
  BY <1>1 DEF DocumentMessage
<1>4. m \in [type : {"document"}, key : Docs, ids : SUBSET Nat, doc : Versions]
  BY <1>2, <1>3
<1>5. m \in Messages /\ m.type = "document" /\ m.key = d /\ m.ids = ids
  BY <1>3, <1>4 DEF Messages
<1>6. m \in FitMessages(r)
  BY <1>5 DEF FitMessages
<1>7. \A t : m \notin Answers(t)
  BY <1>5, MessageFields
<1>. QED
  BY <1>1, <1>6, <1>7 DEF Informs

\* The messages for a set of documents, for one target that fits them.
LEMMA DocumentsFit ==
  ASSUME server \in Servers, NEW r \in Remotes, NEW t \in Nat, t < r.next,
         NEW key, Suits(r, t, key), NEW ds \in SUBSET Docs, \A d \in ds : Watches(key, d)
  PROVE  Documents(t, ds) \in Seq(Informs(r))
<1>1. PICK f, S : f = [d \in ds |-> DocumentMessage(d, {t})] /\ S = {f[d] : d \in ds}
  OBVIOUS
<1>2. IsFiniteSet(ds)
  BY TargetsAssumption, FS_Subset
<1>3. IsFiniteSet(S)
  BY <1>1, <1>2, FiniteImage
<1>4. ASSUME NEW d \in ds
      PROVE  f[d] \in Informs(r)
  <2>1. Suits(r, t, d)
    BY SuitsFacts
  <2>2. DocumentMessage(d, {t}) \in Informs(r)
    BY <2>1, DocumentMessageFits
  <2>. QED
    BY <1>1, <2>2
<1>5. S \subseteq Informs(r)
  BY <1>1, <1>4
<1>6. S = {DocumentMessage(d, {t}) : d \in ds}
  BY <1>1
<1>7. Documents(t, ds) = SetToSeq(S)
  BY <1>6 DEF Documents
<1>. QED
  BY <1>3, <1>5, <1>7, SetToSeqFacts

\* The other messages the server sends about one target.
LEMMA MessagesFit ==
  ASSUME server \in Servers, NEW r \in Remotes, NEW t \in Nat, t < r.next
  PROVE  /\ [type |-> "current", id |-> t, token |-> server.now] \in Informs(r)
         /\ [type |-> "reset", id |-> t] \in Informs(r)
         /\ \A y \in {"added", "removed", "rejected"} :
              [type |-> y, id |-> t] \in FitMessages(r) /\ [type |-> y, id |-> t] \in Answers(t)
         /\ \A n \in Nat : (t \in DOMAIN r.resolutions => n <= 1)
              => [type |-> "filter", id |-> t, count |-> n] \in Informs(r)
<1>1. server.now \in Tokens
  BY DEF Servers
<1>2. [type |-> "current", id |-> t, token |-> server.now] \in Informs(r)
  <2>1. PICK m : m = [type |-> "current", id |-> t, token |-> server.now]
    OBVIOUS
  <2>2. m \in [type : {"current"}, id : Nat, token : Tokens] /\ m.type = "current" /\ m.id = t
    BY <1>1, <2>1
  <2>3. m \in Messages
    BY <2>2 DEF Messages
  <2>4. m \in FitMessages(r) /\ \A u : m \notin Answers(u)
    BY <2>2, <2>3, MessageFields DEF FitMessages
  <2>. QED
    BY <2>1, <2>4 DEF Informs
<1>3. [type |-> "reset", id |-> t] \in Informs(r)
  <2>1. PICK m : m = [type |-> "reset", id |-> t]
    OBVIOUS
  <2>2. m \in [type : {"added", "removed", "reset", "rejected"}, id : Nat] /\ m.type = "reset" /\ m.id = t
    BY <2>1
  <2>3. m \in Messages
    BY <2>2 DEF Messages
  <2>4. m \in FitMessages(r) /\ \A u : m \notin Answers(u)
    BY <2>2, <2>3, MessageFields DEF FitMessages
  <2>. QED
    BY <2>1, <2>4 DEF Informs
<1>4. ASSUME NEW y \in {"added", "removed", "rejected"}
      PROVE  [type |-> y, id |-> t] \in FitMessages(r) /\ [type |-> y, id |-> t] \in Answers(t)
  <2>1. PICK m : m = [type |-> y, id |-> t]
    OBVIOUS
  <2>2. m \in [type : {"added", "removed", "reset", "rejected"}, id : Nat] /\ m.type = y /\ m.id = t
    BY <2>1
  <2>3. m \in Messages
    BY <2>2 DEF Messages
  <2>4. m \in FitMessages(r)
    BY <2>2, <2>3 DEF FitMessages
  <2>5. m \in Answers(t)
    BY <2>2, <2>3, MessageFields
  <2>. QED
    BY <2>1, <2>4, <2>5
<1>5. ASSUME NEW n \in Nat, t \in DOMAIN r.resolutions => n <= 1
      PROVE  [type |-> "filter", id |-> t, count |-> n] \in Informs(r)
  <2>1. PICK m : m = [type |-> "filter", id |-> t, count |-> n]
    OBVIOUS
  <2>2. m \in [type : {"filter"}, id : Nat, count : Nat] /\ m.type = "filter" /\ m.id = t /\ m.count = n
    BY <2>1
  <2>3. m \in Messages
    BY <2>2 DEF Messages
  <2>4. m \in FitMessages(r) /\ \A u : m \notin Answers(u)
    BY <1>5, <2>2, <2>3, MessageFields DEF FitMessages
  <2>. QED
    BY <2>1, <2>4 DEF Informs
<1>. QED
  BY <1>2, <1>3, <1>4, <1>5

\* Sequences over a set put together.
LEMMA Joining ==
  ASSUME NEW S, NEW s \in Seq(S), NEW w \in Seq(S)
  PROVE  s \o w \in Seq(S)
OBVIOUS

\* A sequence of one element.
LEMMA Alone ==
  ASSUME NEW S, NEW x \in S
  PROVE  <<x>> \in Seq(S)
OBVIOUS

\* A sequence with one more element.
LEMMA Appending ==
  ASSUME NEW S, NEW s \in Seq(S), NEW x \in S
  PROVE  s \o <<x>> = Append(s, x) /\ Append(s, x) \in Seq(S)
OBVIOUS

\* The server answers the first request, and says ms besides.
LEMMA ServedSound ==
  ASSUME NEW c \in Conns, NEW synced, NEW r \in Good(c, synced), r.up # <<>>,
         NEW m \in FitMessages(r), m \in Answers(Head(r.up).id), m.type # "rejected",
         NEW ms \in Seq(Informs(r)),
         NEW b \in Conns, b.down = Append(c.down, m) \o ms, WatchesFit(r, b)
  PROVE  [r EXCEPT !.up = Tail(@)] \in Good(b, synced)
<1>1. r \in Remotes /\ Fitting(r, c) /\ r.open
  BY DEF Good, Sound, Wired, Closed
<1>2. PICK p, a, s : p = [r EXCEPT !.up = Tail(@)] /\ s = Append(c.down, m)
                     /\ a = [b EXCEPT !.down = s]
  OBVIOUS
<1>3. c.down \in Seq(Messages) /\ m \in Messages
  BY DEF Conns, FitMessages
<1>4. s \in Seq(Messages)
  BY <1>2, <1>3, AppendFacts
<1>5. a \in Conns /\ a.down = s /\ a.watched = b.watched
  BY <1>2, <1>4 DEF Conns
<1>6. WatchesFit(r, a)
  BY <1>5 DEF WatchesFit
<1>7. p \in Good(a, synced)
  BY <1>2, <1>5, <1>6, AnsweredSound
<1>8. p.open = r.open /\ p.next = r.next /\ p.resolutions = r.resolutions
  BY <1>1, <1>2 DEF Remotes
<1>9. ms \in Seq(Informs(p)) /\ WatchesFit(p, b)
  <2>1. Informs(p) = Informs(r)
    BY <1>8 DEF Informs, FitMessages, Suits
  <2>. QED
    BY <1>8, <2>1 DEF WatchesFit, Suits
<1>10. b.down = a.down \o ms
  BY <1>2, <1>5
<1>. QED
  BY <1>1, <1>2, <1>5, <1>7, <1>8, <1>9, <1>10, InformedSound

\* The server takes a request.
LEMMA ServeSound ==
  ASSUME conn \in Conns, server \in Servers, left \in FaultPlans,
         NEW synced, remote \in Good(conn, synced), Serve
  PROVE  conn' \in Conns /\ left' \in FaultPlans /\ remote' \in Good(conn', synced)
<1>1. remote \in Remotes /\ Fitting(remote, conn) /\ remote.up # <<>>
  BY DEF Good, Sound, Wired, Serve
<1>2. PICK q, t : q = Head(remote.up) /\ t = q.id
  OBVIOUS
<1>3. q \in FitRequests(remote) /\ q \in Requests /\ t \in Nat /\ t < remote.next
  <2>1. remote.up \in Seq(FitRequests(remote))
    BY <1>1 DEF Fitting
  <2>2. q \in FitRequests(remote)
    BY <1>1, <1>2, <2>1, TailFacts
  <2>. QED
    BY <1>2, <2>2 DEF FitRequests, Requests
<1>4. conn.down \in Seq(Messages) /\ conn.watched \in Maps(Nat, Versioned) /\ server.now \in Tokens
  BY DEF Conns, Servers
<1>5. WatchesFit(remote, conn)
  BY <1>1 DEF Fitting, WatchesFit
<1>6. /\ remote' = [remote EXCEPT !.up = Tail(@)]
  BY DEF Serve
<1>7. PICK exist, newer, N, added, removed, rejected, reset, current, filter :
         /\ exist = {d \in Exists(server.docs) : Watches(q.key, d)}
         /\ newer = {d \in Docs : Watches(q.key, d) /\ server.docs[d].ver > q.token}
         /\ N = Informs(remote)
         /\ added = [type |-> "added", id |-> t] /\ removed = [type |-> "removed", id |-> t]
         /\ rejected = [type |-> "rejected", id |-> t] /\ reset = [type |-> "reset", id |-> t]
         /\ current = [type |-> "current", id |-> t, token |-> server.now]
         /\ filter = [type |-> "filter", id |-> t, count |-> Cardinality(exist)]
  OBVIOUS
<1>8. exist \in SUBSET Docs /\ newer \in SUBSET Docs
      /\ (\A d \in exist : Watches(q.key, d)) /\ (\A d \in newer : Watches(q.key, d))
  BY <1>7 DEF Exists
<1>9. CASE q.op = "unwatch"
  <2>1. conn' = [conn EXCEPT !.watched = Without(@, t), !.down = @ \o <<removed>>]
        /\ left' = left
    BY <1>2, <1>7, <1>9 DEF Serve
  <2>2. removed \in FitMessages(remote) /\ removed \in Answers(t) /\ removed \in Messages
    BY <1>1, <1>3, <1>7, MessagesFit DEF FitMessages
  <2>3. PICK w, s : w = Without(conn.watched, t) /\ s = Append(conn.down, removed)
    OBVIOUS
  <2>4. w \in Maps(Nat, Versioned) /\ Dropping(w, conn.watched, t)
    BY <1>4, <2>3, WithoutFacts
  <2>5. conn.down \o <<removed>> = s /\ s \in Seq(Messages)
    BY <1>4, <2>2, <2>3, Appending
  <2>6. conn' = [conn EXCEPT !.watched = w, !.down = s]
    BY <2>1, <2>3, <2>5
  <2>7. conn' \in Conns /\ conn'.watched = w /\ conn'.down = s
    BY <2>4, <2>5, <2>6 DEF Conns
  <2>8. WatchesFit(remote, conn')
    BY <1>5, <2>4, <2>7 DEF WatchesFit, Dropping
  <2>9. removed.type # "rejected"
    BY <1>7
  <2>. QED
    BY <1>1, <1>2, <1>6, <2>1, <2>2, <2>3, <2>7, <2>8, <2>9, AnsweredSound
<1>10. CASE q.op = "watch" /\ conn' = [conn EXCEPT !.down = @ \o <<rejected>>]
                          /\ left.rejects > 0 /\ left' = [left EXCEPT !.rejects = @ - 1]
  <2>1. rejected \in FitMessages(remote) /\ rejected \in Answers(t) /\ rejected \in Messages
    BY <1>1, <1>3, <1>7, MessagesFit DEF FitMessages
  <2>2. PICK s : s = Append(conn.down, rejected)
    OBVIOUS
  <2>3. conn.down \o <<rejected>> = s /\ s \in Seq(Messages)
    BY <1>4, <2>1, <2>2, Appending
  <2>4. conn' \in Conns /\ conn'.watched = conn.watched /\ conn'.down = s
    BY <1>10, <2>3 DEF Conns
  <2>5. WatchesFit(remote, conn')
    BY <1>5, <2>4 DEF WatchesFit
  <2>6. left' \in FaultPlans
    BY <1>10 DEF FaultPlans
  <2>. QED
    BY <1>1, <1>2, <1>6, <1>10, <2>1, <2>2, <2>4, <2>5, <2>6, AnsweredSound
<1>11. ASSUME q.op = "watch", left' = left, NEW ms \in Seq(N),
              conn' = [conn EXCEPT !.down = @ \o <<added>> \o ms, !.told = FALSE,
                         !.watched = With(@, t, [key |-> q.key, sent |-> server.now])]
       PROVE  conn' \in Conns /\ left' \in FaultPlans /\ remote' \in Good(conn', synced)
  <2>1. added \in FitMessages(remote) /\ added \in Answers(t) /\ added \in Messages
    BY <1>1, <1>3, <1>7, MessagesFit DEF FitMessages
  <2>2. PICK v, w, s : /\ v = [key |-> q.key, sent |-> server.now]
                       /\ w = With(conn.watched, t, v) /\ s = Append(conn.down, added) \o ms
    OBVIOUS
  <2>3. v \in Versioned /\ v.key = q.key
    BY <1>3, <1>4, <2>2 DEF Versioned, Requests, Keys
  <2>4. w \in Maps(Nat, Versioned) /\ Maplet(w, conn.watched, t, v)
    BY <1>3, <1>4, <2>2, <2>3, WithFacts
  <2>5. conn.down \o <<added>> = Append(conn.down, added) /\ Append(conn.down, added) \in Seq(Messages)
    BY <1>4, <2>1, Appending
  <2>6. ms \in Seq(Messages)
    <3>1. N \subseteq Messages
      BY <1>7 DEF Informs, FitMessages
    <3>. QED
      BY <3>1, SeqGrows
  <2>7. s \in Seq(Messages)
    BY <2>2, <2>5, <2>6, Joining
  <2>8. conn' = [conn EXCEPT !.down = s, !.told = FALSE, !.watched = w]
    BY <1>11, <2>2, <2>5
  <2>9. conn' \in Conns /\ conn'.watched = w /\ conn'.down = s
    BY <2>4, <2>7, <2>8 DEF Conns
  <2>10. WatchesFit(remote, conn')
    <3>1. Suits(remote, t, q.key)
      BY <1>2, <1>3, <1>11 DEF FitRequests
    <3>. QED
      BY <1>3, <1>5, <2>3, <2>4, <2>9, <3>1 DEF WatchesFit, Maplet
  <2>11. added.type # "rejected"
    BY <1>7
  <2>. QED
    BY <1>1, <1>2, <1>6, <1>7, <1>11, <2>1, <2>2, <2>9, <2>10, <2>11, ServedSound
<1>12. CASE q.op = "watch" /\ left' = left
  <2>1. Suits(remote, t, q.key)
    BY <1>2, <1>3, <1>12 DEF FitRequests
  <2>2. \A ds \in SUBSET Docs : (\A d \in ds : Watches(q.key, d)) => Documents(t, ds) \in Seq(N)
    BY <1>1, <1>3, <1>7, <2>1, DocumentsFit
  <2>3. newer \cap exist \in SUBSET Docs /\ \A d \in newer \cap exist : Watches(q.key, d)
    BY <1>8
  <2>4. PICK a, n, x : a = Documents(t, exist) /\ n = Documents(t, newer) /\ x = Documents(t, newer \cap exist)
    OBVIOUS
  <2>5. a \in Seq(N) /\ n \in Seq(N) /\ x \in Seq(N)
    BY <1>8, <2>2, <2>3, <2>4
  <2>6. <<current>> \in Seq(N) /\ <<reset>> \in Seq(N)
    <3>1. current \in N /\ reset \in N
      BY <1>1, <1>3, <1>7, MessagesFit
    <3>. QED
      BY <3>1, Alone
  <2>7. <<filter>> \in Seq(N)
    <3>1. IsFiniteSet(exist)
      BY <1>8, TargetsAssumption, FS_Subset
    <3>2. Cardinality(exist) \in Nat
      BY <3>1, FS_CardinalityType
    <3>3. ASSUME t \in DOMAIN remote.resolutions
          PROVE  Cardinality(exist) <= 1
      <4>1. exist \subseteq {q.key}
        <5>1. \A d \in exist : d = q.key
          BY <1>1, <1>8, <2>1, <3>3, SuitsFacts
        <5>. QED
          BY <5>1
      <4>2. IsFiniteSet({q.key}) /\ Cardinality({q.key}) = 1
        BY FS_Singleton
      <4>. QED
        BY <4>1, <4>2, FS_Subset
    <3>4. PICK k \in Nat : k = Cardinality(exist)
      BY <3>2
    <3>5. [type |-> "filter", id |-> t, count |-> k] \in N
      BY <1>1, <1>3, <1>7, <3>3, <3>4, MessagesFit
    <3>. QED
      BY <1>7, <3>4, <3>5, Alone
  <2>8. a \o <<current>> \in Seq(N) /\ n \o <<current>> \in Seq(N) /\ x \o <<current>> \in Seq(N)
    BY <2>5, <2>6, Joining
  <2>9. x \o <<current>> \o <<filter>> \in Seq(N)
    BY <2>7, <2>8, Joining
  <2>10. <<reset>> \o a \o <<current>> \in Seq(N)
    <3>1. <<reset>> \o a \in Seq(N)
      BY <2>5, <2>6, Joining
    <3>. QED
      BY <2>6, <3>1, Joining
  <2>11. ~(left' = [left EXCEPT !.rejects = @ - 1] /\ left.rejects > 0)
    BY <1>12 DEF FaultPlans
  <2>12. \E ms \in {a \o <<current>>, n \o <<current>>, x \o <<current>> \o <<filter>>,
                    <<reset>> \o a \o <<current>>} :
            conn' = [conn EXCEPT !.down = @ \o <<added>> \o ms, !.told = FALSE,
                       !.watched = With(@, t, [key |-> q.key, sent |-> server.now])]
    BY <1>2, <1>7, <1>12, <2>4, <2>11 DEF Serve
  <2>. QED
    BY <1>11, <1>12, <2>8, <2>9, <2>10, <2>12
<1>13. \/ q.op = "unwatch"
       \/ q.op = "watch" /\ left' = left
       \/ /\ q.op = "watch" /\ conn' = [conn EXCEPT !.down = @ \o <<rejected>>]
          /\ left.rejects > 0 /\ left' = [left EXCEPT !.rejects = @ - 1]
  BY <1>2, <1>7 DEF Serve
<1>. QED
  BY <1>9, <1>10, <1>12, <1>13

\* Sequences may be put together in any grouping.
LEMMA Associates ==
  ASSUME NEW S, NEW a \in Seq(S), NEW b \in Seq(S), NEW e \in Seq(S)
  PROVE  a \o b \o e = a \o (b \o e)
  OBVIOUS

\* The server brings its targets up to date.
LEMMA SendSnapshotSound ==
  ASSUME conn \in Conns, server \in Servers,
         NEW synced, remote \in Good(conn, synced), SendSnapshot
  PROVE  conn' \in Conns /\ remote \in Good(conn', synced)
<1>1. remote \in Remotes /\ Fitting(remote, conn) /\ Closed(remote, conn)
  BY DEF Good, Sound, Wired
<1>2. /\ conn.down \in Seq(Messages) /\ conn.watched \in Maps(Nat, Versioned)
      /\ server.now \in Tokens
  BY DEF Conns, Servers
<1>3. remote.open
  <2>1. conn.watched # <<>>
    BY DEF SendSnapshot
  <2>2. DOMAIN conn.watched # {}
    <3>1. conn.watched = [x \in DOMAIN conn.watched |-> conn.watched[x]]
      BY <1>2, MapFacts
    <3>2. ASSUME DOMAIN conn.watched = {}
          PROVE  FALSE
      <4>1. conn.watched = [x \in {} |-> conn.watched[x]]
        BY <3>1, <3>2
      <4>. QED
        BY <2>1, <4>1
    <3>. QED
      BY <3>2
  <2>. QED
    BY <1>1, <2>2 DEF Closed
<1>4. PICK ids, f, S, w, m :
         /\ ids = [d \in Docs |-> {t \in DOMAIN conn.watched : Lacks(t, d)}]
         /\ f = [d \in Behind |-> DocumentMessage(d, ids[d])]
         /\ S = {f[d] : d \in Behind}
         /\ w = [t \in DOMAIN conn.watched |-> [conn.watched[t] EXCEPT !.sent = server.now]]
         /\ m = [type |-> "snapshot", ver |-> server.now, docs |-> Exists(server.docs)]
  OBVIOUS
<1>5. Behind \subseteq Docs /\ IsFiniteSet(Behind)
  BY TargetsAssumption, FS_Subset DEF Behind
<1>6. DOMAIN conn.watched \subseteq Nat /\ \A t \in DOMAIN conn.watched : conn.watched[t] \in Versioned
  BY <1>2, MapFacts
<1>7. ASSUME NEW d \in Behind
      PROVE  f[d] \in Informs(remote)
  <2>1. d \in Docs /\ ids[d] = {t \in DOMAIN conn.watched : Lacks(t, d)} /\ ids[d] \in SUBSET Nat
    BY <1>4, <1>5, <1>6
  <2>2. ASSUME NEW t \in ids[d]
        PROVE  t < remote.next /\ Suits(remote, t, d)
    <3>1. t \in DOMAIN conn.watched /\ Watches(conn.watched[t].key, d)
      BY <2>1 DEF Lacks
    <3>2. t < remote.next /\ Suits(remote, t, conn.watched[t].key)
      BY <1>1, <3>1 DEF Fitting
    <3>. QED
      BY <1>1, <3>1, <3>2, SuitsFacts
  <2>3. DocumentMessage(d, ids[d]) \in Informs(remote)
    BY <1>1, <2>1, <2>2, DocumentMessageFits
  <2>. QED
    BY <1>4, <2>3
<1>8. SetToSeq(S) \in Seq(Informs(remote))
  <2>1. S \subseteq Informs(remote)
    BY <1>4, <1>7
  <2>2. PICK B : B = Behind
    OBVIOUS
  <2>3. IsFiniteSet(B) /\ DOMAIN f = B /\ S = {f[d] : d \in B}
    BY <1>4, <1>5, <2>2
  <2>4. IsFiniteSet({f[d] : d \in B})
    BY <2>3, FiniteImage
  <2>. QED
    BY <2>1, <2>3, <2>4, SetToSeqFacts
<1>9. m \in Informs(remote)
  <2>1. Exists(server.docs) \in SUBSET Docs
    BY DEF Exists
  <2>2. m \in [type : {"snapshot"}, ver : Tokens, docs : SUBSET Docs] /\ m.type = "snapshot"
    BY <1>2, <1>4, <2>1
  <2>3. m \in Messages
    BY <2>2 DEF Messages
  <2>4. m \in FitMessages(remote) /\ \A t : m \notin Answers(t)
    BY <2>2, <2>3, MessageFields DEF FitMessages
  <2>. QED
    BY <2>4 DEF Informs
<1>10. PICK ms : ms = SetToSeq(S) \o <<m>>
  OBVIOUS
<1>11. ms \in Seq(Informs(remote))
  BY <1>8, <1>9, <1>10, Alone, Joining
<1>12. S = {DocumentMessage(d, {t \in DOMAIN conn.watched : Lacks(t, d)}) : d \in Behind}
  BY <1>4, <1>5
<1>13. conn' = [watched |-> w, down |-> conn.down \o SetToSeq(S) \o <<m>>, told |-> TRUE]
  BY <1>4, <1>12 DEF SendSnapshot
<1>14. SetToSeq(S) \in Seq(Messages) /\ <<m>> \in Seq(Messages) /\ ms \in Seq(Messages)
  <2>1. Informs(remote) \subseteq Messages
    BY DEF Informs, FitMessages
  <2>2. <<m>> \in Seq(Informs(remote))
    BY <1>9, Alone
  <2>. QED
    BY <1>8, <1>11, <2>1, <2>2, SeqGrows
<1>15. conn.down \o SetToSeq(S) \o <<m>> = conn.down \o ms
  <2>1. PICK a, b, e : a = conn.down /\ b = SetToSeq(S) /\ e = <<m>>
    OBVIOUS
  <2>2. a \in Seq(Messages) /\ b \in Seq(Messages) /\ e \in Seq(Messages)
    BY <1>2, <1>14, <2>1
  <2>3. a \o b \o e = a \o (b \o e)
    BY <2>2, Associates
  <2>. QED
    BY <1>10, <2>1, <2>3
<1>16. w \in Maps(Nat, Versioned) /\ DOMAIN w = DOMAIN conn.watched
       /\ \A t \in DOMAIN w : w[t].key = conn.watched[t].key
  <2>1. w = [t \in DOMAIN w |-> w[t]] /\ DOMAIN w = DOMAIN conn.watched
    BY <1>4
  <2>2. \A t \in DOMAIN conn.watched : w[t] \in Versioned /\ w[t].key = conn.watched[t].key
    BY <1>2, <1>4, <1>6 DEF Versioned
  <2>. QED
    BY <1>6, <2>1, <2>2, MapFacts
<1>17. conn.down \o ms \in Seq(Messages)
  BY <1>2, <1>14, Joining
<1>18. conn' \in Conns /\ conn'.watched = w /\ conn'.down = conn.down \o ms
  BY <1>13, <1>15, <1>16, <1>17 DEF Conns
<1>19. WatchesFit(remote, conn')
  BY <1>1, <1>16, <1>18 DEF Fitting, WatchesFit
<1>. QED
  BY <1>3, <1>11, <1>18, <1>19, InformedSound

\* The client takes a message.
LEMMA ReceiveSound ==
  ASSUME conn \in Conns, view \in Views, store \in Stores,
         remote \in Good(conn, view.synced), Receive
  PROVE  /\ conn' \in Conns /\ view' \in Views /\ store' \in Stores /\ store'.mine = store.mine
         /\ remote' \in Good(conn', view'.synced)
<1>1. remote \in Remotes /\ Wired(remote, conn) /\ conn.down # <<>> /\ view.synced \subseteq Docs
  BY DEF Good, Sound, Receive, Views
<1>2. PICK m, b, synced : m = Head(conn.down) /\ b = Delivered(conn) /\ synced = view.synced
  OBVIOUS
<1>3. /\ b \in Conns /\ remote.open /\ m \in FitMessages(remote) /\ m \in Messages
      /\ Resolving(remote)
  BY <1>1, <1>2, DeliveredWired DEF Wired
<1>4. conn' = b
  BY <1>2 DEF Receive, Delivered
<1>5. ASSUME m.type \in {"document", "current", "reset", "filter"}
      PROVE  remote \in Good(b, synced)
  <2>1. \A t \in Nat : m \notin Answers(t)
    BY <1>3, <1>5, MessageFields
  <2>. QED
    BY <1>1, <1>2, <2>1, DeliveredSound
<1>6. ASSUME view' = view, store' = store, remote' \in Good(b, synced)
      PROVE  /\ conn' \in Conns /\ view' \in Views /\ store' \in Stores /\ store'.mine = store.mine
             /\ remote' \in Good(conn', view'.synced)
  BY <1>2, <1>3, <1>4, <1>6
<1>7. CASE m.type = "document" /\ remote' = HandleDocumentChange(remote, m.ids, m.key, m.doc)
           /\ view' = view /\ store' = store
  <2>1. PICK ids, d, doc : ids = m.ids /\ d = m.key /\ doc = m.doc
    OBVIOUS
  <2>2. d \in Docs /\ ids \subseteq Nat /\ doc \in Versions
    BY <1>3, <1>7, <2>1, MessageFields
  <2>3. ASSUME NEW t \in ids, IsActive(remote, t), t # Query
        PROVE  remote.listen[t].key = d
    <3>1. Suits(remote, t, d)
      BY <1>3, <1>7, <2>1 DEF FitMessages
    <3>2. t \in DOMAIN remote.resolutions /\ remote.listen[t].key = remote.resolutions[t].key
      BY <1>3, <2>3 DEF Resolving, IsActive
    <3>. QED
      BY <3>1, <3>2 DEF Suits
  <2>4. remote \in Good(b, view.synced)
    BY <1>2, <1>5, <1>7
  <2>5. HandleDocumentChange(remote, ids, d, doc) \in Good(b, view.synced)
    BY <1>1, <1>3, <2>2, <2>3, <2>4, HandleDocumentChangeSound
  <2>. QED
    BY <1>2, <1>6, <1>7, <2>1, <2>5
<1>8. CASE m.type = "added" /\ remote' = TargetAdded(remote, m.id) /\ view' = view /\ store' = store
  <2>1. m.id \in Nat /\ m \in Answers(m.id)
    BY <1>3, <1>8, MessageFields
  <2>2. TargetAdded(remote, m.id) \in Good(b, synced)
    BY <1>1, <1>2, <2>1, TargetAddedSound
  <2>. QED
    BY <1>6, <1>8, <2>2
<1>9. CASE m.type = "removed" /\ remote' = TargetRemoved(remote, m.id) /\ view' = view /\ store' = store
  <2>1. m.id \in Nat /\ m \in Answers(m.id)
    BY <1>3, <1>9, MessageFields
  <2>2. TargetRemoved(remote, m.id) \in Good(b, synced)
    BY <1>1, <1>2, <2>1, TargetRemovedSound
  <2>. QED
    BY <1>6, <1>9, <2>2
<1>10. CASE m.type = "current" /\ remote' = TargetCurrent(remote, m.id, m.token)
            /\ view' = view /\ store' = store
  <2>1. m.token \in Tokens
    BY <1>3, <1>10, MessageFields
  <2>2. TargetCurrent(remote, m.id, m.token) \in Good(b, synced)
    BY <1>3, <1>5, <1>10, <2>1, TargetCurrentSound
  <2>. QED
    BY <1>6, <1>10, <2>2
<1>11. CASE m.type = "reset" /\ remote' = TargetReset(remote, m.id) /\ view' = view /\ store' = store
  <2>1. remote \in Good(b, view.synced)
    BY <1>2, <1>5, <1>11
  <2>2. IsActive(remote, m.id) => ResetTarget(remote, m.id) \in Good(b, view.synced)
    BY <1>1, <1>3, <2>1, ResetTargetSound
  <2>3. TargetReset(remote, m.id) \in Good(b, synced)
    BY <1>2, <2>1, <2>2 DEF TargetReset
  <2>. QED
    BY <1>6, <1>11, <2>3
<1>12. CASE m.type = "filter" /\ remote' = HandleExistenceFilter(remote, m.id, m.count)
            /\ view' = view /\ store' = store
  <2>1. m.count \in Nat /\ (m.id \in DOMAIN remote.resolutions => m.count <= 1)
    BY <1>3, <1>12, MessageFields DEF FitMessages
  <2>2. remote \in Good(b, view.synced)
    BY <1>2, <1>5, <1>12
  <2>3. HandleExistenceFilter(remote, m.id, m.count) \in Good(b, view.synced)
    BY <1>1, <1>3, <2>1, <2>2, HandleExistenceFilterSound
  <2>. QED
    BY <1>2, <1>6, <1>12, <2>3
<1>13. CASE m.type = "snapshot" /\ Snapshot(m)
  <2>1. view' \in Views /\ store' \in Stores /\ store'.mine = store.mine
        /\ remote' \in Good(Delivered(conn), view'.synced)
    BY <1>1, <1>2, <1>13, SnapshotSound
  <2>. QED
    BY <1>2, <1>3, <1>4, <2>1
<1>14. CASE m.type = "rejected" /\ HandleRejectedListen(m.id)
  <2>1. view' \in Views /\ store' \in Stores /\ store'.mine = store.mine
        /\ remote' \in Good(Delivered(conn), view'.synced)
    BY <1>1, <1>2, <1>14, RejectedSound
  <2>. QED
    BY <1>2, <1>3, <1>4, <2>1
<1>15. \/ m.type = "document" /\ remote' = HandleDocumentChange(remote, m.ids, m.key, m.doc)
          /\ view' = view /\ store' = store
       \/ m.type = "added" /\ remote' = TargetAdded(remote, m.id) /\ view' = view /\ store' = store
       \/ m.type = "removed" /\ remote' = TargetRemoved(remote, m.id) /\ view' = view /\ store' = store
       \/ m.type = "current" /\ remote' = TargetCurrent(remote, m.id, m.token)
          /\ view' = view /\ store' = store
       \/ m.type = "reset" /\ remote' = TargetReset(remote, m.id) /\ view' = view /\ store' = store
       \/ m.type = "filter" /\ remote' = HandleExistenceFilter(remote, m.id, m.count)
          /\ view' = view /\ store' = store
       \/ m.type = "snapshot" /\ Snapshot(m)
       \/ m.type = "rejected" /\ HandleRejectedListen(m.id)
  BY <1>2 DEF Receive
<1>. QED
  BY <1>7, <1>8, <1>9, <1>10, <1>11, <1>12, <1>13, <1>14, <1>15

-----------------------------------------------------------------------------
(* The invariant                                                           *)

\* Own writes the server has not committed; the bound on its changes has room for them.
Unsent == {d \in store.mine : server.docs[d].ver = 0}

IInv ==
    /\ server \in Servers /\ conn \in Conns /\ view \in Views /\ store \in Stores
    /\ left \in FaultPlans
    /\ server.now + Cardinality(Unsent) <= MaxNow
    /\ remote \in Good(conn, view.synced)

\* Sets of documents are finite, and counted.
LEMMA DocsFinite ==
  ASSUME NEW A \in SUBSET Docs
  PROVE  /\ IsFiniteSet(A) /\ Cardinality(A) \in Nat
         /\ \A B \in SUBSET A : Cardinality(B) \in Nat /\ Cardinality(B) <= Cardinality(A)
         /\ \A d \in A : Cardinality(A \ {d}) = Cardinality(A) - 1
<1>1. IsFiniteSet(Docs)
  BY TargetsAssumption
<1>2. IsFiniteSet(A) /\ Cardinality(A) \in Nat
  BY <1>1, FS_Subset, FS_CardinalityType
<1>3. ASSUME NEW B \in SUBSET A
      PROVE  Cardinality(B) \in Nat /\ Cardinality(B) <= Cardinality(A)
  BY <1>2, FS_Subset, FS_CardinalityType
<1>4. ASSUME NEW d \in A
      PROVE  Cardinality(A \ {d}) = Cardinality(A) - 1
  BY <1>2, FS_RemoveElement
<1>. QED
  BY <1>2, <1>3, <1>4

\* A document of the server is written.
LEMMA StoreTyped ==
  ASSUME server \in Servers, NEW d \in Docs, server.now < MaxNow, NEW e \in BOOLEAN
  PROVE  /\ Store(d, [ver |-> server.now + 1, exists |-> e]) \in Servers
         /\ Store(d, [ver |-> server.now + 1, exists |-> e]).now = server.now + 1
         /\ Store(d, [ver |-> server.now + 1, exists |-> e]).acks = server.acks
         /\ \A x \in Docs : Store(d, [ver |-> server.now + 1, exists |-> e]).docs[x].ver
                            = IF x = d THEN server.now + 1 ELSE server.docs[x].ver
<1>1. server.now \in Nat /\ server.docs \in [Docs -> Versions] /\ server.acks \in Maps(Docs, 1 .. MaxNow)
      /\ MaxNow \in Nat
  BY TargetsAssumption DEF Servers, Tokens
<1>2. PICK n, doc : n = server.now + 1 /\ doc = [ver |-> n, exists |-> e]
  OBVIOUS
<1>3. n \in Tokens /\ doc \in Versions /\ doc.ver = n
  BY <1>1, <1>2 DEF Tokens, Versions
<1>4. PICK docs : docs = [server.docs EXCEPT ![d] = doc]
  OBVIOUS
<1>5. docs \in [Docs -> Versions] /\ \A x \in Docs : docs[x] = IF x = d THEN doc ELSE server.docs[x]
  BY <1>1, <1>3, <1>4
<1>6. Store(d, doc) = [server EXCEPT !.docs = docs, !.now = n]
  BY <1>2, <1>4 DEF Store
<1>7. /\ Store(d, doc) \in Servers /\ Store(d, doc).now = n /\ Store(d, doc).acks = server.acks
      /\ Store(d, doc).docs = docs
  BY <1>1, <1>3, <1>5, <1>6 DEF Servers
<1>. QED
  BY <1>2, <1>3, <1>5, <1>7

\* The first state.
LEMMA InitSound == Init => IInv
<1>1. ASSUME Init PROVE IInv
  <2>1. MaxNow \in Nat /\ MaxNow >= 1
    BY TargetsAssumption
  <2>2. 0 \in Tokens /\ 1 \in Tokens
    BY <2>1 DEF Tokens
  <2>3. None \in Versions /\ [ver |-> 1, exists |-> TRUE] \in Versions
    BY <2>2 DEF None, Versions, Tokens
  <2>4. <<>> \in Maps(Docs, 1 .. MaxNow)
    BY EmptyMap
  <2>5. server \in Servers /\ server.now = 1
    <3>1. PICK docs, s :
             /\ s \in SUBSET Docs
             /\ docs = [d \in Docs |-> IF d \in s THEN [ver |-> 1, exists |-> TRUE] ELSE None]
             /\ server = [docs |-> docs, now |-> 1, acks |-> <<>>]
      BY <1>1 DEF Init
    <3>2. docs \in [Docs -> Versions]
      BY <2>3, <3>1
    <3>. QED
      BY <2>2, <2>4, <3>1, <3>2 DEF Servers
  <2>6. conn \in Conns
    BY <1>1, NoStreamTyped DEF Init
  <2>7. view \in Views
    BY <1>1 DEF Init, Views
  <2>8. store \in Stores /\ store.mine = {}
    <3>1. PICK cache : cache = [d \in Docs |-> None]
      OBVIOUS
    <3>2. cache \in [Docs -> Versions]
      BY <2>3, <3>1
    <3>3. store = [cache |-> cache, committed |-> {}, mine |-> {}, snapshot |-> {}, token |-> 0]
      BY <1>1, <3>1 DEF Init
    <3>. QED
      BY <2>2, <3>2, <3>3 DEF Stores
  <2>9. left \in FaultPlans
    BY <1>1, TargetsAssumption DEF Init
  <2>10. Cardinality(Unsent) = 0
    <3>1. Unsent = {}
      BY <2>8 DEF Unsent
    <3>. QED
      BY <3>1, FS_EmptySet
  <2>11. remote \in Good(conn, view.synced)
    <3>1. Listening(0) \in Good(NoStream, view.synced)
      BY <2>2, ListeningSound
    <3>. QED
      BY <1>1, <3>1 DEF Init
  <2>12. server.now + Cardinality(Unsent) <= MaxNow
    BY <2>1, <2>5, <2>10
  <2>. QED
    BY <2>5, <2>6, <2>7, <2>8, <2>9, <2>11, <2>12 DEF IInv
<1>. QED
  BY <1>1

\* The server's changes stay within their bound when none is made and no own
\* write is added.
LEMMA RoomStays ==
  ASSUME IInv, server'.docs = server.docs, server'.now = server.now, store'.mine \subseteq store.mine
  PROVE  server'.now + Cardinality(Unsent') <= MaxNow
<1>1. Unsent \in SUBSET Docs /\ Unsent' \in SUBSET Unsent
  BY DEF IInv, Stores, Unsent
<1>2. PICK u, v, n : u = Cardinality(Unsent) /\ v = Cardinality(Unsent') /\ n = server.now
  OBVIOUS
<1>3. u \in Nat /\ v \in Nat /\ v <= u
  BY <1>1, <1>2, DocsFinite
<1>4. n \in Nat /\ n + u <= MaxNow /\ MaxNow \in Nat
  BY <1>2, TargetsAssumption DEF IInv, Servers, Tokens
<1>5. n + v <= MaxNow
  BY <1>3, <1>4
<1>. QED
  BY <1>2, <1>5

\* An own write adds one change the server has room for.
LEMMA SendMessageSound ==
  ASSUME IInv, NEW d \in Docs, SendMessage(d)
  PROVE  IInv'
<1>1. PICK v, s : v = [view EXCEPT !.own = @ \cup {d}] /\ s = [store EXCEPT !.mine = @ \cup {d}]
  OBVIOUS
<1>2. Emit(remote, v, s) /\ UNCHANGED <<server, conn, left>> /\ Room
  BY <1>1 DEF SendMessage
<1>3. v \in Views /\ v.synced = view.synced
  BY <1>1 DEF IInv, Views
<1>4. s \in Stores /\ s.mine = store.mine \cup {d} /\ store.mine \in SUBSET Docs
  BY <1>1 DEF IInv, Stores
<1>5. conn \in Conns /\ remote \in Good(conn, v.synced)
  BY <1>3 DEF IInv
<1>6. view' \in Views /\ store' = s /\ remote' \in Good(conn, view'.synced)
  BY <1>2, <1>3, <1>4, <1>5, EmitSound
<1>7. server'.now + Cardinality(Unsent') <= MaxNow
  <2>1. PICK A, u, w, n : A = Unsent' /\ u = Cardinality(Unsent) /\ w = Cardinality(Unsent')
                          /\ n = server.now
    OBVIOUS
  <2>2. Unsent' \in SUBSET Docs /\ Unsent' \ {d} \in SUBSET Unsent /\ Unsent \in SUBSET Docs
    BY <1>2, <1>4, <1>6 DEF Unsent
  <2>3. A \in SUBSET Docs /\ w = Cardinality(A) /\ A \ {d} \in SUBSET Unsent
    BY <2>1, <2>2
  <2>4. w \in Nat /\ (d \in A => Cardinality(A \ {d}) = w - 1)
    BY <2>3, DocsFinite
  <2>5. u \in Nat /\ Cardinality(A \ {d}) \in Nat /\ Cardinality(A \ {d}) <= u
    BY <2>1, <2>2, <2>3, DocsFinite
  <2>6. d \notin A => A \ {d} = A
    OBVIOUS
  <2>7. w <= u + 1
    BY <2>3, <2>4, <2>5, <2>6
  <2>8. n + u < MaxNow /\ n \in Nat /\ MaxNow \in Nat
    BY <1>2, <2>1, TargetsAssumption DEF IInv, Servers, Tokens, Room, Unsent
  <2>9. n + w <= MaxNow
    BY <2>4, <2>5, <2>7, <2>8
  <2>. QED
    BY <1>2, <2>1, <2>9
<1>. QED
  BY <1>2, <1>4, <1>6, <1>7 DEF IInv

\* An acknowledged write leaves the pending ones.
LEMMA WriteAcknowledgedSound ==
  ASSUME IInv, NEW d \in Docs, WriteAcknowledged(d)
  PROVE  IInv'
<1>1. server \in Servers /\ view \in Views /\ store \in Stores /\ conn \in Conns
      /\ remote \in Good(conn, view.synced) /\ d \in DOMAIN server.acks
  BY DEF IInv, WriteAcknowledged
<1>2. PICK done, acks : done = [store EXCEPT !.mine = @ \ {d}] /\ acks = Without(server.acks, d)
  OBVIOUS
<1>3. done \in Stores /\ done.mine = store.mine \ {d} /\ done.committed \in SUBSET Docs
      /\ done.cache \in [Docs -> Versions]
  BY <1>1, <1>2 DEF Stores
<1>4. server' = [server EXCEPT !.acks = acks] /\ UNCHANGED <<conn, left>>
  BY <1>2 DEF WriteAcknowledged
<1>5. acks \in Maps(Docs, 1 .. MaxNow) /\ server.acks[d] \in 1 .. MaxNow
  BY <1>1, <1>2, WithoutFacts, MapFacts DEF Servers
<1>6. server' \in Servers /\ server'.now = server.now /\ server'.docs = server.docs
  BY <1>1, <1>4, <1>5 DEF Servers
<1>7. ASSUME NEW v \in Views, v.synced = view.synced, NEW s \in Stores, s.mine = done.mine,
             Emit(remote, v, s)
      PROVE  IInv'
  <2>1. remote \in Good(conn, v.synced)
    BY <1>1, <1>7
  <2>2. view' \in Views /\ store' = s /\ remote' \in Good(conn, view'.synced)
    BY <1>1, <1>7, <2>1, EmitSound
  <2>3. store'.mine \subseteq store.mine
    BY <1>3, <1>7, <2>2
  <2>4. server'.now + Cardinality(Unsent') <= MaxNow
    BY <1>6, <2>3, RoomStays
  <2>. QED
    BY <1>4, <1>6, <1>7, <2>2, <2>4 DEF IInv
<1>8. CASE store.cache[d].ver # 0
  <2>1. PICK v : v = [view EXCEPT !.own = @ \ {d}]
    OBVIOUS
  <2>2. v \in Views /\ v.synced = view.synced
    BY <1>1, <2>1 DEF Views
  <2>3. Emit(remote, v, done)
    BY <1>2, <1>8, <2>1 DEF WriteAcknowledged
  <2>. QED
    BY <1>3, <1>7, <2>2, <2>3
<1>9. CASE store.cache[d].ver = 0
  <2>1. PICK doc, cache : doc = [ver |-> server.acks[d], exists |-> TRUE]
                          /\ cache = [done.cache EXCEPT ![d] = doc]
    OBVIOUS
  <2>2. doc \in Versions
    BY <1>5, <2>1, TargetsAssumption DEF Versions
  <2>3. cache \in [Docs -> Versions]
    BY <1>3, <2>1, <2>2
  <2>4. PICK s : s = [done EXCEPT !.committed = @ \cup {d}, !.cache = cache]
    OBVIOUS
  <2>5. s \in Stores /\ s.mine = done.mine
    BY <1>3, <2>3, <2>4 DEF Stores
  <2>6. Emit(remote, view, [done EXCEPT !.committed = @ \cup {d}, !.cache[d] = doc])
    BY <1>2, <1>9, <2>1 DEF WriteAcknowledged
  <2>7. s = [done EXCEPT !.committed = @ \cup {d}, !.cache[d] = doc]
    BY <2>1, <2>4
  <2>. QED
    BY <1>1, <1>7, <2>5, <2>6, <2>7
<1>. QED
  BY <1>8, <1>9

\* The server commits an own write, for which room was kept.
LEMMA CommitSound ==
  ASSUME IInv, NEW d \in Docs, Commit(d)
  PROVE  IInv'
<1>1. /\ server \in Servers /\ d \in store.mine /\ server.docs[d].ver = 0
      /\ UNCHANGED <<conn, remote, view, store, left>>
  BY DEF IInv, Commit
<1>2. PICK u, w, n, A : u = Cardinality(Unsent) /\ w = Cardinality(Unsent') /\ n = server.now
                        /\ A = Unsent
  OBVIOUS
<1>3. A \in SUBSET Docs /\ d \in A
  BY <1>1, <1>2 DEF IInv, Stores, Unsent
<1>4. u \in Nat /\ Cardinality(A \ {d}) = u - 1 /\ Cardinality(A \ {d}) \in Nat
  BY <1>2, <1>3, DocsFinite
<1>5. n \in Nat /\ n + u <= MaxNow /\ MaxNow \in Nat
  BY <1>2, TargetsAssumption DEF IInv, Servers, Tokens
<1>6. n < MaxNow
  BY <1>4, <1>5
<1>7. PICK s : s = Store(d, [ver |-> n + 1, exists |-> TRUE])
  OBVIOUS
<1>8. /\ s \in Servers /\ s.now = n + 1 /\ s.acks = server.acks
      /\ \A x \in Docs : s.docs[x].ver = IF x = d THEN n + 1 ELSE server.docs[x].ver
  BY <1>1, <1>2, <1>6, <1>7, StoreTyped
<1>9. PICK acks : acks = With(s.acks, d, n + 1)
  OBVIOUS
<1>10. acks \in Maps(Docs, 1 .. MaxNow)
  <2>1. n + 1 \in 1 .. MaxNow /\ s.acks \in Maps(Docs, 1 .. MaxNow)
    BY <1>5, <1>6, <1>8 DEF Servers
  <2>. QED
    BY <1>9, <2>1, WithFacts
<1>11. server' = [s EXCEPT !.acks = acks]
  BY <1>2, <1>7, <1>9 DEF Commit
<1>12. server' \in Servers /\ server'.now = n + 1 /\ server'.docs = s.docs
  BY <1>8, <1>10, <1>11 DEF Servers
<1>13. Unsent' \in SUBSET (A \ {d})
  <2>1. \A x \in Unsent' : x \in Docs /\ x \in store.mine /\ s.docs[x].ver = 0
    BY <1>1, <1>12 DEF IInv, Stores, Unsent
  <2>2. n + 1 # 0
    BY <1>5
  <2>. QED
    BY <1>2, <1>8, <2>1, <2>2 DEF Unsent
<1>14. w \in Nat /\ w <= u - 1
  <2>1. A \ {d} \in SUBSET Docs
    BY <1>3
  <2>2. PICK B : B = Unsent' /\ B \in SUBSET (A \ {d}) /\ w = Cardinality(B)
    BY <1>2, <1>13
  <2>3. w \in Nat /\ w <= Cardinality(A \ {d})
    BY <2>1, <2>2, DocsFinite
  <2>. QED
    BY <1>4, <2>3
<1>15. (n + 1) + w <= MaxNow
  BY <1>4, <1>5, <1>14
<1>. QED
  BY <1>1, <1>2, <1>12, <1>15 DEF IInv

\* Others write only while there is room.
LEMMA OthersWriteSound ==
  ASSUME IInv, NEW d \in Docs, OthersWrite(d)
  PROVE  IInv'
<1>1. server \in Servers /\ UNCHANGED <<conn, remote, view, store, left>>
  BY DEF IInv, OthersWrite
<1>2. PICK u, w, n : u = Cardinality(Unsent) /\ w = Cardinality(Unsent') /\ n = server.now
  OBVIOUS
<1>3. n \in Nat /\ MaxNow \in Nat /\ n + u < MaxNow /\ Unsent \in SUBSET Docs
  BY <1>2, TargetsAssumption DEF IInv, Servers, Stores, Tokens, OthersWrite, Room, Unsent
<1>4. u \in Nat
  BY <1>2, <1>3, DocsFinite
<1>5. n < MaxNow
  BY <1>3, <1>4
<1>6. PICK e \in BOOLEAN : server' = Store(d, [ver |-> n + 1, exists |-> e])
  BY <1>2 DEF OthersWrite
<1>7. /\ server' \in Servers /\ server'.now = n + 1
      /\ \A x \in Docs : server'.docs[x].ver = IF x = d THEN n + 1 ELSE server.docs[x].ver
  <2>1. PICK s : s = Store(d, [ver |-> n + 1, exists |-> e])
    OBVIOUS
  <2>2. /\ s \in Servers /\ s.now = n + 1
        /\ \A x \in Docs : s.docs[x].ver = IF x = d THEN n + 1 ELSE server.docs[x].ver
    BY <1>1, <1>2, <1>5, <2>1, StoreTyped
  <2>. QED
    BY <1>6, <2>1, <2>2
<1>8. Unsent' \in SUBSET Unsent
  <2>1. \A x \in Unsent' : x \in Docs /\ x \in store.mine /\ server'.docs[x].ver = 0
    BY <1>1 DEF IInv, Stores, Unsent
  <2>2. n + 1 # 0
    BY <1>3
  <2>. QED
    BY <1>7, <2>1, <2>2 DEF Unsent
<1>9. w \in Nat /\ w <= u
  BY <1>2, <1>3, <1>8, DocsFinite
<1>10. (n + 1) + w <= MaxNow
  BY <1>3, <1>4, <1>9
<1>. QED
  BY <1>1, <1>2, <1>7, <1>10 DEF IInv

\* A restarted client listens to its query with the token it kept.
LEMMA RestartSound ==
  ASSUME IInv, Restart
  PROVE  IInv'
<1>1. /\ conn' = NoStream /\ remote' = Listening(store.token) /\ UNCHANGED <<server, store>>
      /\ left \in FaultPlans /\ left.restarts > 0 /\ left' = [left EXCEPT !.restarts = @ - 1]
      /\ view' = [view EXCEPT !.current = FALSE, !.limbo = {}, !.own = store.mine]
  BY DEF IInv, Restart
<1>2. view' \in Views
  BY <1>1 DEF IInv, Views, Stores
<1>3. conn' \in Conns
  BY <1>1, NoStreamTyped
<1>4. left' \in FaultPlans
  <2>1. left.restarts \in Nat /\ left.restarts - 1 \in Nat
    BY <1>1 DEF FaultPlans
  <2>. QED
    BY <1>1, <2>1 DEF FaultPlans
<1>5. PICK token, synced : token = store.token /\ synced = view'.synced
  OBVIOUS
<1>6. token \in Tokens
  BY <1>5 DEF IInv, Stores
<1>7. Listening(token) \in Good(NoStream, synced)
  BY <1>6, ListeningSound
<1>8. remote' \in Good(conn', view'.synced)
  BY <1>1, <1>5, <1>7
<1>9. server'.now + Cardinality(Unsent') <= MaxNow
  BY <1>1, RoomStays
<1>. QED
  BY <1>1, <1>2, <1>3, <1>4, <1>8, <1>9 DEF IInv

\* Every step keeps the invariant.
LEMMA StepSound ==
  ASSUME IInv, [Next]_vars
  PROVE  IInv'
<1>1. server \in Servers /\ conn \in Conns /\ view \in Views /\ store \in Stores /\ left \in FaultPlans
      /\ remote \in Good(conn, view.synced)
  BY DEF IInv
<1>2. PICK synced : synced = view.synced
  OBVIOUS
<1>3. remote \in Good(conn, synced)
  BY <1>1, <1>2
\* A step that leaves the server, the own writes and the view's documents alone.
<1>4. ASSUME UNCHANGED server, store' \in Stores, store'.mine = store.mine, view' \in Views,
             conn' \in Conns, left' \in FaultPlans, remote' \in Good(conn', view'.synced)
      PROVE  IInv'
  <2>1. server'.now + Cardinality(Unsent') <= MaxNow
    BY <1>4, RoomStays
  <2>. QED
    BY <1>1, <1>4, <2>1 DEF IInv
<1>5. CASE StreamOpens
  <2>1. UNCHANGED <<server, view, store, left>>
    BY <1>5 DEF StreamOpens
  <2>2. remote' \in Good(conn, synced) /\ conn' = conn
    BY <1>1, <1>3, <1>5, OpensSound
  <2>3. remote' \in Good(conn', view'.synced)
    BY <1>2, <2>1, <2>2
  <2>. QED
    BY <1>1, <1>4, <2>1, <2>2, <2>3
<1>6. CASE StreamBreaks
  <2>1. UNCHANGED <<server, view, store>> /\ left.breaks > 0 /\ left' = [left EXCEPT !.breaks = @ - 1]
    BY <1>6 DEF StreamBreaks
  <2>2. remote' \in Good(conn', synced) /\ conn' \in Conns
    BY <1>3, <1>6, BreaksSound
  <2>3. left' \in FaultPlans
    <3>1. left.breaks \in Nat /\ left.breaks - 1 \in Nat
      BY <1>1, <2>1 DEF FaultPlans
    <3>. QED
      BY <1>1, <2>1, <3>1 DEF FaultPlans
  <2>4. remote' \in Good(conn', view'.synced)
    BY <1>2, <2>1, <2>2
  <2>. QED
    BY <1>1, <1>4, <2>1, <2>2, <2>3, <2>4
<1>7. CASE Offline
  <2>1. UNCHANGED <<server, conn, remote, store, left>> /\ view' = [view EXCEPT !.current = FALSE]
    BY <1>7 DEF Offline
  <2>2. view' \in Views /\ view'.synced = view.synced
    BY <1>1, <2>1 DEF Views
  <2>. QED
    BY <1>1, <1>4, <2>1, <2>2
<1>8. CASE Restart
  BY <1>8, RestartSound
<1>9. CASE Receive
  <2>1. UNCHANGED <<server, left>>
    BY <1>9 DEF Receive
  <2>2. conn' \in Conns /\ view' \in Views /\ store' \in Stores /\ store'.mine = store.mine
        /\ remote' \in Good(conn', view'.synced)
    BY <1>1, <1>9, ReceiveSound
  <2>. QED
    BY <1>1, <1>4, <2>1, <2>2
<1>10. ASSUME NEW d \in Docs, SendMessage(d)
       PROVE  IInv'
  BY <1>10, SendMessageSound
<1>11. ASSUME NEW d \in Docs, WriteAcknowledged(d)
       PROVE  IInv'
  BY <1>11, WriteAcknowledgedSound
<1>12. ASSUME NEW d \in Docs, Commit(d)
       PROVE  IInv'
  BY <1>12, CommitSound
<1>13. ASSUME NEW d \in Docs, OthersWrite(d)
       PROVE  IInv'
  BY <1>13, OthersWriteSound
<1>14. CASE Serve
  <2>1. UNCHANGED <<server, view, store>>
    BY <1>14 DEF Serve
  <2>2. conn' \in Conns /\ left' \in FaultPlans /\ remote' \in Good(conn', synced)
    BY <1>1, <1>3, <1>14, ServeSound
  <2>3. remote' \in Good(conn', view'.synced)
    BY <1>2, <2>1, <2>2
  <2>. QED
    BY <1>1, <1>4, <2>1, <2>2, <2>3
<1>15. CASE SendSnapshot
  <2>1. UNCHANGED <<server, remote, view, store, left>>
    BY <1>15 DEF SendSnapshot
  <2>2. conn' \in Conns /\ remote \in Good(conn', synced)
    BY <1>1, <1>3, <1>15, SendSnapshotSound
  <2>3. remote' \in Good(conn', view'.synced)
    BY <1>2, <2>1, <2>2
  <2>. QED
    BY <1>1, <1>4, <2>1, <2>2, <2>3
<1>16. CASE UNCHANGED vars
  <2>1. UNCHANGED <<server, conn, remote, view, store, left>>
    BY <1>16 DEF vars
  <2>. QED
    BY <1>1, <1>4, <2>1
<1>. QED
  BY <1>5, <1>6, <1>7, <1>8, <1>9, <1>10, <1>11, <1>12, <1>13, <1>14, <1>15, <1>16
     DEF Next, AckSome, CommitSome

\* The invariant implies the type invariant.
LEMMA InvariantTyped == IInv => TypeOK
<1>1. ASSUME IInv PROVE TypeOK
  <2>1. /\ server \in Servers /\ conn \in Conns /\ view \in Views /\ store \in Stores
        /\ left \in FaultPlans /\ remote \in Remotes /\ Resolving(remote)
    BY <1>1 DEF IInv, Good, Sound, Wired
  <2>2. server \in [docs : [Docs -> Versions], now : 0 .. MaxNow,
                    acks : UNION {[ds -> 1 .. MaxNow] : ds \in SUBSET Docs}]
    BY <2>1 DEF Servers, Tokens, Maps
  <2>3. conn.told \in BOOLEAN /\ DOMAIN conn.watched \subseteq Nat
    <3>1. conn.watched \in Maps(Nat, Versioned)
      BY <2>1 DEF Conns
    <3>. QED
      BY <2>1, <3>1, MapFacts DEF Conns
  <2>4. /\ remote.open \in BOOLEAN /\ remote.ok \in BOOLEAN /\ remote.next \in Nat
        /\ remote.up \in Seq(Requests) /\ remote.enqueued \in Seq(Docs)
        /\ remote.listen \in Maps(Nat, Listens) /\ remote.targets \in Maps(Nat, States)
        /\ remote.byKey \in Maps(Docs, Nat)
    BY <2>1 DEF Remotes
  <2>5. \A t \in DOMAIN remote.listen :
           remote.listen[t] \in [key : Docs \cup {All}, token : 0 .. MaxNow]
    <3>1. \A t \in DOMAIN remote.listen : remote.listen[t] \in Listens
      BY <2>4, MapFacts
    <3>. QED
      BY <3>1 DEF Listens, Keys, Tokens
  <2>6. \A t \in DOMAIN remote.targets : remote.targets[t].out \in Nat
    <3>1. \A t \in DOMAIN remote.targets : remote.targets[t] \in States
      BY <2>4, MapFacts
    <3>. QED
      BY <3>1 DEF States
  <2>7. remote.byKey \in [DOMAIN remote.byKey -> DOMAIN remote.resolutions]
    <3>1. remote.byKey = [d \in DOMAIN remote.byKey |-> remote.byKey[d]]
      BY <2>4, MapFacts
    <3>2. \A d \in DOMAIN remote.byKey : remote.byKey[d] \in DOMAIN remote.resolutions
      BY <2>1 DEF Resolving
    <3>. QED
      BY <3>1, <3>2
  <2>8. view \in [synced : SUBSET Docs, current : BOOLEAN, limbo : SUBSET Docs, own : SUBSET Docs]
    BY <2>1 DEF Views
  <2>9. /\ store.cache \in [Docs -> Versions] /\ store.mine \subseteq Docs
        /\ store.committed \subseteq Docs
        /\ store.snapshot \in SUBSET Docs /\ store.token \in 0 .. MaxNow
    BY <2>1 DEF Stores, Tokens
  <2>. QED
    BY <2>1, <2>2, <2>3, <2>4, <2>5, <2>6, <2>7, <2>8, <2>9 DEF TypeOK
<1>. QED
  BY <1>1

\* InFlight counts what Pending does.
LEMMA InFlightPending ==
  ASSUME remote \in Remotes, conn \in Conns, NEW t \in Nat
  PROVE  InFlight(t) = Pending(remote, conn, t)
<1>1. remote.up \in Seq(Requests) /\ conn.down \in Seq(Messages)
  BY DEF Remotes, Conns
<1>2. {i \in DOMAIN remote.up : remote.up[i].id = t} = Hits(remote.up, Requested(t))
  <2>1. \A i \in DOMAIN remote.up : remote.up[i] \in Requests
    BY <1>1
  <2>. QED
    BY <2>1 DEF Hits, Requested
<1>3. {i \in DOMAIN conn.down :
          conn.down[i].type \in {"added", "removed", "rejected"} /\ conn.down[i].id = t}
      = Hits(conn.down, Answers(t))
  <2>1. \A i \in DOMAIN conn.down : conn.down[i] \in Messages
    BY <1>1
  <2>2. ASSUME NEW i \in DOMAIN conn.down
        PROVE  conn.down[i] \in Answers(t) <=>
                 conn.down[i].type \in {"added", "removed", "rejected"} /\ conn.down[i].id = t
    BY <2>1, MessageFields
  <2>. QED
    BY <2>2 DEF Hits
<1>. QED
  BY <1>2, <1>3, Zenon DEF InFlight, Pending, Count

\* The invariant implies what the run checks.
LEMMA InvariantImplies == IInv => AggregatorInStep
<1>1. ASSUME IInv PROVE AggregatorInStep
  <2>1. /\ conn \in Conns /\ remote \in Remotes /\ remote.ok /\ Owed(remote, conn)
        /\ remote.listen \in Maps(Nat, Listens)
    BY <1>1 DEF IInv, Good, Sound, Remotes
  <2>2. OutstandingIsInFlight
    <3>1. ASSUME NEW t \in DOMAIN remote.listen
          PROVE  State(remote, t).out = InFlight(t)
      <4>1. t \in Nat
        BY <2>1, MapFacts
      <4>2. State(remote, t).out = Pending(remote, conn, t)
        BY <2>1, <4>1 DEF Owed
      <4>. QED
        BY <2>1, <4>1, <4>2, InFlightPending
    <3>. QED
      BY <3>1 DEF OutstandingIsInFlight
  <2>. QED
    BY <1>1, <2>1, <2>2, InvariantTyped DEF AggregatorInStep, NoAssertFails
<1>. QED
  BY <1>1

-----------------------------------------------------------------------------
(* The theorems                                                            *)

\* Whatever is sent, lost, refused, answered late or forgotten, however often
\* the stream breaks and the app is restarted, and whatever target ids and
\* limbo documents are in use: the client's side of the stream is well typed,
\* every request and answer on its way is owed, a limbo target is asked and
\* told of its own document only, and only what a target knows is modified in
\* it or removed from it.
THEOREM StreamIsInStep == Spec => []IInv
<1>1. Init => IInv
  BY InitSound
<1>2. IInv /\ [Next]_vars => IInv'
  BY StepSound
<1>. QED
  BY <1>1, <1>2, PTL DEF Spec

\* The responses a target waits for are exactly those on their way, and no
\* HARD_ASSERT of the aggregator, the sync engine, the view or the remote
\* store fails.
THEOREM AggregatorStaysInStep == Spec => []AggregatorInStep
BY StreamIsInStep, InvariantImplies, PTL
=============================================================================
