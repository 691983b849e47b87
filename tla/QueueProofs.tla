----------------------------- MODULE QueueProofs -----------------------------
(***************************************************************************)
(* Proofs about what the queue of LeaseManager hands out, and in which     *)
(* order: a lease has all that its request asked for, and nobody is served *)
(* past who came earlier.                                                  *)
(***************************************************************************)
EXTENDS TaskProofs

-----------------------------------------------------------------------------
(* The first k of some free cards are k cards. *)

LEMMA FirstOnes ==
    ASSUME NEW F, IsFiniteSet(F), NEW pos \in [F -> Nat],
           \A a, b \in F : pos[a] = pos[b] => a = b,
           NEW k \in Nat, k <= Cardinality(F)
    PROVE  Cardinality({c \in F : Cardinality({e \in F : pos[e] <= pos[c]}) <= k}) = k
<1> DEFINE upto(c) == {e \in F : pos[e] <= pos[c]}
           N == Cardinality(F)
           rank == [c \in F |-> Cardinality(upto(c))]
           G == {c \in F : rank[c] <= k}
           g == [c \in G |-> rank[c]]
<1>1. ASSUME NEW c \in F
      PROVE  /\ IsFiniteSet(upto(c)) /\ rank[c] = Cardinality(upto(c))
             /\ rank[c] \in 1..N
  <2>1. c \in upto(c) /\ upto(c) \in SUBSET F
    OBVIOUS
  <2> HIDE DEF upto
  <2>2. IsFiniteSet(upto(c)) /\ Cardinality(upto(c)) <= N
    BY <2>1, FS_Subset
  <2>3. Cardinality(upto(c)) \in Nat /\ N \in Nat /\ Cardinality(upto(c)) # 0
    BY <2>1, <2>2, FS_CardinalityType, FS_EmptySet
  <2>4. QED
    BY <2>2, <2>3
<1>2. ASSUME NEW a \in F, NEW b \in F, pos[a] < pos[b]
      PROVE  rank[a] < rank[b]
  <2>1. upto(a) \in SUBSET upto(b) /\ b \in upto(b) /\ b \notin upto(a)
    BY <1>2
  <2>2. IsFiniteSet(upto(b)) /\ rank[a] = Cardinality(upto(a)) /\ rank[b] = Cardinality(upto(b))
        /\ rank[a] \in 1..N /\ rank[b] \in 1..N
    BY <1>1
  <2> HIDE DEF upto, rank
  <2>3. Cardinality(upto(a)) <= Cardinality(upto(b))
        /\ Cardinality(upto(a)) # Cardinality(upto(b))
    BY <2>1, <2>2, FS_Subset
  <2>4. N \in Nat
    BY FS_CardinalityType
  <2>5. QED
    BY <2>2, <2>3, <2>4
<1>3. N \in Nat
  BY FS_CardinalityType
<1>4. \A c \in F : rank[c] \in 1..N
  BY <1>1
<1>5. \A a, b \in F : rank[a] = rank[b] => a = b
  <2> HIDE DEF rank
  <2> SUFFICES ASSUME NEW a \in F, NEW b \in F, a # b
               PROVE  rank[a] # rank[b]
    OBVIOUS
  <2>1. pos[a] < pos[b] \/ pos[b] < pos[a]
    OBVIOUS
  <2>2. QED
    BY <2>1, <1>2, <1>3, <1>4
<1>6. DOMAIN rank = F /\ rank = [c \in F |-> rank[c]]
  OBVIOUS
<1>r. G = {c \in F : Cardinality({e \in F : pos[e] <= pos[c]}) <= k}
  OBVIOUS
<1> HIDE DEF rank, N, upto
<1>7. rank \in Injection(F, 1..N)
  BY <1>4, <1>5, <1>6 DEF Injection, IsInjective
<1>8. rank \in Surjection(F, 1..N)
  <2>1. IsFiniteSet(1..N) /\ Cardinality(1..N) = N
    BY <1>3, FS_Interval
  <2>2. QED
    BY <1>7, <2>1, FS_Injection DEF N
<1>9. g \in Bijection(G, 1..k)
  <2>1. \A c \in G : g[c] \in 1..k
    BY <1>3, <1>4
  <2>2. \A a, b \in G : g[a] = g[b] => a = b
    BY <1>5
  <2>3. ASSUME NEW x \in 1..k PROVE \E c \in G : g[c] = x
    <3>1. x \in 1..N
      BY <1>3 DEF N
    <3>2. PICK c \in F : rank[c] = x
      BY <1>8, <3>1 DEF Surjection
    <3>3. QED
      BY <3>2
  <2>4. DOMAIN g = G /\ g = [c \in G |-> g[c]]
    OBVIOUS
  <2> HIDE DEF g, G
  <2>5. QED
    BY <2>1, <2>2, <2>3, <2>4 DEF Bijection, Injection, Surjection, IsInjective
<1>10. IsFiniteSet(G)
  BY FS_Subset
<1>11. Cardinality(1..k) = k
  <2>1. IsFiniteSet(1..k) /\ Cardinality(1..k) = k
    BY FS_Interval
  <2>2. QED
    BY <2>1
<1> HIDE DEF G, g
<1>12. ExistsBijection(G, 1..k)
  BY <1>9 DEF ExistsBijection
<1>13. Cardinality(G) = k
  BY <1>10, <1>11, <1>12, FS_Bijection
<1>14. QED
  BY <1>13, <1>r

\* The cards S are all that d asks for.
Filled(d, S) == IF d.cards # None THEN S = d.cards ELSE Cardinality(S) = d.count

\* A demand that can be met is met in full, by name or by count.
LEMMA SelectedFills ==
    ASSUME NEW m, NEW d \in Demand, ValidDemand(d), Satisfiable(m, d)
    PROVE  Filled(d, Selected(m, d))
<1>1. CASE d.cards # None
  BY <1>1 DEF Filled, Selected
<1>2. CASE d.cards = None
  <2> DEFINE F == Free(m)
             pos == [c \in F |-> Position(CardOrder, c)]
             k == d.count
  <2>1. k \in Nat /\ k <= Cardinality(F)
    BY <1>2 DEF ValidDemand, Demand, Satisfiable
  <2>2. IsFiniteSet(F) /\ F \subseteq Card
    <3>1. F \in SUBSET Card
      BY DEF Free
    <3>2. QED
      BY <3>1, CardsCounted, FS_Subset
  <2>3. \A c \in F : pos[c] \in Nat /\ CardOrder[pos[c]] = c
    <3> SUFFICES ASSUME NEW c \in F
                 PROVE  Position(CardOrder, c) \in Nat
                        /\ CardOrder[Position(CardOrder, c)] = c
      OBVIOUS
    <3>1. \E i \in DOMAIN CardOrder : CardOrder[i] = c
      BY <2>2 DEF Card
    <3>2. DOMAIN CardOrder \subseteq Nat
      BY CardAssumption
    <3>3. QED
      BY <3>1, <3>2 DEF Position
  <2>4. Selected(m, d) = {c \in F : Cardinality({e \in F : pos[e] <= pos[c]}) <= k}
    <3>1. ASSUME NEW c \in F
          PROVE  {e \in F : pos[e] <= pos[c]}
                     = {e \in F : Position(CardOrder, e) <= Position(CardOrder, c)}
      OBVIOUS
    <3> DEFINE P(c) == {e \in F : pos[e] <= pos[c]}
               Q(c) == {e \in F : Position(CardOrder, e) <= Position(CardOrder, c)}
    <3>2. \A c \in F : P(c) = Q(c)
      BY <3>1
    <3>3. Selected(m, d) = {c \in F : Cardinality(Q(c)) <= k}
      BY <1>2 DEF Selected
    <3> HIDE DEF P, Q, F
    <3>4. Selected(m, d) = {c \in F : Cardinality(P(c)) <= k}
      BY <3>2, <3>3
    <3>5. QED
      BY <3>4 DEF P
  <2>5. pos \in [F -> Nat] /\ \A a, b \in F : pos[a] = pos[b] => a = b
    <3>1. DOMAIN pos = F /\ pos = [c \in F |-> pos[c]]
      OBVIOUS
    <3> HIDE DEF pos, F
    <3>2. QED
      BY <2>3, <3>1
  <2> HIDE DEF pos, F, k
  <2>6. Cardinality(Selected(m, d)) = k
    BY <2>1, <2>2, <2>4, <2>5, FirstOnes
  <2>7. QED
    BY <1>2, <2>6 DEF Filled, k
<1>3. QED
  BY <1>1, <1>2

-----------------------------------------------------------------------------
(* Dropping tickets keeps the others in order. *)

LEMMA DropKeepsOrder ==
    ASSUME NEW I, NEW q \in Seq(I), NEW S,
           \A i, j \in DOMAIN q : q[i] = q[j] => i = j
    PROVE  LET d == Drop(q, S)
           IN  \A i, j \in DOMAIN q : \A k, l \in DOMAIN d :
                   i < j /\ d[k] = q[i] /\ d[l] = q[j] => k < l
<1> DEFINE n == Len(q)
           kept[i \in 0..n] ==
               IF i = 0 THEN <<>>
               ELSE IF q[i] \in S THEN kept[i - 1]
               ELSE Append(kept[i - 1], q[i])
           Good(i) == /\ kept[i] \in Seq(I)
                      /\ \A k \in 1..Len(kept[i]) : \E a \in 1..i : kept[i][k] = q[a]
                      /\ \A k, l \in 1..Len(kept[i]) : \A a, b \in 1..n :
                             k < l /\ kept[i][k] = q[a] /\ kept[i][l] = q[b] => a < b
<1>1. n \in Nat /\ DOMAIN q = 1..n
  OBVIOUS
<1>2. kept = [i \in 0..n |-> IF i = 0 THEN <<>>
                             ELSE IF q[i] \in S THEN kept[i - 1]
                             ELSE Append(kept[i - 1], q[i])]
  <2>1. \E g : KeptIs(g, q, S, n)
    BY <1>1, KeptExists
  <2>2. KeptIs(kept, q, S, n)
    BY <2>1, Zenon DEF KeptIs
  <2>3. QED
    BY <2>2 DEF KeptIs
<1>3. Drop(q, S) = kept[n]
  BY DEF Drop
<1> HIDE DEF kept
<1>4. Good(0)
  BY <1>2, <1>1
<1>5. ASSUME NEW i \in 1..n, Good(i - 1)
      PROVE  Good(i)
  <2>1. kept[i] = IF q[i] \in S THEN kept[i - 1] ELSE Append(kept[i - 1], q[i])
    <3>1. i \in 0..n /\ i # 0
      BY <1>1
    <3>2. QED
      BY <1>2, <3>1
  <2>2. CASE q[i] \in S
    <3>1. kept[i] = kept[i - 1] /\ 1..(i - 1) \subseteq 1..i
      BY <2>1, <2>2, <1>1
    <3>2. QED
      BY <3>1, <1>5
  <2>3. CASE q[i] \notin S
    <3> DEFINE s == kept[i - 1]
               t == kept[i]
    <3>1. t = Append(s, q[i]) /\ s \in Seq(I) /\ q[i] \in I
      BY <2>1, <2>3, <1>5, <1>1
    <3>2. /\ t \in Seq(I) /\ Len(t) = Len(s) + 1 /\ Len(s) \in Nat
          /\ \A j \in 1..Len(s) : t[j] = s[j]
          /\ t[Len(s) + 1] = q[i]
      BY <3>1
    <3>3. /\ \A k \in 1..Len(s) : \E a \in 1..(i - 1) : s[k] = q[a]
          /\ \A k, l \in 1..Len(s) : \A a, b \in 1..n :
                 k < l /\ s[k] = q[a] /\ s[l] = q[b] => a < b
      BY <1>5
    <3> HIDE DEF s, t
    <3>4. \A k \in 1..Len(t) : \E a \in 1..i : t[k] = q[a]
      <4> SUFFICES ASSUME NEW k \in 1..Len(t)
                   PROVE  \E a \in 1..i : t[k] = q[a]
        OBVIOUS
      <4>1. CASE k \in 1..Len(s)
        <5>1. PICK a \in 1..(i - 1) : s[k] = q[a]
          BY <4>1, <3>3
        <5>2. a \in 1..i
          BY <1>1
        <5>3. QED
          BY <5>1, <5>2, <4>1, <3>2
      <4>2. CASE k = Len(s) + 1
        BY <4>2, <3>2, <1>1
      <4>3. QED
        BY <4>1, <4>2, <3>2
    <3>5. \A k, l \in 1..Len(t) : \A a, b \in 1..n :
              k < l /\ t[k] = q[a] /\ t[l] = q[b] => a < b
      <4> SUFFICES ASSUME NEW k \in 1..Len(t), NEW l \in 1..Len(t),
                          NEW a \in 1..n, NEW b \in 1..n,
                          k < l, t[k] = q[a], t[l] = q[b]
                   PROVE  a < b
        OBVIOUS
      <4>1. k \in 1..Len(s)
        BY <3>2
      <4>2. CASE l \in 1..Len(s)
        BY <4>1, <4>2, <3>2, <3>3
      <4>3. CASE l = Len(s) + 1
        <5>1. b = i
          BY <4>3, <3>2, <1>1
        <5>2. PICK c \in 1..(i - 1) : s[k] = q[c]
          BY <4>1, <3>3
        <5>3. c \in DOMAIN q /\ q[a] = q[c]
          BY <5>2, <4>1, <3>2, <1>1
        <5>4. a = c
          BY <5>3, <1>1
        <5>5. QED
          BY <5>1, <5>4, <1>1
      <4>4. QED
        BY <4>2, <4>3, <3>2
    <3>6. QED
      BY <3>2, <3>4, <3>5 DEF t
  <2>4. QED
    BY <2>2, <2>3
<1>6. Good(n)
  <2> DEFINE Bad == {i \in 0..n : ~Good(i)}
  <2> HIDE DEF Good
  <2>1. SUFFICES ASSUME Bad # {}
                 PROVE  FALSE
    BY <1>1
  <2>2. Bad \subseteq Nat
    BY <1>1
  <2>3. PICK k \in Bad : \A j \in Bad : k <= j
    <3> HIDE DEF Bad
    <3>1. QED
      BY <2>1, <2>2, LeastElement
  <2>4. k # 0 /\ k \in 1..n /\ k - 1 \in 0..n /\ k - 1 \notin Bad
    BY <2>3, <1>1, <1>4
  <2>5. QED
    BY <2>3, <2>4, <1>5
<1>7. QED
  <2> DEFINE d == kept[n]
  <2>1. /\ d \in Seq(I)
        /\ \A k, l \in 1..Len(d) : \A a, b \in 1..n :
               k < l /\ d[k] = q[a] /\ d[l] = q[b] => a < b
    BY <1>6
  <2> HIDE DEF d, n
  <2>2. DOMAIN d = 1..Len(d) /\ Len(d) \in Nat
    BY <2>1
  <2>3. ASSUME NEW i \in 1..n, NEW j \in 1..n, NEW k \in 1..Len(d), NEW l \in 1..Len(d),
               i < j, d[k] = q[i], d[l] = q[j]
        PROVE  k < l
    <3>1. k # l
      BY <2>3, <1>1
    <3>2. ~(l < k)
      BY <2>1, <2>3, <1>1
    <3>3. QED
      BY <3>1, <3>2, <2>2
  <2>4. QED
    BY <2>2, <2>3, <1>1, <1>3 DEF d

-----------------------------------------------------------------------------
(* Serving in order *)

\* The demands are valid, and the leases have what they ask for.
Whole(m) ==
    /\ \A r \in Live(m) : ValidDemand(m.requests[r].demand)
    /\ \A l \in DOMAIN m.leases : Filled(m.requests[l].demand, m.leases[l].cards)

\* From m to n no ticket is served past one that was before it and still waits,
\* and those that still wait are in the order they were in.
InLine(m, n) ==
    \A i, j \in DOMAIN m.queue : i < j =>
        /\ m.queue[j] \in DOMAIN n.leases => m.queue[i] \notin Queued(n)
        /\ \A k, l \in DOMAIN n.queue :
               n.queue[k] = m.queue[i] /\ n.queue[l] = m.queue[j] => k < l

\* Who is new in n comes after all that waited in m: not served past one that
\* still waits, and behind it in the queue.
NewBehind(m, n) ==
    \A b \in Live(n) \ Live(m) : \A a \in Queued(m) \cap Queued(n) :
        /\ b \notin DOMAIN n.leases
        /\ \A k, l \in DOMAIN n.queue : n.queue[k] = a /\ n.queue[l] = b => k < l

Serves(m, n) == (Whole(m) => Whole(n)) /\ InLine(m, n) /\ NewBehind(m, n)

\* One after the other, if nothing comes back that was gone or served between.
LEMMA ServesOn ==
    ASSUME NEW m, NEW n, NEW o, Sound(m), Sound(n), Sound(o), Serves(m, n), Serves(n, o),
           \A x \in Live(m) \cap Live(o) :
               x \in Live(n) /\ (x \in Queued(o) => x \in Queued(n))
    PROVE  Serves(m, o)
<1>1. Whole(m) => Whole(o)
  BY DEF Serves
<1>2. ASSUME NEW i \in DOMAIN m.queue, NEW j \in DOMAIN m.queue, i < j
      PROVE  /\ m.queue[j] \in DOMAIN o.leases => m.queue[i] \notin Queued(o)
             /\ \A k, l \in DOMAIN o.queue :
                    o.queue[k] = m.queue[i] /\ o.queue[l] = m.queue[j] => k < l
  <2> DEFINE a == m.queue[i]
             b == m.queue[j]
  <2>1. a \in Live(m) /\ b \in Live(m)
    BY DEF Sound, TasksMatchLeases, Queued
  <2>2. /\ b \in DOMAIN n.leases => a \notin Queued(n)
        /\ \A k, l \in DOMAIN n.queue : n.queue[k] = a /\ n.queue[l] = b => k < l
    BY <1>2 DEF Serves, InLine
  <2>3. /\ \A x \in Queued(o) : x \in Live(o)
        /\ \A x \in DOMAIN o.leases : x \in Live(o)
        /\ \A x \in Live(n) : x \in Queued(n) \/ x \in DOMAIN n.leases
    BY DEF Sound, TasksMatchLeases
  <2> HIDE DEF a, b
  <2>4. ASSUME b \in DOMAIN o.leases, a \in Queued(o)
        PROVE  FALSE
    <3>1. a \in Queued(n) /\ b \in Live(n)
      BY <2>1, <2>3, <2>4
    <3>2. b \in Queued(n)
      BY <3>1, <2>2, <2>3
    <3>3. PICK k \in DOMAIN n.queue, l \in DOMAIN n.queue : n.queue[k] = a /\ n.queue[l] = b
      BY <3>1, <3>2 DEF Queued
    <3>4. k < l
      BY <3>3, <2>2
    <3>5. QED
      BY <2>4, <3>3, <3>4 DEF Serves, InLine
  <2>5. ASSUME NEW k2 \in DOMAIN o.queue, NEW l2 \in DOMAIN o.queue,
               o.queue[k2] = a, o.queue[l2] = b
        PROVE  k2 < l2
    <3>1. a \in Queued(o) /\ b \in Queued(o)
      BY <2>5 DEF Queued
    <3>2. a \in Queued(n) /\ b \in Queued(n)
      BY <3>1, <2>1, <2>3
    <3>3. PICK k \in DOMAIN n.queue, l \in DOMAIN n.queue : n.queue[k] = a /\ n.queue[l] = b
      BY <3>2 DEF Queued
    <3>4. k < l
      BY <3>3, <2>2
    <3>5. QED
      BY <2>5, <3>3, <3>4 DEF Serves, InLine
  <2>6. QED
    BY <2>4, <2>5 DEF a, b
<1>3. ASSUME NEW b \in Live(o) \ Live(m), NEW a \in Queued(m) \cap Queued(o)
      PROVE  /\ b \notin DOMAIN o.leases
             /\ \A k2, l2 \in DOMAIN o.queue :
                    o.queue[k2] = a /\ o.queue[l2] = b => k2 < l2
  <2>1. a \in Queued(n)
    BY DEF Sound, TasksMatchLeases
  <2>2. CASE b \notin Live(n)
    BY <2>1, <2>2 DEF Serves, NewBehind
  <2>3. CASE b \in Live(n)
    <3>1. /\ b \notin DOMAIN n.leases
          /\ \A k, l \in DOMAIN n.queue : n.queue[k] = a /\ n.queue[l] = b => k < l
      BY <2>1, <2>3 DEF Serves, NewBehind
    <3>2. b \in Queued(n)
      BY <2>3, <3>1 DEF Sound, TasksMatchLeases
    <3>3. PICK k \in DOMAIN n.queue, l \in DOMAIN n.queue : n.queue[k] = a /\ n.queue[l] = b
      BY <2>1, <3>2 DEF Queued
    <3>4. k < l
      BY <3>1, <3>3
    <3>5. QED
      BY <3>3, <3>4 DEF Serves, InLine
  <2>4. QED
    BY <2>2, <2>3
<1>4. QED
  BY <1>1, <1>2, <1>3 DEF Serves, InLine, NewBehind

\* Tasks that are carried on neither come back nor queue again.
LEMMA CarriedServes ==
    ASSUME NEW m, NEW n, NEW o, Sound(m), Sound(n), Sound(o),
           Serves(m, n), Serves(n, o), Carries(n, o)
    PROVE  Serves(m, o)
<1>1. ASSUME NEW x \in Live(o)
      PROVE  x \in Live(n) /\ (x \in Queued(o) => x \in Queued(n))
  <2>1. x \in Live(n) /\ SameTask(n, o, x)
    BY DEF Carries
  <2>2. x \in Queued(o) => o.requests[x].status = "queued"
    BY DEF Sound, TasksMatchLeases
  <2>3. n.requests[x].status = "queued" => x \in Queued(n)
    BY <2>1 DEF Sound, TasksMatchLeases
  <2>4. QED
    BY <2>1, <2>2, <2>3 DEF SameTask
<1>2. QED
  BY <1>1, ServesOn

\* What leaves the queue, the demands and the cards of the leases as they are.
LEMMA QueueUntouched ==
    ASSUME NEW m, NEW n, Sound(m), n.queue = m.queue,
           Live(n) \subseteq Live(m), DOMAIN n.leases \subseteq DOMAIN m.leases \cap Live(n),
           \A r \in Live(n) : n.requests[r].demand = m.requests[r].demand,
           \A l \in DOMAIN n.leases : n.leases[l].cards = m.leases[l].cards
    PROVE  Serves(m, n)
<1>1. Whole(m) => Whole(n)
  BY DEF Whole
<1>2. ASSUME NEW i \in DOMAIN m.queue, NEW j \in DOMAIN m.queue, i < j
      PROVE  /\ m.queue[j] \notin DOMAIN n.leases
             /\ \A k, l \in DOMAIN n.queue :
                    n.queue[k] = m.queue[i] /\ n.queue[l] = m.queue[j] => k < l
  <2>1. m.queue[j] \in Queued(m)
    BY DEF Queued
  <2>2. m.queue[j] \notin DOMAIN m.leases
    BY <2>1 DEF Sound, TasksMatchLeases
  <2>3. \A k, l \in DOMAIN m.queue : m.queue[k] = m.queue[l] => k = l
    BY DEF Sound, TasksMatchLeases
  <2>4. QED
    BY <1>2, <2>2, <2>3
<1>3. QED
  BY <1>1, <1>2 DEF Serves, InLine, NewBehind

LEMMA ServesItself ==
    ASSUME NEW m, Sound(m)
    PROVE  Serves(m, m)
<1>1. DOMAIN m.leases \subseteq Live(m)
  BY DEF Sound, TasksMatchLeases
<1>2. QED
  BY <1>1, QueueUntouched

LEMMA ReleaseServes ==
    ASSUME NEW m, Sound(m), NEW S \in SUBSET DOMAIN m.leases
    PROVE  Serves(m, ReleaseLeases(m, S))
<1> DEFINE n == ReleaseLeases(m, S)
<1>1. /\ n.requests = Without(m.requests, S) /\ n.leases = Without(m.leases, S)
      /\ n.queue = m.queue
  BY DEF ReleaseLeases
<1> HIDE DEF n
<1>2. Live(n) = Live(m) \ S /\ \A r \in Live(n) : n.requests[r] = m.requests[r]
  BY <1>1 DEF Live, Without
<1>3. /\ DOMAIN n.leases = DOMAIN m.leases \ S
      /\ \A l \in DOMAIN n.leases : n.leases[l] = m.leases[l]
  BY <1>1 DEF Without
<1>4. DOMAIN m.leases \subseteq Live(m)
  BY DEF Sound, TasksMatchLeases
<1>5. Serves(m, n)
  BY <1>1, <1>2, <1>3, <1>4, QueueUntouched
<1>6. QED
  BY <1>5 DEF n

LEMMA DropTicketsServes ==
    ASSUME NEW m, Sound(m), NEW S \in SUBSET Queued(m)
    PROVE  Serves(m, DropTickets(m, S))
<1> DEFINE n == DropTickets(m, S)
<1>1. /\ n.requests = Without(m.requests, S) /\ n.leases = m.leases
      /\ n.queue = Drop(m.queue, S)
  BY DEF DropTickets
<1> HIDE DEF n
<1>2. Live(n) = Live(m) \ S /\ \A r \in Live(n) : n.requests[r] = m.requests[r]
  BY <1>1 DEF Live, Without
<1>3. DOMAIN m.leases = Live(m) \ Queued(m)
  BY DEF Sound, TasksMatchLeases
<1>4. Whole(m) => Whole(n)
  BY <1>1, <1>2, <1>3 DEF Whole
<1>5. /\ m.queue \in Seq(RequestId)
      /\ \A i, j \in DOMAIN m.queue : m.queue[i] = m.queue[j] => i = j
  BY DEF Sound, TablesOK, TasksMatchLeases
<1>6. \A i, j \in DOMAIN m.queue : \A k, l \in DOMAIN n.queue :
          i < j /\ n.queue[k] = m.queue[i] /\ n.queue[l] = m.queue[j] => k < l
  BY <1>1, <1>5, DropKeepsOrder
<1>7. \A j \in DOMAIN m.queue : m.queue[j] \notin DOMAIN n.leases
  BY <1>1, <1>3 DEF Queued
<1>8. QED
  BY <1>2, <1>4, <1>6, <1>7 DEF Serves, InLine, NewBehind, n

LEMMA EndServes ==
    ASSUME NEW m, Sound(m), NEW r \in Live(m)
    PROVE  Serves(m, End(m, r))
<1>1. CASE m.requests[r].status = "queued"
  <2>1. {r} \in SUBSET Queued(m)
    BY <1>1 DEF Sound, TasksMatchLeases
  <2>2. End(m, r) = DropTickets(m, {r})
    BY <1>1 DEF End
  <2>3. QED
    BY <2>1, <2>2, DropTicketsServes
<1>2. CASE m.requests[r].status # "queued"
  <2>1. {r} \in SUBSET DOMAIN m.leases
    BY <1>2 DEF Sound, TasksMatchLeases
  <2>2. End(m, r) = ReleaseLeases(m, {r})
    BY <1>2 DEF End
  <2>3. QED
    BY <2>1, <2>2, ReleaseServes
<1>3. QED
  BY <1>1, <1>2

\* A turn of the loop takes the head of the queue and gives it all it asks for.
LEMMA GrantHeadServes ==
    ASSUME NEW m, Sound(m), NEW now
    PROVE  Serves(m, GrantHead(m, now))
<1> DEFINE r == Head(m.queue)
           chosen == Selected(m, m.requests[r].demand)
           lease == [cards |-> chosen, started |-> now,
                     deadline |-> now + LeaseDuration(m.requests[r])]
           n == GrantHead(m, now)
<1>1. CASE m.queue = <<>> \/ ~Satisfiable(m, m.requests[r].demand)
  <2>1. n = m
    BY <1>1 DEF GrantHead
  <2>2. QED
    BY <2>1, ServesItself
<1>2. CASE ~(m.queue = <<>> \/ ~Satisfiable(m, m.requests[r].demand))
  <2>1. /\ n.leases = With(m.leases, {r}, lease)
        /\ n.requests = [m.requests EXCEPT ![r].status = "granted",
                                           ![r].queueDeadline = None]
        /\ n.queue = Tail(m.queue)
    BY <1>2 DEF GrantHead
  <2>2. m.queue \in Seq(RequestId) /\ m.queue # <<>>
    BY <1>2 DEF Sound, TablesOK
  <2>3. /\ DOMAIN m.queue = 1..Len(m.queue) /\ Len(m.queue) \in Nat \ {0}
        /\ r = m.queue[1]
        /\ DOMAIN Tail(m.queue) = 1..(Len(m.queue) - 1)
        /\ \A k \in 1..(Len(m.queue) - 1) : Tail(m.queue)[k] = m.queue[k + 1]
    BY <2>2
  <2>c. lease.cards = chosen
    OBVIOUS
  <2>s. chosen = Selected(m, m.requests[r].demand) /\ Satisfiable(m, m.requests[r].demand)
    BY <1>2
  <2> HIDE DEF r, lease, n, chosen
  <2>4. r \in Queued(m)
    BY <2>3 DEF Queued
  <2>5. r \in Live(m) /\ m.requests[r] \in Request /\ r \notin DOMAIN m.leases
    BY <2>4, QueuedRequest
  <2>6. /\ Live(n) = Live(m)
        /\ \A x \in Live(m) : n.requests[x].demand = m.requests[x].demand
    <3>1. \A x \in Live(m) : m.requests[x] \in Request
      BY DEF Sound, TablesOK, IsTable, Live
    <3>2. QED
      BY <2>1, <3>1 DEF Live, Request
  <2>7. /\ DOMAIN n.leases = DOMAIN m.leases \cup {r} /\ n.leases[r] = lease
        /\ \A l \in DOMAIN m.leases : n.leases[l] = m.leases[l]
    BY <2>1, <2>5 DEF With
  <2>8. Whole(m) => Whole(n)
    <3> SUFFICES ASSUME Whole(m)
                 PROVE  Whole(n)
      OBVIOUS
    <3>1. Filled(m.requests[r].demand, chosen)
      <4>1. m.requests[r].demand \in Demand
        BY <2>5 DEF Request
      <4>2. ValidDemand(m.requests[r].demand)
        BY <2>5 DEF Whole
      <4>3. QED
        BY <4>1, <4>2, <2>s, SelectedFills
    <3>2. \A x \in DOMAIN m.leases : x \in Live(m)
      BY DEF Sound, TasksMatchLeases
    <3>3. \A l \in DOMAIN n.leases : Filled(n.requests[l].demand, n.leases[l].cards)
      BY <3>1, <3>2, <2>c, <2>5, <2>6, <2>7 DEF Whole
    <3>4. QED
      BY <3>3, <2>6 DEF Whole
  <2>9. \A i, j \in DOMAIN m.queue : m.queue[i] = m.queue[j] => i = j
    BY DEF Sound, TasksMatchLeases
  <2>10. \A k \in DOMAIN n.queue : k + 1 \in DOMAIN m.queue /\ n.queue[k] = m.queue[k + 1]
                                   /\ k \in Nat
    BY <2>1, <2>3
  <2>11. ASSUME NEW i \in DOMAIN m.queue, NEW j \in DOMAIN m.queue, i < j
         PROVE  m.queue[j] \notin DOMAIN n.leases
    <3>1. m.queue[j] \in Queued(m) /\ m.queue[j] # r
      BY <2>3, <2>9, <2>11 DEF Queued
    <3>2. m.queue[j] \notin DOMAIN m.leases
      BY <3>1 DEF Sound, TasksMatchLeases
    <3>3. QED
      BY <3>1, <3>2, <2>7
  <2>12. ASSUME NEW i \in DOMAIN m.queue, NEW j \in DOMAIN m.queue, i < j,
                NEW k \in DOMAIN n.queue, NEW l \in DOMAIN n.queue,
                n.queue[k] = m.queue[i], n.queue[l] = m.queue[j]
         PROVE  k < l
    <3>1. k + 1 = i /\ l + 1 = j
      BY <2>9, <2>10, <2>12
    <3>2. QED
      BY <3>1, <2>10, <2>12
  <2>13. QED
    BY <2>6, <2>8, <2>11, <2>12 DEF Serves, InLine, NewBehind, n
<1>3. QED
  BY <1>1, <1>2

\* The whole loop serves in order.
LEMMA ScheduleServes ==
    ASSUME NEW m, Sound(m), NEW now \in Nat
    PROVE  Serves(m, Schedule(m, now))
<1> DEFINE n == Len(m.queue)
           after[i \in 0..n] == IF i = 0 THEN m ELSE GrantHead(after[i - 1], now)
           Good(i) == Sound(after[i]) /\ Serves(m, after[i])
           Bad == {i \in 0..n : ~Good(i)}
<1>1. n \in Nat
  BY DEF Sound, TablesOK
<1>2. after = [i \in 0..n |-> IF i = 0 THEN m ELSE GrantHead(after[i - 1], now)]
  <2>1. \E g : TurnsAre(g, m, now, n)
    BY <1>1, TurnsExist
  <2>2. TurnsAre(after, m, now, n)
    BY <2>1, Zenon DEF TurnsAre
  <2>3. QED
    BY <2>2 DEF TurnsAre
<1>3. Schedule(m, now) = after[n]
  BY DEF Schedule
<1> HIDE DEF after, n
<1>4. after[0] = m /\ \A i \in 1..n : after[i] = GrantHead(after[i - 1], now)
  BY <1>1, <1>2
<1>5. Good(0)
  BY <1>4, ServesItself
<1>6. ASSUME NEW i \in 1..n, Good(i - 1)
      PROVE  Good(i)
  <2>1. /\ Sound(after[i]) /\ Carries(after[i - 1], after[i])
        /\ Serves(after[i - 1], after[i])
    BY <1>4, <1>6, GrantHeadSound, GrantHeadCarries, GrantHeadServes
  <2>2. QED
    BY <1>6, <2>1, CarriedServes
<1>7. Good(n)
  <2> HIDE DEF Good
  <2>1. SUFFICES ASSUME Bad # {}
                 PROVE  FALSE
    BY <1>1
  <2>2. PICK k \in Bad : \A j \in Bad : k <= j
    <3>1. Bad \subseteq Nat
      BY <1>1
    <3> HIDE DEF Bad
    <3>2. QED
      BY <2>1, <3>1, LeastElement
  <2>3. k # 0 /\ k \in 1..n /\ k - 1 \in 0..n /\ k - 1 \notin Bad
    BY <2>2, <1>1, <1>5
  <2>4. QED
    BY <2>2, <2>3, <1>6
<1>8. QED
  BY <1>3, <1>7

\* What every call does first.
LEMMA MaintainServes ==
    ASSUME Inv, NEW now \in Nat
    PROVE  LET m == Maintain(tables, now)
           IN  Sound(tables) /\ Sound(m) /\ Carries(tables, m) /\ Serves(tables, m)
<1> DEFINE lapsed == ExpiredLeases(tables, now)
           reaped == ReleaseLeases(tables, lapsed)
           late == ExpiredTickets(reaped, now)
           dropped == DropTickets(reaped, late)
           n == Maintain(tables, now)
<1>1. n = Schedule(dropped, now)
  BY DEF Maintain
<1>2. lapsed \in SUBSET DOMAIN tables.leases /\ late \in SUBSET Queued(reaped)
  BY DEF ExpiredLeases, ExpiredTickets
<1> HIDE DEF lapsed, late
<1>3. Sound(tables) /\ Carries(tables, n)
  BY MaintainEvolves
<1>4. Sound(reaped) /\ Serves(tables, reaped)
  BY <1>2, <1>3, ReleaseSound, ReleaseServes
<1> HIDE DEF reaped
<1>5. Sound(dropped) /\ Carries(reaped, dropped) /\ Serves(reaped, dropped)
  BY <1>2, <1>4, DropTicketsSound, DropTicketsCarries, DropTicketsServes
<1> HIDE DEF dropped, n
<1>6. Sound(n) /\ Carries(dropped, n) /\ Serves(dropped, n)
  BY <1>1, <1>5, ScheduleSound, ScheduleCarries, ScheduleServes
<1>7. Serves(tables, dropped)
  BY <1>3, <1>4, <1>5, CarriedServes
<1>8. Serves(tables, n)
  BY <1>3, <1>5, <1>6, <1>7, CarriedServes
<1>9. QED
  BY <1>3, <1>6, <1>8 DEF n

-----------------------------------------------------------------------------
(* One lemma per call *)

LEMMA CreateRequestServes ==
    ASSUME Inv, NEW u \in Uid, NEW r \in RequestId, NEW d \in Demands,
           NEW reservation \in Reservations, NEW now \in Nat,
           CreateRequest(u, r, d, reservation, now)
    PROVE  Serves(tables, tables')
<1>0. Sound(tables)
  BY MaintainServes
<1>1. CASE ~Valid(d, reservation) \/ closed
  <2>1. tables' = tables
    BY <1>1 DEF CreateRequest, Quietly
  <2>2. QED
    BY <2>1, <1>0, ServesItself
<1>2. CASE Valid(d, reservation) /\ ~closed
  <2> DEFINE m == Maintain(tables, now)
             ticket == [uid |-> u, demand |-> d, reservation |-> reservation,
                        status |-> "queued", queueDeadline |-> now + QueueTTL]
             j == Join(m, r, ticket)
             n == Schedule(j, now)
  <2>1. tables' = n /\ r \notin Live(tables)
    BY <1>2 DEF CreateRequest, Notifying
  <2>2. /\ Sound(m) /\ Carries(tables, m) /\ Serves(tables, m)
        /\ r \notin Live(m)
    BY <2>1, MaintainServes DEF Carries
  <2>3. /\ ticket \in Request /\ ticket.demand = d
        /\ ticket.status = "queued" /\ ticket.queueDeadline # None
    BY <1>2, TicketType, TimeAssumption, NoneAssumption
  <2> HIDE DEF m, ticket
  <2>4. Sound(j)
    BY <2>2, <2>3, JoinSound
  <2>5. /\ j.requests = With(m.requests, {r}, ticket) /\ j.leases = m.leases
        /\ j.queue = Append(m.queue, r)
    BY DEF Join
  <2> HIDE DEF j
  <2>6. Sound(n) /\ Carries(j, n) /\ Serves(j, n)
    BY <2>4, ScheduleSound, ScheduleCarries, ScheduleServes
  <2> HIDE DEF n
  <2>7. /\ Live(j) = Live(m) \cup {r} /\ j.requests[r] = ticket
        /\ \A x \in Live(m) : j.requests[x] = m.requests[x]
    BY <2>2, <2>5 DEF With, Live
  <2>8. DOMAIN m.leases \subseteq Live(m) \ Queued(m) /\ Queued(m) \subseteq Live(m)
    BY <2>2 DEF Sound, TasksMatchLeases
  <2>9. Whole(m) => Whole(j)
    BY <1>2, <2>3, <2>5, <2>7, <2>8 DEF Whole, Valid
  <2>q. /\ m.queue \in Seq(RequestId)
        /\ \A x, y \in DOMAIN m.queue : m.queue[x] = m.queue[y] => x = y
    BY <2>2 DEF Sound, TablesOK, TasksMatchLeases
  <2>10. /\ DOMAIN m.queue = 1..Len(m.queue) /\ Len(m.queue) \in Nat
         /\ DOMAIN j.queue = 1..(Len(m.queue) + 1)
         /\ \A x \in 1..Len(m.queue) : j.queue[x] = m.queue[x]
         /\ j.queue[Len(m.queue) + 1] = r
    BY <2>q, <2>5
  <2>11. \A x \in DOMAIN m.queue : m.queue[x] # r /\ m.queue[x] \notin DOMAIN j.leases
    BY <2>2, <2>5, <2>8 DEF Queued
  <2>12. \A x \in DOMAIN m.queue : \A k \in DOMAIN j.queue : j.queue[k] = m.queue[x] => k = x
    <3> SUFFICES ASSUME NEW x \in DOMAIN m.queue, NEW k \in DOMAIN j.queue,
                        j.queue[k] = m.queue[x]
                 PROVE  k = x
      OBVIOUS
    <3>1. k # Len(m.queue) + 1
      BY <2>10, <2>11
    <3>2. k \in DOMAIN m.queue
      BY <3>1, <2>10
    <3>3. QED
      BY <3>2, <2>q, <2>10
  <2>13. Serves(m, j)
    <3>1. NewBehind(m, j)
      <4>1. \A x \in Live(j) \ Live(m) : x = r
        BY <2>7
      <4>2. r \notin DOMAIN j.leases
        BY <2>2, <2>5, <2>8
      <4>3. ASSUME NEW a \in Queued(m), NEW k \in DOMAIN j.queue, NEW l \in DOMAIN j.queue,
                   j.queue[k] = a, j.queue[l] = r
            PROVE  k < l
        <5>1. PICK x \in DOMAIN m.queue : m.queue[x] = a
          BY DEF Queued
        <5>2. k = x /\ l \notin DOMAIN m.queue
          BY <4>3, <5>1, <2>10, <2>11, <2>12
        <5>3. QED
          BY <5>2, <2>10
      <4>4. QED
        BY <4>1, <4>2, <4>3 DEF NewBehind
    <3>2. QED
      BY <3>1, <2>9, <2>11, <2>12 DEF Serves, InLine
  <2>14. Serves(tables, j)
    <3>1. Queued(j) = Queued(m) \cup {r}
      <4>1. \A x \in DOMAIN j.queue : j.queue[x] = r \/ j.queue[x] \in Queued(m)
        BY <2>10 DEF Queued
      <4>2. \A x \in DOMAIN m.queue : x \in DOMAIN j.queue /\ j.queue[x] = m.queue[x]
        BY <2>10
      <4>3. Len(m.queue) + 1 \in DOMAIN j.queue
        BY <2>10
      <4>4. QED
        BY <4>1, <4>2, <4>3, <2>10 DEF Queued
    <3>2. \A x \in Live(tables) \cap Live(j) :
              x \in Live(m) /\ (x \in Queued(j) => x \in Queued(m))
      BY <3>1, <2>1, <2>7
    <3>3. QED
      BY <3>2, <1>0, <2>2, <2>4, <2>13, ServesOn
  <2>15. QED
    BY <1>0, <2>1, <2>4, <2>6, <2>14, CarriedServes
<1>3. QED
  BY <1>1, <1>2

LEMMA QuietServes ==
    ASSUME Inv, NEW now \in Nat, tables' = tables \/ tables' = Maintain(tables, now)
    PROVE  Serves(tables, tables')
<1>1. Sound(tables) /\ Serves(tables, Maintain(tables, now))
  BY MaintainServes
<1>2. QED
  BY <1>1, ServesItself

\* A change of one request's ticket or status, which does not queue it again.
LEMMA ChangeServes ==
    ASSUME Inv, NEW now \in Nat, NEW r \in Live(Maintain(tables, now)), NEW req,
           req.demand = Maintain(tables, now).requests[r].demand,
           tables' = [Maintain(tables, now) EXCEPT !.requests[r] = req], Inv'
    PROVE  Serves(tables, tables')
<1> DEFINE m == Maintain(tables, now)
<1>1. Sound(tables) /\ Sound(m) /\ Serves(tables, m)
  BY MaintainServes
<1>2. Sound(tables')
  BY DEF Inv, Sound, TypeOK, HoldersMatchLeases, TablesAgree
<1> HIDE DEF m
<1>3. /\ tables'.requests = [m.requests EXCEPT ![r] = req]
      /\ tables'.leases = m.leases /\ tables'.queue = m.queue
  BY <1>1 DEF Sound, TablesOK, m
<1>4. /\ Live(tables') = Live(m) /\ Queued(tables') = Queued(m)
      /\ \A x \in Live(m) : tables'.requests[x].demand = m.requests[x].demand
  BY <1>3 DEF Live, Queued, m
<1>5. DOMAIN m.leases \subseteq Live(m)
  BY <1>1 DEF Sound, TasksMatchLeases
<1>6. Serves(m, tables')
  BY <1>1, <1>3, <1>4, <1>5, QueueUntouched
<1>7. QED
  BY <1>1, <1>2, <1>4, <1>6, ServesOn

LEMMA GetRequestServes ==
    ASSUME Inv, Inv', NEW u \in Uid, NEW r \in RequestId, NEW now \in Nat,
           GetRequest(u, r, now)
    PROVE  Serves(tables, tables')
<1> DEFINE m == Maintain(tables, now)
           req == [m.requests[r] EXCEPT !.queueDeadline = now + QueueTTL]
<1>1. \/ tables' = m
      \/ r \in Live(m) /\ tables' = [m EXCEPT !.requests[r] = req]
  BY DEF GetRequest, Refused, Quietly, Notifying
<1>2. CASE tables' = m
  BY <1>2, QuietServes
<1>3. CASE r \in Live(m) /\ tables' = [m EXCEPT !.requests[r] = req]
  <2>1. Sound(m)
    BY MaintainServes
  <2> HIDE DEF m
  <2>2. m.requests[r] \in Request
    BY <2>1, <1>3 DEF Sound, TablesOK, IsTable, Live
  <2>3. req.demand = m.requests[r].demand
    BY <2>2 DEF Request
  <2> HIDE DEF req
  <2>4. QED
    BY <1>3, <2>3, ChangeServes DEF m
<1>4. QED
  BY <1>1, <1>2, <1>3

LEMMA EndedServes ==
    ASSUME Inv, NEW now \in Nat, NEW r \in Live(Maintain(tables, now)),
           tables' = Schedule(End(Maintain(tables, now), r), now)
    PROVE  Serves(tables, tables')
<1> DEFINE m == Maintain(tables, now)
           e == End(m, r)
<1>1. Sound(tables) /\ Sound(m) /\ Serves(tables, m)
  BY MaintainServes
<1> HIDE DEF m
<1>2. Sound(e) /\ Carries(m, e) /\ Serves(m, e)
  BY <1>1, EndSound, EndCarries, EndServes DEF m
<1> HIDE DEF e
<1>3. Sound(tables') /\ Carries(e, tables') /\ Serves(e, tables')
  BY <1>2, ScheduleSound, ScheduleCarries, ScheduleServes DEF e, m
<1>4. Serves(tables, e)
  BY <1>1, <1>2, CarriedServes
<1>5. QED
  BY <1>1, <1>2, <1>3, <1>4, CarriedServes

LEMMA CancelRequestServes ==
    ASSUME Inv, NEW u \in Uid, NEW r \in RequestId, NEW now \in Nat,
           CancelRequest(u, r, now)
    PROVE  Serves(tables, tables')
<1>1. \/ tables' = Maintain(tables, now)
      \/ /\ r \in Live(Maintain(tables, now))
         /\ tables' = Schedule(End(Maintain(tables, now), r), now)
  BY DEF CancelRequest, Refused, Quietly, Notifying
<1>2. QED
  BY <1>1, QuietServes, EndedServes

LEMMA RenewLeaseServes ==
    ASSUME Inv, Inv', NEW u \in Uid, NEW l \in RequestId, NEW now \in Nat,
           RenewLease(u, l, now)
    PROVE  Serves(tables, tables')
<1> DEFINE m == Maintain(tables, now)
<1>1. \/ tables' = m
      \/ l \in DOMAIN m.leases /\ tables' = Renewed(m, l, now)
  BY DEF RenewLease, LeaseRefused, Known, Quietly, Notifying
<1>2. Sound(tables) /\ Sound(m) /\ Serves(tables, m)
  BY MaintainServes
<1>3. CASE tables' = m
  BY <1>3, QuietServes
<1>4. CASE /\ l \in DOMAIN m.leases /\ m.requests[l].reservation = None
           /\ tables' = [m EXCEPT !.leases[l].deadline = now + LeaseTTL]
  <2>1. Sound(tables')
    BY DEF Inv, Sound, TypeOK, HoldersMatchLeases, TablesAgree
  <2> HIDE DEF m
  <2>2. /\ tables'.leases = [m.leases EXCEPT ![l].deadline = now + LeaseTTL]
        /\ tables'.requests = m.requests /\ tables'.queue = m.queue
    BY <1>2, <1>4 DEF Sound, TablesOK
  <2>3. \A x \in DOMAIN m.leases : m.leases[x] \in Lease /\ x \in Live(m)
    BY <1>2 DEF Sound, TablesOK, IsTable, TasksMatchLeases
  <2>4. \A x \in DOMAIN m.leases : tables'.leases[x].cards = m.leases[x].cards
    BY <2>2, <2>3 DEF Lease
  <2>5. Live(tables') = Live(m) /\ Queued(tables') = Queued(m)
    BY <2>2 DEF Live, Queued
  <2>6. Serves(m, tables')
    BY <1>2, <2>2, <2>3, <2>4, <2>5, QueueUntouched
  <2>7. QED
    BY <1>2, <2>1, <2>5, <2>6, ServesOn
<1>5. QED
  BY <1>1, <1>3, <1>4 DEF Renewed

LEMMA ReleaseLeaseServes ==
    ASSUME Inv, NEW u \in Uid, NEW l \in RequestId, NEW now \in Nat,
           ReleaseLease(u, l, now)
    PROVE  Serves(tables, tables')
<1> DEFINE m == Maintain(tables, now)
<1>1. \/ tables' = m
      \/ l \in DOMAIN m.leases /\ tables' = Schedule(ReleaseLeases(m, {l}), now)
  BY DEF ReleaseLease, LeaseRefused, Known, Quietly, Notifying
<1>2. Sound(m)
  BY MaintainServes
<1>3. ASSUME l \in DOMAIN m.leases
      PROVE  l \in Live(m) /\ End(m, l) = ReleaseLeases(m, {l})
  <2> HIDE DEF m
  <2>1. QED
    BY <1>2, <1>3 DEF End, Sound, TasksMatchLeases
<1>4. QED
  BY <1>1, <1>3, QuietServes, EndedServes

LEMMA CancelTaskServes ==
    ASSUME Inv, Inv', NEW u \in Uid, NEW r \in RequestId, NEW now \in Nat,
           CancelTask(u, r, now)
    PROVE  Serves(tables, tables')
<1> DEFINE m == Maintain(tables, now)
           req == [m.requests[r] EXCEPT !.status = "canceling"]
<1>1. \/ tables' = m
      \/ r \in Live(m) /\ tables' = Schedule(End(m, r), now)
      \/ r \in Live(m) /\ tables' = [m EXCEPT !.requests[r] = req]
  BY DEF CancelTask, Refused, Quietly, Notifying
<1>2. CASE tables' = m
  BY <1>2, QuietServes
<1>3. CASE r \in Live(m) /\ tables' = Schedule(End(m, r), now)
  BY <1>3, EndedServes
<1>4. CASE r \in Live(m) /\ tables' = [m EXCEPT !.requests[r] = req]
  <2>1. Sound(m)
    BY MaintainServes
  <2> HIDE DEF m
  <2>2. m.requests[r] \in Request
    BY <2>1, <1>4 DEF Sound, TablesOK, IsTable, Live
  <2>3. req.demand = m.requests[r].demand
    BY <2>2 DEF Request
  <2> HIDE DEF req
  <2>4. QED
    BY <1>4, <2>3, ChangeServes DEF m
<1>5. QED
  BY <1>1, <1>2, <1>3, <1>4

\* Every step serves in order, and in full.
LEMMA StepsServe ==
    ASSUME Inv, [Next]_vars
    PROVE  Serves(tables, tables')
<1>0. clock \in Nat /\ Inv'
  BY NextInv DEF Inv, TypeOK
<1>1. ASSUME NEW u \in Uid, NEW now \in Now, Call(u, now)
      PROVE  Serves(tables, tables')
  <2>1. now \in Nat
    BY <1>0 DEF Now
  <2>2. QED
    BY <1>0, <1>1, <2>1, CreateRequestServes, GetRequestServes, CancelRequestServes,
       RenewLeaseServes, ReleaseLeaseServes, CancelTaskServes, QuietServes
       DEF Call, Status, Tasks, Quietly
<1>2. CASE Close \/ Tick \/ UNCHANGED vars
  BY <1>0, <1>2, QuietServes DEF Close, Tick, vars
<1>3. CASE Reaper
  BY <1>0, <1>3, QuietServes DEF Reaper
<1>4. QED
  BY <1>1, <1>2, <1>3 DEF Next

-----------------------------------------------------------------------------
(* The theorems. *)

\* All or none: a lease has the cards its request named, or as many as it asked
\* for, for any number of cards and however they are held.
THEOREM GrantsAreWhole == Spec => []AllOrNone
<1>1. Init => Whole(tables)
  BY DEF Init, Whole, Live
<1>2. Inv /\ Whole(tables) /\ [Next]_vars => Whole(tables)'
  <2> SUFFICES ASSUME Inv, Whole(tables), [Next]_vars
               PROVE  Whole(tables')
    OBVIOUS
  <2>1. QED
    BY StepsServe DEF Serves
<1>3. Whole(tables) => AllOrNone
  BY DEF Whole, AllOrNone, Filled
<1>4. QED
  BY <1>1, <1>2, <1>3, InitInv, NextInv, PTL DEF Spec

\* Strict FIFO: nobody is served past a ticket that came earlier and still waits,
\* be it one that waited behind it or one that joins in the very call, and those
\* that wait keep their order, whatever lapses and ends in the same step.
THEOREM ServedInOrder == Spec => StrictFIFO
<1>1. Inv /\ [Next]_vars => [InOrder]_vars
  <2> SUFFICES ASSUME Inv, [Next]_vars,
                      NEW a \in Queued(tables), NEW b \in Queued(tables) \cup Newcomers,
                      CameBefore(a, b), a \in Queued(tables')
               PROVE  /\ b \notin DOMAIN tables'.leases
                      /\ b \in Queued(tables') =>
                             Position(tables'.queue, a) < Position(tables'.queue, b)
    BY DEF InOrder
  <2>1. InLine(tables, tables') /\ NewBehind(tables, tables')
    BY StepsServe DEF Serves
  <2>2. /\ b \notin DOMAIN tables'.leases
        /\ \A k, l \in DOMAIN tables'.queue :
               tables'.queue[k] = a /\ tables'.queue[l] = b => k < l
    <3>1. CASE b \in Newcomers
      BY <3>1, <2>1 DEF NewBehind, Newcomers
    <3>2. CASE b \in Queued(tables) /\ Position(tables.queue, a) < Position(tables.queue, b)
      <4> DEFINE i == Position(tables.queue, a)
                 j == Position(tables.queue, b)
      <4>1. i \in DOMAIN tables.queue /\ tables.queue[i] = a
        BY DEF Position, Queued
      <4>2. j \in DOMAIN tables.queue /\ tables.queue[j] = b
        BY <3>2 DEF Position, Queued
      <4>3. i < j
        BY <3>2
      <4> HIDE DEF i, j
      <4>4. QED
        BY <2>1, <4>1, <4>2, <4>3 DEF InLine
    <3>3. QED
      BY <3>1, <3>2 DEF CameBefore
  <2>3. ASSUME b \in Queued(tables')
        PROVE  Position(tables'.queue, a) < Position(tables'.queue, b)
    <3> DEFINE k == Position(tables'.queue, a)
               l == Position(tables'.queue, b)
    <3>1. k \in DOMAIN tables'.queue /\ tables'.queue[k] = a
      BY DEF Position, Queued
    <3>2. l \in DOMAIN tables'.queue /\ tables'.queue[l] = b
      BY <2>3 DEF Position, Queued
    <3> HIDE DEF k, l
    <3>3. k < l
      BY <2>2, <3>1, <3>2
    <3>4. QED
      BY <3>3 DEF k, l
  <2>4. QED
    BY <2>2, <2>3
<1>2. QED
  BY <1>1, InitInv, NextInv, PTL DEF Spec, StrictFIFO
=============================================================================
