------------------------- MODULE LeaseManagerProofs -------------------------
(***************************************************************************)
(* Proofs about the daemon of LeaseManager, for any set of cards, users,   *)
(* requests, any TTLs and any age of a handler's clock reading: its tables *)
(* are well typed and consistent, a card has one holder at a time, no free *)
(* cards are left to a waiting head, and the reaper never oversleeps.      *)
(***************************************************************************)
EXTENDS LeaseManager, FiniteSetTheorems, SequenceTheorems, TLAPS

-----------------------------------------------------------------------------
(* Least elements, in place of induction: a statement about every number   *)
(* that fails has a least number at which it fails.                        *)

\* Every set of natural numbers that has an element has a least one (what
\* Soonest chooses for the reaper, and what the inductions below rest on).
LEMMA LeastElement ==
    ASSUME NEW T \in SUBSET Nat, T # {}
    PROVE  \E x \in T : \A y \in T : x <= y
<1> DEFINE R == StrictSubsetOrdering(Nat)
           segments == {1..n : n \in T}
<1>1. IsWellFoundedOn(R, FiniteSubsetsOf(Nat))
  BY FS_StrictSubsetOrderingWellFounded, Zenon
<1>2. segments \subseteq FiniteSubsetsOf(Nat)
  <2>1. \A n \in T : IsFiniteSet(1..n)
    BY FS_Interval
  <2>2. \A n \in T : 1..n \subseteq Nat
    OBVIOUS
  <2>3. QED
    BY <2>1, <2>2 DEF FiniteSubsetsOf
<1>3. segments # {}
  OBVIOUS
<1> HIDE DEF R, segments
<1>4. PICK s \in segments : \A t \in segments : <<t, s>> \notin R
  BY <1>1, <1>2, <1>3, WFMin, Zenon
<1>5. PICK x \in T : s = 1..x
  BY DEF segments
<1>6. \A y \in T : ~(y < x)
  <2> SUFFICES ASSUME NEW y \in T, y < x
               PROVE  FALSE
    OBVIOUS
  <2>1. 1..y \subseteq 1..x /\ 1..y # 1..x
    <3>1. x \in 1..x /\ x \notin 1..y
      OBVIOUS
    <3>2. QED
      BY <3>1
  <2>2. 1..y \in SUBSET Nat /\ 1..x \in SUBSET Nat
    OBVIOUS
  <2>3. <<1..y, 1..x>> \in R
    BY <2>1, <2>2 DEF R, StrictSubsetOrdering
  <2>4. QED
    BY <2>3, <1>4, <1>5 DEF segments
<1>7. QED
  BY <1>5, <1>6

-----------------------------------------------------------------------------
(* Drop *)

\* g is the function Drop is computed from, on a prefix of n tickets.
KeptIs(g, q, S, n) ==
    g = [i \in 0..n |-> IF i = 0 THEN <<>>
                        ELSE IF q[i] \in S THEN g[i - 1]
                        ELSE Append(g[i - 1], q[i])]

\* That function exists, for a prefix of any length.
LEMMA KeptExists ==
    ASSUME NEW q, NEW S, NEW n \in Nat
    PROVE  \E g : KeptIs(g, q, S, n)
<1> USE DEF KeptIs
<1> DEFINE Def(g, k) == KeptIs(g, q, S, k)
           Bad == {k \in Nat : ~ \E g : Def(g, k)}
<1>1. SUFFICES ASSUME Bad # {}
               PROVE  FALSE
  OBVIOUS
<1>2. PICK k \in Bad : \A j \in Bad : k <= j
  <2> HIDE DEF Bad
  <2>1. Bad \subseteq Nat
    BY DEF Bad
  <2>2. QED
    BY <1>1, <2>1, LeastElement
<1>3. CASE k = 0
  <2> DEFINE g == [i \in 0..0 |-> <<>>]
  <2>1. Def(g, 0)
    OBVIOUS
  <2>2. QED
    BY <2>1, <1>3
<1>4. CASE k # 0
  <2>1. k - 1 \in Nat /\ k - 1 \notin Bad
    <3>1. k \in Nat
      BY DEF Bad
    <3> HIDE DEF Bad
    <3>2. QED
      BY <3>1, <1>2, <1>4
  <2>2. PICK g : Def(g, k - 1)
    BY <2>1
  <2>0. k \in Nat
    OBVIOUS
  <2> DEFINE h == [i \in 0..k |-> IF i = k THEN IF q[k] \in S THEN g[k - 1]
                                                ELSE Append(g[k - 1], q[k])
                                  ELSE g[i]]
  <2>3. \A i \in 0..k : h[i] = IF i = 0 THEN <<>>
                               ELSE IF q[i] \in S THEN h[i - 1]
                               ELSE Append(h[i - 1], q[i])
    <3> SUFFICES ASSUME NEW i \in 0..k
                 PROVE  h[i] = IF i = 0 THEN <<>>
                               ELSE IF q[i] \in S THEN h[i - 1]
                               ELSE Append(h[i - 1], q[i])
      OBVIOUS
    <3> HIDE DEF Bad
    <3>1. CASE i = 0
      BY <3>1, <2>0, <1>4, <2>2, <2>1
    <3>2. CASE i # 0 /\ i # k
      <4>1. i \in 0..(k - 1) /\ i - 1 \in 0..(k - 1)
        BY <3>2, <2>0
      <4>2. h[i] = g[i] /\ h[i - 1] = g[i - 1]
        BY <4>1, <2>0, <3>2
      <4>3. QED
        BY <4>1, <4>2, <2>2, <3>2
    <3>3. CASE i = k
      BY <3>3, <2>0, <1>4
    <3>4. QED
      BY <3>1, <3>2, <3>3
  <2>4. Def(h, k)
    BY <2>3
  <2>5. QED
    BY <2>4, <1>2
<1>5. QED
  BY <1>3, <1>4

\* Dropping tickets from a queue without duplicates gives a queue without
\* duplicates that has all the others.
LEMMA DropProperties ==
    ASSUME NEW I, NEW q \in Seq(I), NEW S,
           \A i, j \in DOMAIN q : q[i] = q[j] => i = j
    PROVE  LET d == Drop(q, S)
           IN  /\ d \in Seq(I)
               /\ {d[i] : i \in DOMAIN d} = {q[i] : i \in DOMAIN q} \ S
               /\ \A i, j \in DOMAIN d : d[i] = d[j] => i = j
               /\ (\A i \in DOMAIN q : q[i] \notin S) => d = q
<1> DEFINE n == Len(q)
           kept[i \in 0..n] ==
               IF i = 0 THEN <<>>
               ELSE IF q[i] \in S THEN kept[i - 1]
               ELSE Append(kept[i - 1], q[i])
           Good(i) == /\ kept[i] \in Seq(I)
                      /\ {kept[i][j] : j \in 1..Len(kept[i])} = {q[j] : j \in 1..i} \ S
                      /\ \A j, k \in 1..Len(kept[i]) : kept[i][j] = kept[i][k] => j = k
                      /\ (\A j \in 1..n : q[j] \notin S) =>
                            /\ Len(kept[i]) = i
                            /\ \A j \in 1..i : kept[i][j] = q[j]
<1>1. n \in Nat /\ DOMAIN q = 1..n
  OBVIOUS
<1>2. kept = [i \in 0..n |-> IF i = 0 THEN <<>>
                             ELSE IF q[i] \in S THEN kept[i - 1]
                             ELSE Append(kept[i - 1], q[i])]
  <2>1. \E g : KeptIs(g, q, S, n)
    BY <1>1, KeptExists
  <2>2. KeptIs(kept, q, S, n)
    BY <2>1, Zenon DEF KeptIs
  <2>3. QED
    BY <2>2 DEF KeptIs
<1>3. Drop(q, S) = kept[n]
  BY DEF Drop
<1> HIDE DEF kept
<1>4. Good(0)
  BY <1>2, <1>1
<1>5. ASSUME NEW i \in 1..n, Good(i - 1)
      PROVE  Good(i)
  <2>1. kept[i] = IF q[i] \in S THEN kept[i - 1] ELSE Append(kept[i - 1], q[i])
    <3>1. i \in 0..n /\ i # 0
      BY <1>1
    <3>2. QED
      BY <1>2, <3>1
  <2>2. 1..i = 1..(i - 1) \cup {i} /\ i \notin 1..(i - 1) /\ i \in DOMAIN q
        /\ 1..(i - 1) \subseteq DOMAIN q
    BY <1>1
  <2>3. CASE q[i] \in S
    <3>1. kept[i] = kept[i - 1]
      BY <2>1, <2>3
    <3>2. {q[j] : j \in 1..i} \ S = {q[j] : j \in 1..(i - 1)} \ S
      BY <2>2, <2>3
    <3>3. ~ \A j \in 1..n : q[j] \notin S
      BY <2>3
    <3>4. QED
      BY <3>1, <3>2, <3>3, <1>5
  <2>4. CASE q[i] \notin S
    <3> DEFINE s == kept[i - 1]
               t == kept[i]
    <3>1. t = Append(s, q[i]) /\ s \in Seq(I) /\ q[i] \in I
      BY <2>1, <2>4, <1>5, <2>2
    <3>2. /\ t \in Seq(I) /\ Len(t) = Len(s) + 1 /\ Len(s) \in Nat
          /\ \A j \in 1..Len(s) : t[j] = s[j]
          /\ t[Len(s) + 1] = q[i]
      BY <3>1
    <3>0. {s[j] : j \in 1..Len(s)} = {q[j] : j \in 1..(i - 1)} \ S
      BY <1>5
    <3>3. q[i] \notin {s[j] : j \in 1..Len(s)}
      <4>1. \A j \in 1..(i - 1) : q[j] # q[i]
        BY <2>2
      <4>2. QED
        BY <4>1, <3>0
    <3> HIDE DEF s, t
    <3>4. {t[j] : j \in 1..Len(t)} = {s[j] : j \in 1..Len(s)} \cup {q[i]}
      BY <3>2
    <3>5. {q[j] : j \in 1..i} = {q[j] : j \in 1..(i - 1)} \cup {q[i]}
      BY <2>2
    <3>6. \A j, k \in 1..Len(t) : t[j] = t[k] => j = k
      <4>1. \A j, k \in 1..Len(s) : s[j] = s[k] => j = k
        BY <1>5 DEF s
      <4>2. QED
        BY <3>2, <3>3, <4>1
    <3>7. {s[j] : j \in 1..Len(s)} = {q[j] : j \in 1..(i - 1)} \ S
      BY <1>5 DEF s
    <3>8. {t[j] : j \in 1..Len(t)} = {q[j] : j \in 1..i} \ S
      BY <3>4, <3>5, <3>7, <2>4
    <3>9. ASSUME \A j \in 1..n : q[j] \notin S
          PROVE  Len(t) = i /\ \A j \in 1..i : t[j] = q[j]
      <4>1. Len(s) = i - 1 /\ \A j \in 1..(i - 1) : s[j] = q[j]
        BY <3>9, <1>5 DEF s
      <4>2. QED
        BY <4>1, <3>2, <2>2
    <3>10. QED
      BY <3>2, <3>6, <3>8, <3>9 DEF t
  <2>5. QED
    BY <2>3, <2>4
<1>6. Good(n)
  <2> DEFINE Bad == {i \in 0..n : ~Good(i)}
  <2> HIDE DEF Good
  <2>1. SUFFICES ASSUME Bad # {}
                 PROVE  FALSE
    BY <1>1
  <2>2. Bad \subseteq Nat
    BY <1>1
  <2>3. PICK k \in Bad : \A j \in Bad : k <= j
    <3> HIDE DEF Bad
    <3>1. QED
      BY <2>1, <2>2, LeastElement
  <2>4. k # 0 /\ k \in 1..n /\ k - 1 \in 0..n /\ k - 1 \notin Bad
    BY <2>3, <1>1, <1>4
  <2>5. QED
    BY <2>3, <2>4, <1>5
<1>7. Len(kept[n]) \in Nat /\ DOMAIN kept[n] = 1..Len(kept[n])
  BY <1>6
<1>8. QED
  <2> DEFINE s == kept[n]
  <2>1. /\ s \in Seq(I)
        /\ {s[j] : j \in 1..Len(s)} = {q[j] : j \in 1..n} \ S
        /\ \A j, k \in 1..Len(s) : s[j] = s[k] => j = k
        /\ DOMAIN s = 1..Len(s)
    BY <1>6, <1>7
  <2> HIDE DEF s
  <2>2. /\ s \in Seq(I)
        /\ {s[j] : j \in DOMAIN s} = {q[j] : j \in DOMAIN q} \ S
        /\ \A j, k \in DOMAIN s : s[j] = s[k] => j = k
    BY <2>1, <1>1, Zenon
  <2>3. ASSUME \A i \in DOMAIN q : q[i] \notin S
        PROVE  s = q
    <3>1. Len(s) = n /\ \A j \in 1..n : s[j] = q[j]
      BY <2>3, <1>6, <1>1 DEF s
    <3>2. QED
      BY <3>1, <2>1, <1>1
  <2>4. QED
    BY <2>2, <2>3, <1>3 DEF s

-----------------------------------------------------------------------------
(* The tables.  Sound is the inductive strengthening: a grant may not hit a *)
(* lease that exists already, which would lose the cards of that lease, and *)
(* what keeps it from doing so is that a queued request has no lease.       *)

Sound(m) ==
    /\ TablesOK(m)
    /\ HoldersAgree(m)
    /\ NoOrphanHolder(m)
    /\ TasksMatchLeases(m)

\* A demand in the table is met from free cards, whichever way it is put.
LEMMA SelectedIsFree ==
    ASSUME NEW m, NEW d \in Demand, Satisfiable(m, d)
    PROVE  Selected(m, d) \subseteq Free(m)
<1>1. CASE d.cards # None
  <2>1. d.cards \subseteq Card /\ d.cards \cap Held(m) = {}
    BY <1>1 DEF Satisfiable, Demand
  <2>2. Selected(m, d) = d.cards
    BY <1>1 DEF Selected
  <2>3. QED
    BY <2>1, <2>2 DEF Free
<1>2. CASE d.cards = None
  BY <1>2 DEF Selected
<1>3. QED
  BY <1>1, <1>2

\* Releasing leases keeps the tables sound.
LEMMA ReleaseSound ==
    ASSUME NEW m, Sound(m), NEW S \in SUBSET DOMAIN m.leases
    PROVE  /\ Sound(ReleaseLeases(m, S))
           /\ ReleaseLeases(m, S).queue = m.queue
<1> DEFINE n == ReleaseLeases(m, S)
<1>1. /\ n = [requests |-> Without(m.requests, S), queue |-> m.queue,
              leases |-> Without(m.leases, S),
              holders |-> Without(m.holders, {c \in Held(m) : m.holders[c] \in S})]
  BY DEF ReleaseLeases
<1> HIDE DEF n
<1>2. TablesOK(n)
  BY <1>1 DEF Sound, TablesOK, IsTable, Without, Held
<1>3. HoldersAgree(n)
  BY <1>1 DEF Sound, TablesOK, IsTable, HoldersAgree, Without, Held
<1>4. NoOrphanHolder(n)
  BY <1>1 DEF Sound, TablesOK, IsTable, NoOrphanHolder, Without, Held
<1>5. TasksMatchLeases(n)
  <2>1. S \cap Queued(m) = {}
    BY DEF Sound, TasksMatchLeases
  <2>2. Queued(n) = Queued(m)
    BY <1>1 DEF Queued
  <2>3. Live(n) = Live(m) \ S /\ \A r \in Live(n) : n.requests[r] = m.requests[r]
    BY <1>1 DEF Live, Without
  <2>4. DOMAIN n.leases = DOMAIN m.leases \ S
    BY <1>1 DEF Without
  <2>5. QED
    BY <1>1, <2>1, <2>2, <2>3, <2>4 DEF Sound, TasksMatchLeases
<1>6. QED
  BY <1>1, <1>2, <1>3, <1>4, <1>5 DEF Sound, n

\* Dropping tickets keeps the tables sound.
LEMMA DropTicketsSound ==
    ASSUME NEW m, Sound(m), NEW S \in SUBSET Queued(m)
    PROVE  Sound(DropTickets(m, S))
<1> DEFINE n == DropTickets(m, S)
<1>1. n = [requests |-> Without(m.requests, S), queue |-> Drop(m.queue, S),
           leases |-> m.leases, holders |-> m.holders]
  BY DEF DropTickets
<1>2. /\ Drop(m.queue, S) \in Seq(RequestId)
      /\ {Drop(m.queue, S)[i] : i \in DOMAIN Drop(m.queue, S)} = Queued(m) \ S
      /\ \A i, j \in DOMAIN Drop(m.queue, S) :
            Drop(m.queue, S)[i] = Drop(m.queue, S)[j] => i = j
  BY DropProperties DEF Sound, TablesOK, TasksMatchLeases, Queued
<1> HIDE DEF n
<1>3. TablesOK(n)
  BY <1>1, <1>2 DEF Sound, TablesOK, IsTable, Without
<1>4. HoldersAgree(n) /\ NoOrphanHolder(n)
  BY <1>1 DEF Sound, HoldersAgree, NoOrphanHolder, Held
<1>5. TasksMatchLeases(n)
  <2>1. S \cap DOMAIN m.leases = {}
    BY DEF Sound, TasksMatchLeases
  <2>2. Queued(n) = Queued(m) \ S
    BY <1>1, <1>2 DEF Queued
  <2>3. Live(n) = Live(m) \ S /\ \A r \in Live(n) : n.requests[r] = m.requests[r]
    BY <1>1 DEF Live, Without
  <2>4. Queued(n) \subseteq Live(n)
    BY <2>2, <2>3 DEF Sound, TasksMatchLeases
  <2>5. Queued(n) = {r \in Live(n) : n.requests[r].status = "queued"}
    BY <2>2, <2>3 DEF Sound, TasksMatchLeases
  <2>6. DOMAIN n.leases = Live(n) \ Queued(n)
    BY <1>1, <2>1, <2>2, <2>3 DEF Sound, TasksMatchLeases
  <2>7. \A r \in Queued(n) : n.requests[r].queueDeadline # None
    BY <2>2, <2>3, <2>4 DEF Sound, TasksMatchLeases
  <2>8. \A i, j \in DOMAIN n.queue : n.queue[i] = n.queue[j] => i = j
    BY <1>1, <1>2
  <2>9. QED
    BY <2>5, <2>6, <2>7, <2>8 DEF TasksMatchLeases
<1>6. QED
  BY <1>3, <1>4, <1>5 DEF Sound, n

\* A ticket of the line stands for a request in the table, still queued.
LEMMA QueuedRequest ==
    ASSUME NEW m, Sound(m), NEW r \in Queued(m)
    PROVE  /\ r \in Live(m) /\ r \in RequestId
           /\ m.requests[r] \in Request
           /\ m.requests[r].status = "queued"
           /\ m.requests[r].queueDeadline \in Nat
           /\ r \notin DOMAIN m.leases
<1>1. r \in Live(m) /\ m.requests[r].status = "queued" /\ r \notin DOMAIN m.leases
  BY DEF Sound, TasksMatchLeases
<1>2. m.requests[r] \in Request /\ r \in RequestId
  BY <1>1 DEF Sound, TablesOK, IsTable, Live
<1>3. m.requests[r].queueDeadline \in Nat
  BY <1>2 DEF Request, Sound, TasksMatchLeases
<1>4. QED
  BY <1>1, <1>2, <1>3

\* A grant lasts for some natural number of ticks.
LEMMA LeaseDurationType ==
    ASSUME NEW req \in Request
    PROVE  LeaseDuration(req) \in Nat
BY TimeAssumption DEF LeaseDuration, Request

\* The head of the queue, if there is one, cannot be granted.
Blocked(m) ==
    m.queue # <<>> => ~Satisfiable(m, m.requests[Head(m.queue)].demand)

\* One turn of the scheduling loop keeps the tables sound; it changes nothing
\* when the head is blocked, and takes one ticket off the queue otherwise; what
\* it grants lasts at least until now.
LEMMA GrantHeadSound ==
    ASSUME NEW m, Sound(m), NEW now \in Nat
    PROVE  LET n == GrantHead(m, now)
           IN  /\ Sound(n) /\ Live(n) = Live(m)
               /\ Blocked(m) => n = m
               /\ ~Blocked(m) => Len(n.queue) = Len(m.queue) - 1
               /\ \A t \in Deadlines(n) : t \in Deadlines(m) \/ t >= now
<1> DEFINE r == Head(m.queue)
           chosen == Selected(m, m.requests[r].demand)
           lease == [cards |-> chosen, started |-> now,
                     deadline |-> now + LeaseDuration(m.requests[r])]
           n == GrantHead(m, now)
<1>1. CASE m.queue = <<>> \/ ~Satisfiable(m, m.requests[r].demand)
  <2>1. n = m /\ Blocked(m)
    BY <1>1 DEF GrantHead, Blocked
  <2>2. QED
    BY <2>1
<1>2. CASE ~(m.queue = <<>> \/ ~Satisfiable(m, m.requests[r].demand))
  <2>1. n = [queue    |-> Tail(m.queue),
             leases   |-> With(m.leases, {r}, lease),
             holders  |-> With(m.holders, chosen, r),
             requests |-> [m.requests EXCEPT ![r].status = "granted",
                                             ![r].queueDeadline = None]]
    BY <1>2 DEF GrantHead
  <2>2. /\ m.queue \in Seq(RequestId) /\ m.queue # <<>>
        /\ r = m.queue[1] /\ 1 \in DOMAIN m.queue
    BY <1>2 DEF Sound, TablesOK
  <2>3. r \in Queued(m)
    BY <2>2 DEF Queued
  <2>4. /\ r \in Live(m) /\ r \in RequestId
        /\ m.requests[r] \in Request
        /\ r \notin DOMAIN m.leases
    BY <2>3, QueuedRequest
  <2>5. chosen \subseteq Free(m)
    BY <1>2, <2>4, SelectedIsFree DEF Request
  <2>6. lease \in Lease
    BY <2>4, <2>5, LeaseDurationType DEF Lease, Free
  <2> HIDE DEF r, chosen, lease, n
  <2>7. /\ Live(n) = Live(m)
        /\ \A x \in Live(m) \ {r} : n.requests[x] = m.requests[x]
        /\ n.requests[r] \in Request
        /\ n.requests[r].status = "granted"
        /\ n.requests \in [Live(n) -> Request]
    <3> DEFINE q == [m.requests EXCEPT ![r].status = "granted",
                                       ![r].queueDeadline = None]
    <3>1. m.requests \in [Live(m) -> Request]
      BY DEF Sound, TablesOK, IsTable, Live
    <3>2. /\ DOMAIN q = Live(m)
          /\ \A x \in Live(m) \ {r} : q[x] = m.requests[x]
          /\ q[r] = [m.requests[r] EXCEPT !.status = "granted", !.queueDeadline = None]
      BY <3>1, <2>4
    <3>3. q[r] \in Request /\ q[r].status = "granted"
      BY <3>2, <2>4 DEF Request
    <3>4. q \in [Live(m) -> Request]
      BY <3>1, <3>3, <2>4
    <3> HIDE DEF q
    <3>5. n.requests = q
      BY <2>1 DEF q
    <3>6. QED
      BY <3>2, <3>3, <3>4, <3>5 DEF Live
  <2>8. /\ DOMAIN n.leases = DOMAIN m.leases \cup {r}
        /\ n.leases[r] = lease
        /\ \A x \in DOMAIN m.leases : n.leases[x] = m.leases[x]
        /\ n.leases \in [DOMAIN n.leases -> Lease]
    BY <2>1, <2>4, <2>6 DEF With, Sound, TablesOK, IsTable
  <2>9. /\ Held(n) = Held(m) \cup chosen
        /\ \A c \in chosen : n.holders[c] = r
        /\ \A c \in Held(m) : n.holders[c] = m.holders[c]
        /\ n.holders \in [Held(n) -> RequestId]
        /\ Held(n) \subseteq Card
    BY <2>1, <2>4, <2>5 DEF With, Held, Free, Sound, TablesOK, IsTable
  <2>10. /\ n.queue \in Seq(RequestId)
         /\ Queued(n) = Queued(m) \ {r}
         /\ \A i, j \in DOMAIN n.queue : n.queue[i] = n.queue[j] => i = j
    <3>1. /\ n.queue \in Seq(RequestId)
          /\ Len(n.queue) = Len(m.queue) - 1
          /\ \A i \in 1..Len(n.queue) : n.queue[i] = m.queue[i + 1]
          /\ DOMAIN n.queue = 1..Len(n.queue)
          /\ DOMAIN m.queue = 1..Len(m.queue)
          /\ Len(m.queue) \in Nat
      BY <2>1, <2>2
    <3>2. \A i, j \in DOMAIN m.queue : m.queue[i] = m.queue[j] => i = j
      BY DEF Sound, TasksMatchLeases
    <3>3. \A i \in DOMAIN n.queue : n.queue[i] \in Queued(m) \ {r}
      <4> SUFFICES ASSUME NEW i \in DOMAIN n.queue
                   PROVE  n.queue[i] \in Queued(m) \ {r}
        OBVIOUS
      <4>1. i + 1 \in DOMAIN m.queue /\ i + 1 # 1 /\ n.queue[i] = m.queue[i + 1]
        BY <3>1
      <4>2. m.queue[i + 1] # r
        BY <4>1, <3>2, <2>2
      <4>3. QED
        BY <4>1, <4>2 DEF Queued
    <3>4. \A x \in Queued(m) \ {r} : \E i \in DOMAIN n.queue : n.queue[i] = x
      <4> SUFFICES ASSUME NEW i \in DOMAIN m.queue, m.queue[i] # r
                   PROVE  \E j \in DOMAIN n.queue : n.queue[j] = m.queue[i]
        BY DEF Queued
      <4>1. i - 1 \in DOMAIN n.queue /\ n.queue[i - 1] = m.queue[i]
        BY <3>1, <2>2
      <4>2. QED
        BY <4>1
    <3>5. Queued(n) = {n.queue[i] : i \in DOMAIN n.queue}
      BY DEF Queued
    <3>6. Queued(n) = Queued(m) \ {r}
      BY <3>3, <3>4, <3>5
    <3>7. \A i, j \in DOMAIN n.queue : n.queue[i] = n.queue[j] => i = j
      <4> SUFFICES ASSUME NEW i \in DOMAIN n.queue, NEW j \in DOMAIN n.queue,
                          n.queue[i] = n.queue[j]
                   PROVE  i = j
        OBVIOUS
      <4>1. /\ i \in Nat /\ j \in Nat
            /\ i + 1 \in DOMAIN m.queue /\ j + 1 \in DOMAIN m.queue
            /\ m.queue[i + 1] = m.queue[j + 1]
        BY <3>1
      <4>2. i + 1 = j + 1
        BY <4>1, <3>2
      <4>3. QED
        BY <4>1, <4>2
    <3>8. QED
      BY <3>1, <3>6, <3>7
  <2>11. TablesOK(n)
    <3>1. n = [requests |-> n.requests, queue |-> n.queue,
               leases |-> n.leases, holders |-> n.holders]
      BY <2>1
    <3>2. QED
      BY <3>1, <2>4, <2>7, <2>8, <2>9, <2>10
      DEF Sound, TablesOK, IsTable, Live, Held
  <2>12. HoldersAgree(n)
    <3> SUFFICES ASSUME NEW c \in Card, NEW l \in DOMAIN n.leases
                 PROVE  c \in n.leases[l].cards <=> c \in Held(n) /\ n.holders[c] = l
      BY DEF HoldersAgree
    <3>1. CASE l = r
      <4>1. n.leases[l].cards = chosen
        BY <3>1, <2>8 DEF lease
      <4>2. c \in Held(m) => m.holders[c] # r
        BY <2>4 DEF Sound, NoOrphanHolder
      <4>3. QED
        BY <3>1, <4>1, <4>2, <2>9
    <3>2. CASE l # r
      <4>1. l \in DOMAIN m.leases /\ n.leases[l] = m.leases[l]
        BY <3>2, <2>8
      <4>2. c \in m.leases[l].cards <=> c \in Held(m) /\ m.holders[c] = l
        BY <4>1 DEF Sound, HoldersAgree
      <4>3. c \in chosen => c \notin Held(m)
        BY <2>5 DEF Free
      <4>4. QED
        BY <3>2, <4>1, <4>2, <4>3, <2>9
    <3>3. QED
      BY <3>1, <3>2
  <2>13. NoOrphanHolder(n)
    BY <2>5, <2>8, <2>9 DEF Sound, NoOrphanHolder
  <2>14. TasksMatchLeases(n)
    BY <2>3, <2>4, <2>7, <2>8, <2>10 DEF Sound, TasksMatchLeases
  <2>15. \A t \in Deadlines(n) : t \in Deadlines(m) \/ t >= now
    <3>1. \A l \in DOMAIN n.leases :
             n.leases[l].deadline \in Deadlines(m) \/ n.leases[l].deadline >= now
      <4>1. LeaseDuration(m.requests[r]) \in Nat
        BY <2>4, LeaseDurationType
      <4>2. n.leases[r].deadline >= now
        BY <4>1, <2>8 DEF lease
      <4>3. QED
        BY <4>2, <2>8 DEF Deadlines
    <3>2. \A x \in Queued(n) : n.requests[x].queueDeadline \in Deadlines(m)
      BY <2>7, <2>10, QueuedRequest DEF Deadlines
    <3>3. QED
      BY <3>1, <3>2 DEF Deadlines
  <2>16. ~Blocked(m) /\ Len(n.queue) = Len(m.queue) - 1
    BY <1>2, <2>1, <2>2 DEF Blocked, r
  <2>17. QED
    BY <2>7, <2>11, <2>12, <2>13, <2>14, <2>15, <2>16 DEF Sound, n
<1>3. QED
  BY <1>1, <1>2

\* g is the function Schedule is computed from, on a prefix of n turns.
TurnsAre(g, m, now, n) ==
    g = [i \in 0..n |-> IF i = 0 THEN m ELSE GrantHead(g[i - 1], now)]

\* That function exists, for any number of turns.
LEMMA TurnsExist ==
    ASSUME NEW m, NEW now, NEW n \in Nat
    PROVE  \E g : TurnsAre(g, m, now, n)
<1> USE DEF TurnsAre
<1> DEFINE Def(g, k) == TurnsAre(g, m, now, k)
           Bad == {k \in Nat : ~ \E g : Def(g, k)}
<1>1. SUFFICES ASSUME Bad # {}
               PROVE  FALSE
  OBVIOUS
<1>2. PICK k \in Bad : \A j \in Bad : k <= j
  <2> HIDE DEF Bad
  <2>1. Bad \subseteq Nat
    BY DEF Bad
  <2>2. QED
    BY <1>1, <2>1, LeastElement
<1>3. CASE k = 0
  <2> DEFINE g == [i \in 0..0 |-> m]
  <2>1. Def(g, 0)
    OBVIOUS
  <2>2. QED
    BY <2>1, <1>3
<1>4. CASE k # 0
  <2>1. k - 1 \in Nat /\ k - 1 \notin Bad
    <3>1. k \in Nat
      BY DEF Bad
    <3> HIDE DEF Bad
    <3>2. QED
      BY <3>1, <1>2, <1>4
  <2>2. PICK g : Def(g, k - 1)
    BY <2>1
  <2>0. k \in Nat
    OBVIOUS
  <2> DEFINE h == [i \in 0..k |-> IF i = k THEN GrantHead(g[k - 1], now) ELSE g[i]]
  <2>3. \A i \in 0..k : h[i] = IF i = 0 THEN m ELSE GrantHead(h[i - 1], now)
    <3> SUFFICES ASSUME NEW i \in 0..k
                 PROVE  h[i] = IF i = 0 THEN m ELSE GrantHead(h[i - 1], now)
      OBVIOUS
    <3> HIDE DEF Bad
    <3>1. CASE i = 0
      BY <3>1, <2>0, <1>4, <2>2, <2>1
    <3>2. CASE i # 0 /\ i # k
      <4>1. i \in 0..(k - 1) /\ i - 1 \in 0..(k - 1)
        BY <3>2, <2>0
      <4>2. h[i] = g[i] /\ h[i - 1] = g[i - 1]
        BY <4>1, <2>0, <3>2
      <4>3. QED
        BY <4>1, <4>2, <2>2, <3>2
    <3>3. CASE i = k
      <4>1. h[k - 1] = g[k - 1] /\ h[k] = GrantHead(g[k - 1], now)
        BY <2>0, <1>4
      <4>2. QED
        BY <4>1, <3>3, <1>4
    <3>4. QED
      BY <3>1, <3>2, <3>3
  <2>4. Def(h, k)
    BY <2>3
  <2>5. QED
    BY <2>4, <1>2
<1>5. QED
  BY <1>3, <1>4

\* The whole loop keeps the tables sound and ends with a blocked head.
LEMMA ScheduleSound ==
    ASSUME NEW m, Sound(m), NEW now \in Nat
    PROVE  LET n == Schedule(m, now)
           IN  /\ Sound(n) /\ Live(n) = Live(m)
               /\ Blocked(n)
               /\ Blocked(m) => n = m
               /\ \A t \in Deadlines(n) : t \in Deadlines(m) \/ t >= now
<1> DEFINE n == Len(m.queue)
           after[i \in 0..n] == IF i = 0 THEN m ELSE GrantHead(after[i - 1], now)
           Good(i) == /\ Sound(after[i]) /\ Live(after[i]) = Live(m)
                      /\ Blocked(after[i]) \/ Len(after[i].queue) = n - i
                      /\ Blocked(m) => after[i] = m
                      /\ \A t \in Deadlines(after[i]) : t \in Deadlines(m) \/ t >= now
           Bad == {i \in 0..n : ~Good(i)}
<1>1. n \in Nat
  BY DEF Sound, TablesOK
<1>2. after = [i \in 0..n |-> IF i = 0 THEN m ELSE GrantHead(after[i - 1], now)]
  <2>1. \E g : TurnsAre(g, m, now, n)
    BY <1>1, TurnsExist
  <2>2. TurnsAre(after, m, now, n)
    BY <2>1, Zenon DEF TurnsAre
  <2>3. QED
    BY <2>2 DEF TurnsAre
<1>3. Schedule(m, now) = after[n]
  BY DEF Schedule
<1>4. after[0] = m
  <2> HIDE DEF after, n
  <2>1. QED
    BY <1>1, <1>2
<1>5. \A i \in 1..n : after[i] = GrantHead(after[i - 1], now)
  <2> HIDE DEF after, n
  <2>1. QED
    BY <1>1, <1>2
<1> HIDE DEF after
<1>6. Good(0)
  BY <1>4, <1>1
<1>7. ASSUME NEW i \in 1..n, Good(i - 1)
      PROVE  Good(i)
  <2> DEFINE a == after[i - 1]
             b == after[i]
  <2>1. b = GrantHead(a, now)
    BY <1>5
  <2>2. /\ Sound(a) /\ Live(a) = Live(m)
        /\ Blocked(a) \/ Len(a.queue) = n - (i - 1)
        /\ Blocked(m) => a = m
        /\ \A t \in Deadlines(a) : t \in Deadlines(m) \/ t >= now
    BY <1>7
  <2> HIDE DEF a, b, n
  <2>3. /\ Sound(b) /\ Live(b) = Live(a)
        /\ Blocked(a) => b = a
        /\ ~Blocked(a) => Len(b.queue) = Len(a.queue) - 1
        /\ \A t \in Deadlines(b) : t \in Deadlines(a) \/ t >= now
    BY <2>1, <2>2, GrantHeadSound
  <2>4. Blocked(b) \/ Len(b.queue) = n - i
    <3>1. CASE Blocked(a)
      BY <3>1, <2>3
    <3>2. CASE ~Blocked(a)
      BY <3>2, <2>2, <2>3, <1>1
    <3>3. QED
      BY <3>1, <3>2
  <2>5. Blocked(m) => b = m
    BY <2>2, <2>3
  <2>6. \A t \in Deadlines(b) : t \in Deadlines(m) \/ t >= now
    BY <2>2, <2>3
  <2>7. QED
    BY <2>2, <2>3, <2>4, <2>5, <2>6 DEF b
<1>8. Good(n)
  <2> HIDE DEF Good, n
  <2>1. SUFFICES ASSUME Bad # {}
                 PROVE  FALSE
    BY <1>1
  <2>2. Bad \subseteq Nat
    BY <1>1
  <2>3. PICK k \in Bad : \A j \in Bad : k <= j
    <3> HIDE DEF Bad
    <3>1. QED
      BY <2>1, <2>2, LeastElement
  <2>4. k # 0 /\ k \in 1..n /\ k - 1 \in 0..n /\ k - 1 \notin Bad
    BY <2>3, <1>1, <1>6
  <2>5. QED
    BY <2>3, <2>4, <1>7
<1>9. Blocked(after[n])
  <2>1. after[n].queue \in Seq(RequestId)
    BY <1>8 DEF Sound, TablesOK
  <2>2. Blocked(after[n]) \/ Len(after[n].queue) = n - n
    BY <1>8
  <2> HIDE DEF n
  <2>3. Len(after[n].queue) = n - n => after[n].queue = <<>>
    BY <2>1, <1>1
  <2>4. QED
    BY <2>2, <2>3 DEF Blocked
<1>10. QED
  BY <1>3, <1>8, <1>9

\* The reaper, if it waits, wakes in time for every deadline of m.
InTime(m) ==
    reaper = "waiting" => \A t \in Deadlines(m) : wakeAt # None /\ wakeAt <= t

\* What every call does first keeps the tables sound, adds no request, leaves a
\* blocked head, and leaves no deadline that the reaper sleeps through: it
\* grants nothing unless something has expired, and then the reaper, whose
\* sleep ends at that deadline or before, is up by any time a grant may end.
LEMMA MaintainSound ==
    ASSUME NEW m, Sound(m), NEW now \in Nat
    PROVE  LET n == Maintain(m, now)
           IN  /\ Sound(n) /\ Live(n) \subseteq Live(m)
               /\ Blocked(n)
               /\ Blocked(m) /\ InTime(m) /\ wakeAt \in Nat \cup {None} => InTime(n)
<1> DEFINE lapsed == ExpiredLeases(m, now)
           reaped == ReleaseLeases(m, lapsed)
           late == ExpiredTickets(reaped, now)
           dropped == DropTickets(reaped, late)
           n == Maintain(m, now)
<1>1. /\ reaped = [requests |-> Without(m.requests, lapsed), queue |-> m.queue,
                   leases |-> Without(m.leases, lapsed),
                   holders |-> Without(m.holders, {c \in Held(m) : m.holders[c] \in lapsed})]
      /\ dropped = [requests |-> Without(reaped.requests, late),
                    queue |-> Drop(reaped.queue, late),
                    leases |-> reaped.leases, holders |-> reaped.holders]
      /\ n = Schedule(dropped, now)
  BY DEF ReleaseLeases, DropTickets, Maintain
<1>2. Sound(reaped) /\ lapsed \subseteq DOMAIN m.leases
  BY ReleaseSound DEF ExpiredLeases
<1>3. Sound(dropped) /\ late \subseteq Queued(reaped)
  <2> HIDE DEF reaped
  <2>1. QED
    BY <1>2, DropTicketsSound DEF ExpiredTickets
<1>4. Live(reaped) \subseteq Live(m) /\ Live(dropped) \subseteq Live(reaped)
  BY DEF ReleaseLeases, DropTickets, Live, Without
<1>5. Queued(reaped) = Queued(m) /\ Queued(dropped) = Queued(m) \ late
  <2>1. Queued(reaped) = Queued(m)
    BY <1>1 DEF Queued
  <2> HIDE DEF reaped, late, dropped
  <2>2. /\ reaped.queue \in Seq(RequestId)
        /\ \A i, j \in DOMAIN reaped.queue : reaped.queue[i] = reaped.queue[j] => i = j
    BY <1>2 DEF Sound, TablesOK, TasksMatchLeases
  <2>3. Queued(dropped) = Queued(reaped) \ late
    <3>1. {Drop(reaped.queue, late)[i] : i \in DOMAIN Drop(reaped.queue, late)}
          = {reaped.queue[i] : i \in DOMAIN reaped.queue} \ late
      BY <2>2, DropProperties
    <3>2. dropped.queue = Drop(reaped.queue, late)
      BY <1>1
    <3>3. QED
      BY <3>1, <3>2 DEF Queued
  <2>4. QED
    BY <2>1, <2>3
<1>6. \A r \in Queued(m) : reaped.requests[r] = m.requests[r]
  <2> SUFFICES ASSUME NEW r \in Queued(m)
               PROVE  reaped.requests[r] = m.requests[r]
    OBVIOUS
  <2>1. r \in DOMAIN m.requests /\ r \notin lapsed
    BY <1>2, QueuedRequest DEF Live
  <2>2. reaped.requests = Without(m.requests, lapsed)
    BY <1>1
  <2> HIDE DEF reaped, lapsed
  <2>3. QED
    BY <2>1, <2>2 DEF Without
<1>7. \A r \in Queued(dropped) : dropped.requests[r] = m.requests[r]
  <2> HIDE DEF reaped, late, dropped
  <2>1. \A r \in Queued(dropped) : r \in Live(dropped)
    BY <1>3, QueuedRequest
  <2>2. \A r \in Live(dropped) : dropped.requests[r] = reaped.requests[r]
    BY <1>1 DEF Live, Without
  <2>3. QED
    BY <2>1, <2>2, <1>5, <1>6
<1>8. Deadlines(dropped) \subseteq Deadlines(m)
  <2>1. /\ DOMAIN dropped.leases \subseteq DOMAIN m.leases
        /\ \A l \in DOMAIN dropped.leases : dropped.leases[l] = m.leases[l]
    BY <1>1 DEF Without
  <2> HIDE DEF dropped, late
  <2>2. QED
    BY <2>1, <1>5, <1>7 DEF Deadlines
<1>9. /\ Sound(n) /\ Live(n) = Live(dropped) /\ Blocked(n)
      /\ Blocked(dropped) => n = dropped
      /\ \A t \in Deadlines(n) : t \in Deadlines(dropped) \/ t >= now
  <2> HIDE DEF dropped, n
  <2>1. QED
    BY <1>1, <1>3, ScheduleSound
<1>10. ASSUME Blocked(m), InTime(m), wakeAt \in Nat \cup {None}
       PROVE  InTime(n)
  <2>1. CASE lapsed = {} /\ late = {}
    <3>1. reaped.holders = m.holders
      BY <2>1, <1>1 DEF Without, Held, Sound, TablesOK, IsTable
    <3>2. dropped.holders = m.holders
      BY <3>1, <1>1
    <3> HIDE DEF reaped, lapsed
    <3>3. /\ reaped.queue = m.queue /\ reaped.queue \in Seq(RequestId)
          /\ \A i, j \in DOMAIN reaped.queue : reaped.queue[i] = reaped.queue[j] => i = j
      BY <1>1, <1>2 DEF Sound, TablesOK, TasksMatchLeases
    <3> HIDE DEF late
    <3>4. Drop(reaped.queue, late) = reaped.queue
      BY <2>1, <3>3, DropProperties
    <3>5. dropped.queue = m.queue
      BY <3>3, <3>4, <1>1
    <3> HIDE DEF dropped, n
    <3>6. Blocked(dropped)
      <4>1. CASE m.queue = <<>>
        BY <4>1, <3>5 DEF Blocked
      <4>2. CASE m.queue # <<>>
        <5>1. Head(m.queue) \in Queued(dropped)
          <6>1. 1 \in DOMAIN m.queue /\ Head(m.queue) = m.queue[1]
            BY <4>2, <3>3
          <6>2. QED
            BY <6>1, <3>5 DEF Queued
        <5>2. dropped.requests[Head(m.queue)] = m.requests[Head(m.queue)]
          BY <5>1, <1>7
        <5>3. QED
          BY <5>2, <3>2, <3>5, <1>10 DEF Blocked, Satisfiable, Free, Held
      <4>3. QED
        BY <4>1, <4>2
    <3>7. QED
      BY <3>6, <1>8, <1>9, <1>10 DEF InTime
  <2>2. CASE lapsed # {} \/ late # {}
    <3>1. \E t \in Deadlines(m) : t <= now
      <4>1. CASE lapsed # {}
        BY <4>1 DEF ExpiredLeases, Deadlines
      <4>2. CASE late # {}
        <5>1. \A r \in late : r \in Queued(m) /\ reaped.requests[r].queueDeadline <= now
          BY <1>5 DEF ExpiredTickets
        <5>2. QED
          BY <5>1, <4>2, <1>6 DEF Deadlines
      <4>3. QED
        BY <2>2, <4>1, <4>2
    <3> HIDE DEF lapsed, reaped, late, dropped, n
    <3>2. Deadlines(m) \subseteq Nat /\ Deadlines(n) \subseteq Nat
      <4>1. \A x : Sound(x) => Deadlines(x) \subseteq Nat
        <5> SUFFICES ASSUME NEW x, Sound(x)
                     PROVE  Deadlines(x) \subseteq Nat
          OBVIOUS
        <5>1. \A l \in DOMAIN x.leases : x.leases[l].deadline \in Nat
          BY DEF Sound, TablesOK, IsTable, Lease
        <5>2. \A r \in Queued(x) : x.requests[r].queueDeadline \in Nat
          BY QueuedRequest
        <5>3. QED
          BY <5>1, <5>2 DEF Deadlines
      <4>2. QED
        BY <4>1, <1>9
    <3>3. reaper = "waiting" => wakeAt \in Nat /\ wakeAt <= now
      BY <3>1, <3>2, <1>10, NoneAssumption DEF InTime
    <3>4. QED
      BY <3>2, <3>3, <1>8, <1>9, <1>10, NoneAssumption DEF InTime
  <2>3. QED
    BY <2>1, <2>2
<1>11. QED
  <2> HIDE DEF dropped, reaped, n
  <2>1. QED
    BY <1>4, <1>9, <1>10 DEF n

\* Ending a live task, queued or granted, keeps the tables sound.
LEMMA EndSound ==
    ASSUME NEW m, Sound(m), NEW r \in Live(m)
    PROVE  Sound(End(m, r))
<1>1. CASE m.requests[r].status = "queued"
  <2>1. {r} \in SUBSET Queued(m)
    BY <1>1 DEF Sound, TasksMatchLeases
  <2>2. End(m, r) = DropTickets(m, {r})
    BY <1>1 DEF End
  <2>3. QED
    BY <2>1, <2>2, DropTicketsSound
<1>2. CASE m.requests[r].status # "queued"
  <2>1. {r} \in SUBSET DOMAIN m.leases
    BY <1>2 DEF Sound, TasksMatchLeases
  <2>2. End(m, r) = ReleaseLeases(m, {r})
    BY <1>2 DEF End
  <2>3. QED
    BY <2>1, <2>2, ReleaseSound
<1>3. QED
  BY <1>1, <1>2

\* A new request at the end of the queue keeps the tables sound.
LEMMA JoinSound ==
    ASSUME NEW m, Sound(m), NEW r \in RequestId \ Live(m),
           NEW ticket \in Request,
           ticket.status = "queued", ticket.queueDeadline # None
    PROVE  Sound(Join(m, r, ticket))
<1> DEFINE n == Join(m, r, ticket)
<1>1. n = [requests |-> With(m.requests, {r}, ticket), queue |-> Append(m.queue, r),
           leases |-> m.leases, holders |-> m.holders]
  BY DEF Join
<1> HIDE DEF n
<1>2. /\ Live(n) = Live(m) \cup {r}
      /\ n.requests[r] = ticket
      /\ \A x \in Live(m) : n.requests[x] = m.requests[x]
      /\ n.requests \in [Live(n) -> Request]
  BY <1>1 DEF Live, With, Sound, TablesOK, IsTable
<1>3. r \notin Queued(m)
  BY QueuedRequest
<1>4. /\ n.queue \in Seq(RequestId)
      /\ Len(n.queue) = Len(m.queue) + 1 /\ Len(m.queue) \in Nat
      /\ DOMAIN m.queue = 1..Len(m.queue) /\ DOMAIN n.queue = 1..(Len(m.queue) + 1)
      /\ \A i \in DOMAIN m.queue : n.queue[i] = m.queue[i]
      /\ n.queue[Len(m.queue) + 1] = r
  BY <1>1 DEF Sound, TablesOK
<1>5. Queued(n) = Queued(m) \cup {r}
  BY <1>4 DEF Queued
<1>6. \A i, j \in DOMAIN n.queue : n.queue[i] = n.queue[j] => i = j
  <2>1. \A i, j \in DOMAIN m.queue : m.queue[i] = m.queue[j] => i = j
    BY DEF Sound, TasksMatchLeases
  <2>2. \A i \in DOMAIN m.queue : m.queue[i] # r
    BY <1>3 DEF Queued
  <2>3. QED
    BY <2>1, <2>2, <1>4
<1>7. TablesOK(n)
  BY <1>1, <1>2, <1>4 DEF Sound, TablesOK, IsTable, Live
<1>8. HoldersAgree(n) /\ NoOrphanHolder(n)
  BY <1>1 DEF Sound, HoldersAgree, NoOrphanHolder, Held
<1>9. TasksMatchLeases(n)
  <2>1. r \notin DOMAIN m.leases
    BY DEF Sound, TasksMatchLeases
  <2>2. DOMAIN n.leases = Live(n) \ Queued(n)
    BY <1>1, <1>2, <1>5, <2>1 DEF Sound, TasksMatchLeases
  <2>3. Queued(n) = {x \in Live(n) : n.requests[x].status = "queued"}
    BY <1>2, <1>5 DEF Sound, TasksMatchLeases
  <2>4. \A x \in Queued(n) : n.requests[x].queueDeadline # None
    BY <1>2, <1>5, QueuedRequest, NoneAssumption DEF Sound, TasksMatchLeases
  <2>5. QED
    BY <1>6, <2>2, <2>3, <2>4 DEF TasksMatchLeases
<1>10. QED
  BY <1>7, <1>8, <1>9 DEF Sound, n

\* Changing a request without queueing or dequeueing it keeps the tables sound.
LEMMA RequestChangedSound ==
    ASSUME NEW m, Sound(m), NEW r \in Live(m), NEW req \in Request,
           req.status = "queued" <=> m.requests[r].status = "queued",
           req.status = "queued" => req.queueDeadline # None,
           req.demand = m.requests[r].demand, Blocked(m)
    PROVE  Sound([m EXCEPT !.requests[r] = req]) /\ Blocked([m EXCEPT !.requests[r] = req])
<1> DEFINE n == [m EXCEPT !.requests[r] = req]
           table == [m.requests EXCEPT ![r] = req]
<1>1. n = [requests |-> table, queue |-> m.queue,
           leases |-> m.leases, holders |-> m.holders]
  BY DEF Sound, TablesOK
<1>2. /\ DOMAIN table = Live(m) /\ table[r] = req
      /\ \A x \in Live(m) \ {r} : table[x] = m.requests[x]
      /\ table \in [Live(m) -> Request]
      /\ Live(m) \subseteq RequestId
  BY DEF Live, Sound, TablesOK, IsTable
<1> HIDE DEF n, table
<1>3. TablesOK(n)
  BY <1>1, <1>2 DEF Sound, TablesOK, IsTable, Live
<1>4. HoldersAgree(n) /\ NoOrphanHolder(n)
  BY <1>1 DEF Sound, HoldersAgree, NoOrphanHolder, Held
<1>5. TasksMatchLeases(n)
  <2>1. Queued(n) = Queued(m) /\ Live(n) = Live(m)
    BY <1>1, <1>2 DEF Queued, Live
  <2>2. QED
    BY <1>1, <1>2, <2>1 DEF Sound, TasksMatchLeases
<1>6. Blocked(n)
  <2> SUFFICES ASSUME m.queue # <<>>
               PROVE  ~Satisfiable(n, n.requests[Head(m.queue)].demand)
    BY <1>1 DEF Blocked
  <2>1. Head(m.queue) \in Live(m)
    <3>1. m.queue \in Seq(RequestId)
      BY DEF Sound, TablesOK
    <3>2. 1 \in DOMAIN m.queue /\ Head(m.queue) = m.queue[1]
      BY <3>1
    <3>3. QED
      BY <3>2, QueuedRequest DEF Queued
  <2>2. n.requests[Head(m.queue)].demand = m.requests[Head(m.queue)].demand
    BY <1>1, <1>2, <2>1
  <2>3. n.holders = m.holders
    BY <1>1
  <2>4. QED
    BY <2>2, <2>3 DEF Blocked, Satisfiable, Free, Held
<1>7. QED
  BY <1>3, <1>4, <1>5, <1>6 DEF Sound, n

\* Renewing a lease keeps the tables sound.
LEMMA RenewedSound ==
    ASSUME NEW m, Sound(m), Blocked(m), NEW l \in DOMAIN m.leases, NEW now \in Nat
    PROVE  Sound(Renewed(m, l, now)) /\ Blocked(Renewed(m, l, now))
<1>1. CASE m.requests[l].reservation # None
  BY <1>1 DEF Renewed
<1>2. CASE m.requests[l].reservation = None
  <2> DEFINE n == Renewed(m, l, now)
             table == [m.leases EXCEPT ![l].deadline = now + LeaseTTL]
  <2>1. n = [requests |-> m.requests, queue |-> m.queue,
             leases |-> table, holders |-> m.holders]
    BY <1>2 DEF Sound, TablesOK, Renewed
  <2>2. m.leases \in [DOMAIN m.leases -> Lease] /\ DOMAIN m.leases \subseteq RequestId
    BY DEF Sound, TablesOK, IsTable
  <2>3. now + LeaseTTL \in Nat
    BY TimeAssumption
  <2>4. /\ DOMAIN table = DOMAIN m.leases
        /\ table[l] = [m.leases[l] EXCEPT !.deadline = now + LeaseTTL]
        /\ \A x \in DOMAIN m.leases \ {l} : table[x] = m.leases[x]
    BY <2>2
  <2>5. table[l] \in Lease /\ table[l].cards = m.leases[l].cards
    BY <2>2, <2>3, <2>4 DEF Lease
  <2>6. table \in [DOMAIN m.leases -> Lease]
    BY <2>2, <2>4, <2>5
  <2> HIDE DEF n, table
  <2>7. TablesOK(n)
    BY <2>1, <2>2, <2>4, <2>6 DEF Sound, TablesOK, IsTable
  <2>8. HoldersAgree(n)
    <3>1. \A x \in DOMAIN m.leases : table[x].cards = m.leases[x].cards
      BY <2>4, <2>5
    <3>2. Held(n) = Held(m) /\ n.holders = m.holders
      BY <2>1 DEF Held
    <3>3. n.leases = table
      BY <2>1
    <3>4. QED
      BY <2>4, <3>1, <3>2, <3>3 DEF Sound, HoldersAgree
  <2>9. NoOrphanHolder(n)
    BY <2>1, <2>4 DEF Sound, NoOrphanHolder, Held
  <2>10. TasksMatchLeases(n)
    BY <2>1, <2>4 DEF Sound, TasksMatchLeases, Queued, Live
  <2>11. Blocked(n)
    BY <2>1 DEF Blocked, Satisfiable, Free, Held
  <2>12. QED
    BY <2>7, <2>8, <2>9, <2>10, <2>11 DEF Sound, n
<1>3. QED
  BY <1>1, <1>2

-----------------------------------------------------------------------------
(* The inductive invariant, and the two ways in which a handler ends. *)

Inv == TypeOK /\ HoldersMatchLeases /\ TablesAgree /\ HeadBlocked /\ ReaperInTime

\* The same, as the lemmas about the tables put it.
Settled(m) == Sound(m) /\ Blocked(m)

Code == {"ok", "invalid_request", "forbidden", "not_found", "task_canceled",
         "shutting_down", None}

\* The invariant in terms of the tables' lemmas.
LEMMA InvIsSettled ==
    Inv <=> TypeOK /\ Settled(tables) /\ InTime(tables)
BY DEF Inv, Settled, Sound, Blocked, InTime, TypeOK, HoldersMatchLeases,
       TablesAgree, HeadBlocked, ReaperInTime

\* The same of the next state.
LEMMA InvIsSettledNext ==
    TypeOK' /\ Settled(tables')
        /\ (reaper' = "waiting" =>
               \A t \in Deadlines(tables') : wakeAt' # None /\ wakeAt' <= t)
    => Inv'
BY DEF Inv, Settled, Sound, Blocked, TypeOK, HoldersMatchLeases, TablesAgree,
       HeadBlocked, ReaperInTime

\* What every call does first keeps all of it.
LEMMA MaintainSettled ==
    ASSUME Inv, NEW now \in Nat
    PROVE  LET m == Maintain(tables, now)
           IN  Settled(m) /\ InTime(m) /\ Live(m) \subseteq Live(tables)
<1>1. Sound(tables) /\ Blocked(tables) /\ InTime(tables) /\ wakeAt \in Nat \cup {None}
  BY InvIsSettled DEF Settled, TypeOK
<1>2. QED
  BY <1>1, MaintainSound DEF Settled

\* A call answered without waking anyone keeps the invariant.
LEMMA QuietlyKeeps ==
    ASSUME Inv, NEW m, Settled(m), InTime(m), NEW u \in Uid, NEW code \in Code,
           Answer(u, code), Quietly(m)
    PROVE  Inv'
<1>1. TypeOK'
  BY DEF Inv, TypeOK, Answer, Quietly, Code, Settled, Sound
<1>2. QED
  BY <1>1, InvIsSettledNext DEF Quietly, InTime

\* A call that wakes the reaper keeps the invariant.
LEMMA NotifyingKeeps ==
    ASSUME Inv, NEW m, Settled(m), NEW u \in Uid, NEW code \in Code,
           Answer(u, code), Notifying(m)
    PROVE  Inv'
<1>1. TypeOK'
  BY DEF Inv, TypeOK, Answer, Notifying, NotifyAll, Code, Settled, Sound
<1>2. reaper' # "waiting"
  BY DEF Notifying, NotifyAll
<1>3. QED
  BY <1>1, <1>2, InvIsSettledNext DEF Notifying

\* A refused call keeps the invariant.
LEMMA RefusedKeeps ==
    ASSUME Inv, NEW m, Settled(m), InTime(m), NEW u \in Uid, NEW code \in Code,
           NEW r, Refused(m, r, u, code) \/ LeaseRefused(m, r, u, code)
    PROVE  Inv'
<1>1. \E c \in Code : Answer(u, c) /\ Quietly(m)
  BY DEF Refused, LeaseRefused, Code
<1>2. QED
  BY <1>1, QuietlyKeeps

\* What validation lets in has the type of a ticket.
LEMMA TicketType ==
    ASSUME NEW u \in Uid, NEW d \in Demands, NEW reservation \in Reservations,
           Valid(d, reservation), NEW now \in Nat
    PROVE  [uid |-> u, demand |-> d, reservation |-> reservation,
            status |-> "queued", queueDeadline |-> now + QueueTTL] \in Request
<1>1. d \in Demand
  <2>1. d = [cards |-> d.cards, count |-> d.count]
    BY InputAssumption
  <2>2. d.cards \in (SUBSET Card) \cup {None}
    BY DEF Valid, ValidDemand
  <2>3. d.count \in Nat \cup {None}
    BY InputAssumption DEF Valid, ValidDemand
  <2>4. QED
    BY <2>1, <2>2, <2>3 DEF Demand
<1>2. reservation \in Nat \cup {None}
  BY InputAssumption DEF Valid, ValidReservation
<1>3. now + QueueTTL \in Nat
  BY TimeAssumption
<1>4. QED
  BY <1>1, <1>2, <1>3 DEF Request

\* The reaper always sleeps until some instant, or until it is woken.
LEMMA SoonestType ==
    ASSUME NEW m, Sound(m), Deadlines(m) # {}
    PROVE  /\ Deadlines(m) \subseteq Nat
           /\ Soonest(Deadlines(m)) \in Deadlines(m)
           /\ \A t \in Deadlines(m) : Soonest(Deadlines(m)) <= t
<1>1. \A l \in DOMAIN m.leases : m.leases[l].deadline \in Nat
  BY DEF Sound, TablesOK, IsTable, Lease
<1>2. \A r \in Queued(m) : m.requests[r].queueDeadline \in Nat
  BY QueuedRequest
<1>3. Deadlines(m) \subseteq Nat
  BY <1>1, <1>2 DEF Deadlines
<1>4. \E t \in Deadlines(m) : \A u \in Deadlines(m) : t <= u
  BY <1>3, LeastElement
<1>5. QED
  BY <1>3, <1>4 DEF Soonest

-----------------------------------------------------------------------------
(* One lemma per call. *)

\* A new ticket is well typed and comes to the end of a maintained queue.
LEMMA CreateRequestKeeps ==
    ASSUME Inv, NEW u \in Uid, NEW r \in RequestId, NEW d \in Demands,
           NEW reservation \in Reservations, NEW now \in Nat,
           CreateRequest(u, r, d, reservation, now)
    PROVE  Inv'
<1>1. Settled(tables) /\ InTime(tables) /\ r \notin Live(tables)
  BY InvIsSettled DEF CreateRequest
<1>2. CASE ~Valid(d, reservation) \/ closed
  <2>1. \E code \in Code : Answer(u, code) /\ Quietly(tables)
    BY <1>2 DEF CreateRequest, Code
  <2>2. QED
    BY <1>1, <2>1, QuietlyKeeps
<1>3. CASE Valid(d, reservation) /\ ~closed
  <2> DEFINE m == Maintain(tables, now)
             ticket == [uid |-> u, demand |-> d, reservation |-> reservation,
                        status |-> "queued", queueDeadline |-> now + QueueTTL]
             n == Schedule(Join(m, r, ticket), now)
  <2>1. Answer(u, "ok") /\ Notifying(n)
    BY <1>3 DEF CreateRequest
  <2>2. Sound(m) /\ r \notin Live(m)
    BY <1>1, MaintainSettled DEF Settled
  <2>3. /\ ticket \in Request
        /\ ticket.status = "queued" /\ ticket.queueDeadline # None
    BY <1>3, TicketType, TimeAssumption, NoneAssumption
  <2> HIDE DEF m, ticket
  <2>4. Settled(n)
    BY <2>2, <2>3, JoinSound, ScheduleSound DEF Settled
  <2> HIDE DEF n
  <2>5. QED
    BY <2>1, <2>4, NotifyingKeeps DEF Code
<1>4. QED
  BY <1>2, <1>3

\* A poll moves the deadline of a queued ticket and no demand.
LEMMA GetRequestKeeps ==
    ASSUME Inv, NEW u \in Uid, NEW r \in RequestId, NEW now \in Nat,
           GetRequest(u, r, now)
    PROVE  Inv'
<1> DEFINE m == Maintain(tables, now)
           n == [m EXCEPT !.requests[r].queueDeadline = now + QueueTTL]
<1>1. Settled(m) /\ InTime(m)
  BY MaintainSettled
<1>2. \/ Refused(m, r, u, "not_found")
      \/ r \in Live(m) /\ m.requests[r].status = "queued"
         /\ Answer(u, "ok") /\ Notifying(n)
      \/ Answer(u, "ok") /\ Quietly(m)
  BY DEF GetRequest
<1> HIDE DEF m
<1>3. CASE Refused(m, r, u, "not_found")
  BY <1>1, <1>3, RefusedKeeps DEF Code
<1>4. CASE r \in Live(m) /\ m.requests[r].status = "queued"
           /\ Answer(u, "ok") /\ Notifying(n)
  <2> DEFINE req == [m.requests[r] EXCEPT !.queueDeadline = now + QueueTTL]
  <2>1. n = [m EXCEPT !.requests[r] = req]
    OBVIOUS
  <2>2. m.requests[r] \in Request
    BY <1>1, <1>4 DEF Settled, Sound, TablesOK, IsTable, Live
  <2>3. /\ req \in Request /\ req.status = "queued" /\ req.queueDeadline # None
        /\ req.demand = m.requests[r].demand
    BY <1>4, <2>2, TimeAssumption, NoneAssumption DEF Request
  <2> HIDE DEF n, req
  <2>4. Settled(n)
    BY <1>1, <1>4, <2>1, <2>3, RequestChangedSound DEF Settled
  <2>5. QED
    BY <1>4, <2>4, NotifyingKeeps DEF Code
<1>5. CASE Answer(u, "ok") /\ Quietly(m)
  BY <1>1, <1>5, QuietlyKeeps DEF Code
<1>6. QED
  BY <1>2, <1>3, <1>4, <1>5

\* A withdrawal ends the task and schedules.
LEMMA CancelRequestKeeps ==
    ASSUME Inv, NEW u \in Uid, NEW r \in RequestId, NEW now \in Nat,
           CancelRequest(u, r, now)
    PROVE  Inv'
<1> DEFINE m == Maintain(tables, now)
           n == Schedule(End(m, r), now)
<1>1. Settled(m) /\ InTime(m)
  BY MaintainSettled
<1>2. \/ Refused(m, r, u, "not_found")
      \/ r \in Live(m) /\ Answer(u, "ok") /\ Notifying(n)
  BY DEF CancelRequest
<1> HIDE DEF m
<1>3. ASSUME r \in Live(m)
      PROVE  Settled(n)
  BY <1>1, <1>3, EndSound, ScheduleSound DEF Settled
<1> HIDE DEF n
<1>4. QED
  BY <1>1, <1>2, <1>3, RefusedKeeps, NotifyingKeeps DEF Code

\* A renewal moves a deadline, and leaves cards and queue alone.
LEMMA RenewLeaseKeeps ==
    ASSUME Inv, NEW u \in Uid, NEW l \in RequestId, NEW now \in Nat,
           RenewLease(u, l, now)
    PROVE  Inv'
<1> DEFINE m == Maintain(tables, now)
           n == Renewed(m, l, now)
<1>1. Settled(m) /\ InTime(m)
  BY MaintainSettled
<1>2. \/ LeaseRefused(m, l, u, "not_found")
      \/ Answer(u, "task_canceled") /\ Quietly(m)
      \/ l \in DOMAIN m.leases /\ Answer(u, "ok") /\ Notifying(n)
  BY DEF RenewLease, Known
<1> HIDE DEF m
<1>3. ASSUME l \in DOMAIN m.leases
      PROVE  Settled(n)
  BY <1>1, <1>3, RenewedSound DEF Settled
<1> HIDE DEF n
<1>4. QED
  BY <1>1, <1>2, <1>3, RefusedKeeps, NotifyingKeeps, QuietlyKeeps DEF Code

\* A release frees the cards and schedules.
LEMMA ReleaseLeaseKeeps ==
    ASSUME Inv, NEW u \in Uid, NEW l \in RequestId, NEW now \in Nat,
           ReleaseLease(u, l, now)
    PROVE  Inv'
<1> DEFINE m == Maintain(tables, now)
           n == Schedule(ReleaseLeases(m, {l}), now)
<1>1. Settled(m) /\ InTime(m)
  BY MaintainSettled
<1>2. \/ LeaseRefused(m, l, u, "ok")
      \/ l \in DOMAIN m.leases /\ Answer(u, "ok") /\ Notifying(n)
  BY DEF ReleaseLease, Known
<1> HIDE DEF m
<1>3. ASSUME l \in DOMAIN m.leases
      PROVE  Settled(n)
  BY <1>1, <1>3, ReleaseSound, ScheduleSound DEF Settled
<1> HIDE DEF n
<1>4. QED
  BY <1>1, <1>2, <1>3, RefusedKeeps, NotifyingKeeps DEF Code

\* A cancellation ends a ticket or a reservation, or marks a command.
LEMMA CancelTaskKeeps ==
    ASSUME Inv, NEW u \in Uid, NEW r \in RequestId, NEW now \in Nat,
           CancelTask(u, r, now)
    PROVE  Inv'
<1> DEFINE m == Maintain(tables, now)
           ended == Schedule(End(m, r), now)
           n == [m EXCEPT !.requests[r].status = "canceling"]
<1>1. Settled(m) /\ InTime(m)
  BY MaintainSettled
<1>2. \/ Refused(m, r, u, "not_found")
      \/ r \in Live(m) /\ Answer(u, "ok") /\ Notifying(ended)
      \/ r \in Live(m) /\ m.requests[r].status # "queued"
         /\ Answer(u, "ok") /\ Notifying(n)
  BY DEF CancelTask
<1> HIDE DEF m
<1>3. ASSUME r \in Live(m)
      PROVE  Settled(ended)
  BY <1>1, <1>3, EndSound, ScheduleSound DEF Settled
<1>4. ASSUME r \in Live(m), m.requests[r].status # "queued"
      PROVE  Settled(n)
  <2> DEFINE req == [m.requests[r] EXCEPT !.status = "canceling"]
  <2>1. n = [m EXCEPT !.requests[r] = req]
    OBVIOUS
  <2>2. m.requests[r] \in Request
    BY <1>1, <1>4 DEF Settled, Sound, TablesOK, IsTable, Live
  <2>3. /\ req \in Request /\ req.status # "queued"
        /\ req.demand = m.requests[r].demand
    BY <2>2 DEF Request
  <2> HIDE DEF n, req
  <2>4. QED
    BY <1>1, <1>4, <2>1, <2>3, RequestChangedSound DEF Settled
<1> HIDE DEF n, ended
<1>5. QED
  BY <1>1, <1>2, <1>3, <1>4, RefusedKeeps, NotifyingKeeps DEF Code

\* The two listings reap and schedule and wake nobody.
LEMMA ListingKeeps ==
    ASSUME Inv, NEW u \in Uid, NEW includeAll \in BOOLEAN, NEW now \in Nat,
           Status(u, now) \/ Tasks(u, includeAll, now)
    PROVE  Inv'
<1> DEFINE m == Maintain(tables, now)
<1>1. Settled(tables) /\ InTime(tables) /\ Settled(m) /\ InTime(m)
  BY InvIsSettled, MaintainSettled
<1>2. \/ Answer(u, "ok") /\ Quietly(m)
      \/ Answer(u, "forbidden") /\ Quietly(tables)
  BY DEF Status, Tasks
<1> HIDE DEF m
<1>3. QED
  BY <1>1, <1>2, QuietlyKeeps DEF Code

\* The reaper reaps, schedules, and waits for the soonest deadline.
LEMMA ReaperKeeps ==
    ASSUME Inv, Reaper
    PROVE  Inv'
<1>0. Settled(tables) /\ clock \in Nat
  BY InvIsSettled DEF TypeOK
<1>1. CASE closed
  <2>1. reaper' = "stopped" /\ UNCHANGED tables
    BY <1>1 DEF Reaper
  <2>2. TypeOK'
    BY <1>1 DEF Inv, Reaper, TypeOK, NoReply
  <2>3. QED
    BY <1>0, <2>1, <2>2, InvIsSettledNext
<1>2. CASE ~closed
  <2>1. /\ tables' = Maintain(tables, clock) /\ reaper' = "waiting"
        /\ wakeAt' = IF Deadlines(tables') = {} THEN None
                                                ELSE Soonest(Deadlines(tables'))
        /\ reply' = NoReply /\ UNCHANGED <<closed, clock>>
    BY <1>2 DEF Reaper
  <2>2. Settled(tables')
    BY <1>0, <2>1, MaintainSettled
  <2>3. /\ wakeAt' \in Nat \cup {None}
        /\ \A t \in Deadlines(tables') : wakeAt' # None /\ wakeAt' <= t
    BY <2>1, <2>2, SoonestType, NoneAssumption DEF Settled
  <2>4. TypeOK'
    BY <2>1, <2>2, <2>3 DEF Inv, TypeOK, NoReply, Settled, Sound
  <2>5. QED
    BY <2>2, <2>3, <2>4, InvIsSettledNext
<1>3. QED
  BY <1>1, <1>2

-----------------------------------------------------------------------------
(* The theorems. *)

\* The daemon starts with empty tables, which are sound.
LEMMA InitInv ==
    Init => Inv
<1> SUFFICES ASSUME Init
             PROVE  Inv
  OBVIOUS
<1>1. TypeOK
  <2>1. \A K, V : IsTable(<<>>, K, V)
    BY DEF IsTable
  <2>2. TablesOK(tables)
    BY <2>1 DEF Init, TablesOK
  <2>3. QED
    BY <2>2 DEF Init, TypeOK, NoReply
<1>2. HoldersMatchLeases /\ TablesAgree
  BY DEF Init, HoldersMatchLeases, HoldersAgree, NoOrphanHolder, TablesAgree,
         TasksMatchLeases, Held, Live, Queued
<1>3. HeadBlocked /\ ReaperInTime
  BY DEF Init, HeadBlocked, ReaperInTime
<1>4. QED
  BY <1>1, <1>2, <1>3 DEF Inv

\* Every step keeps the invariant.
LEMMA NextInv ==
    Inv /\ [Next]_vars => Inv'
<1> SUFFICES ASSUME Inv, [Next]_vars
             PROVE  Inv'
  OBVIOUS
<1>1. CASE UNCHANGED vars
  BY <1>1 DEF vars, Inv, TypeOK, HoldersMatchLeases, TablesAgree, HeadBlocked,
              ReaperInTime
<1>2. ASSUME NEW u \in Uid, NEW now \in Now, Call(u, now)
      PROVE  Inv'
  <2>1. now \in Nat
    BY DEF Now, Inv, TypeOK
  <2>2. ASSUME NEW r \in RequestId, NEW d \in Demands, NEW res \in Reservations,
               CreateRequest(u, r, d, res, now)
        PROVE  Inv'
    BY <2>1, <2>2, CreateRequestKeeps
  <2>3. ASSUME NEW r \in RequestId, GetRequest(u, r, now)
        PROVE  Inv'
    BY <2>1, <2>3, GetRequestKeeps
  <2>4. ASSUME NEW r \in RequestId, CancelRequest(u, r, now)
        PROVE  Inv'
    BY <2>1, <2>4, CancelRequestKeeps
  <2>5. ASSUME NEW r \in RequestId, RenewLease(u, r, now)
        PROVE  Inv'
    BY <2>1, <2>5, RenewLeaseKeeps
  <2>6. ASSUME NEW r \in RequestId, ReleaseLease(u, r, now)
        PROVE  Inv'
    BY <2>1, <2>6, ReleaseLeaseKeeps
  <2>7. ASSUME NEW r \in RequestId, CancelTask(u, r, now)
        PROVE  Inv'
    BY <2>1, <2>7, CancelTaskKeeps
  <2>8. CASE Status(u, now)
    BY <2>1, <2>8, ListingKeeps
  <2>9. ASSUME NEW includeAll \in BOOLEAN, Tasks(u, includeAll, now)
        PROVE  Inv'
    BY <2>1, <2>9, ListingKeeps
  <2>10. QED
    BY <1>2, <2>2, <2>3, <2>4, <2>5, <2>6, <2>7, <2>8, <2>9 DEF Call
<1>3. CASE Close
  BY <1>3 DEF Close, NotifyAll, Inv, TypeOK, NoReply, HoldersMatchLeases,
              TablesAgree, HeadBlocked, ReaperInTime
<1>4. CASE Reaper
  BY <1>4, ReaperKeeps
<1>5. CASE Tick
  BY <1>5 DEF Tick, Inv, TypeOK, NoReply, HoldersMatchLeases, TablesAgree,
              HeadBlocked, ReaperInTime
<1>6. QED
  BY <1>1, <1>2, <1>3, <1>4, <1>5 DEF Next

\* The tables, the reaper's state and the answers keep their types.
THEOREM TypeCorrect == Spec => []TypeOK
<1>1. Inv => TypeOK
  BY DEF Inv
<1>2. QED
  BY <1>1, InitInv, NextInv, PTL DEF Spec

\* A card has one holder at a time: the leases and the holders table agree, so
\* no two leases list the same card and no card outlives its lease.
THEOREM OneHolderPerCard == Spec => []HoldersMatchLeases
<1>1. Inv => HoldersMatchLeases
  BY DEF Inv
<1>2. QED
  BY <1>1, InitInv, NextInv, PTL DEF Spec

\* The request table, the queue and the lease table agree, so no handler looks
\* up an entry that is not there.
THEOREM TablesConsistent == Spec => []TablesAgree
<1>1. Inv => TablesAgree
  BY DEF Inv
<1>2. QED
  BY <1>1, InitInv, NextInv, PTL DEF Spec

\* No missed scheduling: no call, and no turn of the reaper, leaves the head of
\* the queue waiting for cards that are free.
THEOREM NoMissedScheduling == Spec => []HeadBlocked
<1>1. Inv => HeadBlocked
  BY DEF Inv
<1>2. QED
  BY <1>1, InitInv, NextInv, PTL DEF Spec

\* The reaper never sleeps through a deadline, though several calls schedule
\* without waking it and every call may work with an old clock reading.
THEOREM NeverOversleeps == Spec => []ReaperInTime
<1>1. Inv => ReaperInTime
  BY DEF Inv
<1>2. QED
  BY <1>1, InitInv, NextInv, PTL DEF Spec

=============================================================================
