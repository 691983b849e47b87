----------------------------- MODULE PoolProofs -----------------------------
(***************************************************************************)
(* Proof that the daemon's tables implement the pool of GpuPool: what one  *)
(* call does with the queue and the cards, however many turns of the       *)
(* scheduling loop it takes and whatever lapsed before, is one service of  *)
(* the line.                                                               *)
(***************************************************************************)
EXTENDS LeaseManagerPool, QueueProofs

-----------------------------------------------------------------------------
(* The end of a sequence. *)

\* A sequence without duplicates whose elements are the last ones of another, in
\* the same order, is its end.
LEMMA EndOfSequence ==
    ASSUME NEW I, NEW a \in Seq(I), NEW q \in Seq(I),
           \A i, j \in DOMAIN a : a[i] = a[j] => i = j,
           \A k, l \in DOMAIN q : q[k] = q[l] => k = l,
           \A k \in DOMAIN q : \E i \in DOMAIN a : a[i] = q[k],
           \A i, j \in DOMAIN a : \A k \in DOMAIN q :
               i < j /\ q[k] = a[i] => \E l \in DOMAIN q : q[l] = a[j],
           \A i, j \in DOMAIN a : \A k, l \in DOMAIN q :
               i < j /\ q[k] = a[i] /\ q[l] = a[j] => k < l
    PROVE  LET n == Len(a) - Len(q)
           IN  /\ n \in 0..Len(a)
               /\ q = SubSeq(a, n + 1, Len(a))
               /\ \A i \in DOMAIN a : i \in 1..n <=> \A k \in DOMAIN q : q[k] # a[i]
<1> DEFINE A == Len(a)
           Q == Len(q)
           at == [k \in 1..Q |-> CHOOSE i \in 1..A : a[i] = q[k]]
<1>1. A \in Nat /\ Q \in Nat /\ DOMAIN a = 1..A /\ DOMAIN q = 1..Q
  OBVIOUS
<1>2. \A k \in 1..Q : at[k] \in 1..A /\ a[at[k]] = q[k]
  BY <1>1
<1> HIDE DEF at
<1>3. \A k, l \in 1..Q : k < l => at[k] < at[l]
  <2> SUFFICES ASSUME NEW k \in 1..Q, NEW l \in 1..Q, k < l
               PROVE  at[k] < at[l]
    OBVIOUS
  <2>0. at[k] \in 1..A /\ at[l] \in 1..A /\ a[at[k]] = q[k] /\ a[at[l]] = q[l]
    BY <1>2
  <2>1. ~(at[l] < at[k])
    BY <2>0, <1>1
  <2>2. at[l] # at[k]
    <3> SUFFICES ASSUME at[l] = at[k]
                 PROVE  FALSE
      OBVIOUS
    <3>1. q[k] = q[l]
      BY <2>0
    <3>2. QED
      BY <3>1, <1>1
  <2>3. QED
    BY <2>0, <2>1, <2>2, <1>1
<1>4. ASSUME NEW k \in 1..Q, NEW j \in 1..A, at[k] < j
      PROVE  \E l \in 1..Q : k < l /\ at[l] = j
  <2>1. at[k] \in 1..A /\ a[at[k]] = q[k]
    BY <1>2
  <2>2. PICK l \in 1..Q : q[l] = a[j]
    BY <1>1, <1>4, <2>1
  <2>3. k < l
    BY <1>1, <1>4, <2>1, <2>2
  <2>4. at[l] = j
    BY <1>1, <1>2, <2>2
  <2>5. QED
    BY <2>3, <2>4
<1>5. \A k \in 1..Q : k < Q => at[k + 1] = at[k] + 1
  <2> SUFFICES ASSUME NEW k \in 1..Q, k < Q, at[k + 1] # at[k] + 1
               PROVE  FALSE
    OBVIOUS
  <2>1. k + 1 \in 1..Q /\ k < k + 1
    BY <1>1
  <2>2. at[k] \in 1..A /\ at[k + 1] \in 1..A /\ at[k] < at[k + 1]
    BY <2>1, <1>2, <1>3
  <2>3. at[k] + 1 \in 1..A /\ at[k] < at[k] + 1 /\ at[k] + 1 < at[k + 1]
    BY <2>2, <1>1
  <2>4. PICK l \in 1..Q : k < l /\ at[l] = at[k] + 1
    BY <2>3, <1>4
  <2>5. k + 1 < l \/ l = k + 1
    BY <2>1, <2>4, <1>1
  <2>6. QED
    BY <2>1, <2>2, <2>3, <2>4, <2>5, <1>3
<1>6. Q # 0 => at[Q] = A
  <2> SUFFICES ASSUME Q # 0, at[Q] # A
               PROVE  FALSE
    OBVIOUS
  <2>1. Q \in 1..Q
    BY <1>1
  <2>2. at[Q] \in 1..A /\ at[Q] < A /\ A \in 1..A
    BY <2>1, <1>1, <1>2
  <2>3. PICK l \in 1..Q : Q < l
    BY <2>1, <2>2, <1>4
  <2>4. QED
    BY <2>3, <1>1
<1>7. \A k \in 1..Q : at[k] = A - Q + k
  <2> DEFINE Bad == {b \in 0..Q : b < Q /\ at[Q - b] # A - b}
  <2>1. Bad = {}
    <3> SUFFICES ASSUME Bad # {}
                 PROVE  FALSE
      OBVIOUS
    <3>1. Bad \subseteq Nat
      BY <1>1
    <3>2. PICK b \in Bad : \A c \in Bad : b <= c
      <4> HIDE DEF Bad
      <4>1. QED
        BY <3>1, LeastElement
    <3>3. b \in Nat /\ b < Q /\ at[Q - b] # A - b
      BY <1>1
    <3>4. b # 0
      BY <3>3, <1>1, <1>6
    <3>5. b - 1 \in 0..Q /\ b - 1 < Q /\ b - 1 \notin Bad
      <4>1. b - 1 \in 0..Q /\ b - 1 < Q /\ ~(b <= b - 1)
        BY <3>3, <3>4, <1>1
      <4> HIDE DEF Bad
      <4>2. QED
        BY <4>1, <3>2
    <3>6. at[Q - (b - 1)] = A - (b - 1)
      BY <3>5
    <3>7. Q - b \in 1..Q /\ Q - b < Q /\ (Q - b) + 1 = Q - (b - 1)
      BY <3>3, <3>4, <1>1
    <3>8. at[Q - (b - 1)] = at[Q - b] + 1
      BY <3>7, <1>5
    <3>9. at[Q - b] \in 1..A
      BY <3>7, <1>2
    <3>10. at[Q - b] + 1 = A - (b - 1)
      BY <3>6, <3>8
    <3>11. at[Q - b] = A - b
      <4> HIDE DEF A, Q
      <4>1. QED
        BY <3>3, <3>9, <3>10, <1>1
    <3>12. QED
      BY <3>3, <3>11
  <2> SUFFICES ASSUME NEW k \in 1..Q
               PROVE  at[k] = A - Q + k
    OBVIOUS
  <2>2. Q - k \in 0..Q /\ Q - k < Q /\ Q - (Q - k) = k
    BY <1>1
  <2>3. at[Q - (Q - k)] = A - (Q - k)
    BY <2>1, <2>2
  <2>4. QED
    BY <2>2, <2>3, <1>1
<1> DEFINE n == A - Q
<1>8. n \in 0..A /\ \A k \in 1..Q : n + k \in 1..A /\ q[k] = a[n + k]
  <2>1. \A k \in 1..Q : n + k \in 1..A /\ q[k] = a[n + k]
    BY <1>2, <1>7
  <2>2. CASE Q = 0
    BY <2>2, <1>1
  <2>3. CASE Q # 0
    <3>1. 1 \in 1..Q
      BY <2>3, <1>1
    <3>2. n + 1 \in 1..A
      BY <3>1, <2>1
    <3>3. QED
      BY <2>1, <3>2, <1>1
  <2>4. QED
    BY <2>1, <2>2, <2>3
<1>9. q = SubSeq(a, n + 1, A)
  <2> DEFINE t == SubSeq(a, n + 1, A)
  <2>1. t \in Seq(I) /\ Len(t) = Q /\ \A k \in 1..Q : t[k] = a[n + k]
    BY <1>1, <1>8
  <2> HIDE DEF t, n
  <2>2. t = [k \in 1..Q |-> t[k]] /\ q = [k \in 1..Q |-> q[k]]
    BY <2>1
  <2>3. \A k \in 1..Q : t[k] = q[k]
    BY <2>1, <1>8
  <2>4. t = q
    BY <2>2, <2>3
  <2>5. QED
    BY <2>4 DEF t
<1>10. \A i \in 1..A : i \in 1..n <=> \A k \in 1..Q : q[k] # a[i]
  <2> SUFFICES ASSUME NEW i \in 1..A
               PROVE  i \in 1..n <=> \A k \in 1..Q : q[k] # a[i]
    OBVIOUS
  <2>1. ASSUME i \in 1..n, NEW k \in 1..Q, q[k] = a[i]
        PROVE  FALSE
    <3>1. n + k \in 1..A /\ a[n + k] = a[i]
      BY <2>1, <1>8
    <3>2. n + k = i
      BY <3>1, <1>1
    <3>3. QED
      BY <2>1, <3>2, <1>1, <1>8
  <2>2. ASSUME i \notin 1..n
        PROVE  \E k \in 1..Q : q[k] = a[i]
    <3>1. i - n \in 1..Q /\ n + (i - n) = i
      BY <2>2, <1>1, <1>8
    <3>2. QED
      BY <3>1, <1>8
  <2>3. QED
    BY <2>1, <2>2
<1>11. QED
  BY <1>1, <1>8, <1>9, <1>10

-----------------------------------------------------------------------------
(* Who stays and who joins. *)

\* From m to n a task that stays keeps its demand, and its cards if it has some.
Stays(m, n) ==
    /\ \A r \in Live(m) \cap Live(n) : n.requests[r].demand = m.requests[r].demand
    /\ \A l \in DOMAIN m.leases : l \in Live(n) =>
          l \in DOMAIN n.leases /\ n.leases[l].cards = m.leases[l].cards

\* At most one task is new, the last one in the queue; if it is served, so is
\* everyone else.
Joins(m, n) ==
    \A x \in Live(n) \ Live(m) :
        /\ n.requests[x].demand \in Demands
        /\ \A y \in Live(n) \ Live(m) : y = x
        /\ x \in DOMAIN n.leases => n.queue = <<>>
        /\ \A k, l \in DOMAIN n.queue : n.queue[k] # x /\ n.queue[l] = x => k < l

Follows(m, n) == Stays(m, n) /\ Joins(m, n)

LEMMA CarriedFollows ==
    ASSUME NEW m, NEW n, Carries(m, n)
    PROVE  Follows(m, n)
BY DEF Follows, Stays, Joins, Carries, SameTask

\* What changes neither tasks, demands nor cards.
LEMMA TouchedFollows ==
    ASSUME NEW m, NEW n, NEW o, Carries(m, n), Live(o) = Live(n),
           DOMAIN n.leases \subseteq DOMAIN o.leases,
           \A r \in Live(n) : o.requests[r].demand = n.requests[r].demand,
           \A l \in DOMAIN n.leases : o.leases[l].cards = n.leases[l].cards
    PROVE  Follows(m, o)
<1>1. Joins(m, o)
  BY DEF Joins, Carries
<1>2. Stays(m, o)
  BY DEF Stays, Carries, SameTask
<1>3. QED
  BY <1>1, <1>2 DEF Follows

LEMMA QuietFollows ==
    ASSUME Inv, NEW now \in Nat, tables' = tables \/ tables' = Maintain(tables, now)
    PROVE  Follows(tables, tables')
BY MaintainEvolves, CarriesItself, CarriedFollows

LEMMA EndedFollows ==
    ASSUME Inv, NEW now \in Nat, NEW r \in Live(Maintain(tables, now)),
           tables' = Schedule(End(Maintain(tables, now), r), now)
    PROVE  Follows(tables, tables')
<1> DEFINE m == Maintain(tables, now)
           e == End(m, r)
<1>1. Sound(m) /\ Carries(tables, m)
  BY MaintainEvolves
<1> HIDE DEF m
<1>2. Sound(e) /\ Carries(m, e)
  BY <1>1, EndSound, EndCarries DEF m
<1> HIDE DEF e
<1>3. Carries(e, tables')
  BY <1>2, ScheduleCarries DEF e, m
<1>4. QED
  BY <1>1, <1>2, <1>3, CarriesOn, CarriedFollows

\* A change of one request that leaves its demand alone.
LEMMA ChangeFollows ==
    ASSUME Inv, NEW now \in Nat, NEW r \in Live(Maintain(tables, now)), NEW req,
           req.demand = Maintain(tables, now).requests[r].demand,
           tables' = [Maintain(tables, now) EXCEPT !.requests[r] = req]
    PROVE  Follows(tables, tables')
<1> DEFINE m == Maintain(tables, now)
<1>1. Sound(m) /\ Carries(tables, m)
  BY MaintainEvolves
<1> HIDE DEF m
<1>2. tables'.requests = [m.requests EXCEPT ![r] = req] /\ tables'.leases = m.leases
  BY <1>1 DEF Sound, TablesOK, m
<1>3. /\ Live(tables') = Live(m)
      /\ \A x \in Live(m) : tables'.requests[x].demand = m.requests[x].demand
  BY <1>2 DEF Live, m
<1>4. QED
  BY <1>1, <1>2, <1>3, TouchedFollows

-----------------------------------------------------------------------------
(* One lemma per call that does more. *)

LEMMA CreateRequestFollows ==
    ASSUME Inv, NEW u \in Uid, NEW r \in RequestId, NEW d \in Demands,
           NEW reservation \in Reservations, NEW now \in Nat,
           CreateRequest(u, r, d, reservation, now)
    PROVE  Follows(tables, tables')
<1>1. CASE ~Valid(d, reservation) \/ closed
  <2>1. tables' = tables
    BY <1>1 DEF CreateRequest, Quietly
  <2>2. QED
    BY <2>1, QuietFollows
<1>2. CASE Valid(d, reservation) /\ ~closed
  <2> DEFINE m == Maintain(tables, now)
             ticket == [uid |-> u, demand |-> d, reservation |-> reservation,
                        status |-> "queued", queueDeadline |-> now + QueueTTL]
             j == Join(m, r, ticket)
             n == Schedule(j, now)
  <2>1. tables' = n /\ r \notin Live(tables)
    BY <1>2 DEF CreateRequest, Notifying
  <2>2. Sound(tables) /\ Sound(m) /\ Carries(tables, m) /\ r \notin Live(m)
    BY <2>1, MaintainEvolves DEF Carries
  <2>3. /\ ticket \in Request /\ ticket.demand = d
        /\ ticket.status = "queued" /\ ticket.queueDeadline # None
    BY <1>2, TicketType, TimeAssumption, NoneAssumption
  <2> HIDE DEF m, ticket
  <2>4. Sound(j)
    BY <2>2, <2>3, JoinSound
  <2>5. /\ j.requests = With(m.requests, {r}, ticket) /\ j.leases = m.leases
        /\ j.queue = Append(m.queue, r)
    BY DEF Join
  <2> HIDE DEF j
  <2>6. Sound(n) /\ Carries(j, n) /\ InLine(j, n)
    BY <2>4, ScheduleSound, ScheduleCarries, ScheduleServes DEF Serves
  <2> HIDE DEF n
  <2>7. /\ Live(j) = Live(m) \cup {r} /\ j.requests[r] = ticket
        /\ \A x \in Live(m) : j.requests[x] = m.requests[x]
    BY <2>2, <2>5 DEF With, Live
  <2>8. Stays(tables, n)
    <3>1. \A x \in Live(tables) \cap Live(n) :
              n.requests[x].demand = tables.requests[x].demand
      BY <2>1, <2>2, <2>6, <2>7 DEF Carries, SameTask
    <3>2. DOMAIN tables.leases \subseteq Live(tables)
      BY <2>2 DEF Sound, TasksMatchLeases
    <3>3. ASSUME NEW l \in DOMAIN tables.leases, l \in Live(n)
          PROVE  l \in DOMAIN n.leases /\ n.leases[l] = tables.leases[l]
      <4>1. l \in Live(j) /\ l # r
        BY <3>2, <3>3, <2>1, <2>6 DEF Carries
      <4>2. l \in DOMAIN j.leases /\ j.leases[l] = tables.leases[l]
        BY <4>1, <3>3, <2>2, <2>5, <2>7 DEF Carries
      <4>3. QED
        BY <4>2, <3>3, <2>6 DEF Carries
    <3>4. QED
      BY <3>1, <3>3 DEF Stays
  <2>9. ASSUME NEW x \in Live(n) \ Live(tables)
        PROVE  x = r
    BY <2>2, <2>6, <2>7, <2>9 DEF Carries
  <2>10. n.requests[r].demand \in Demands \/ r \notin Live(n)
    BY <2>3, <2>6, <2>7 DEF Carries, SameTask
  <2>q. m.queue \in Seq(RequestId)
    BY <2>2 DEF Sound, TablesOK
  <2>11. /\ DOMAIN m.queue = 1..Len(m.queue) /\ Len(m.queue) \in Nat
         /\ DOMAIN j.queue = 1..(Len(m.queue) + 1)
         /\ j.queue[Len(m.queue) + 1] = r
    BY <2>q, <2>5
  <2>12. ASSUME NEW k \in DOMAIN n.queue
         PROVE  \E i \in DOMAIN j.queue : j.queue[i] = n.queue[k]
    <3>1. n.queue[k] \in Queued(n)
      BY DEF Queued
    <3>2. n.queue[k] \in Queued(j)
      BY <3>1, <2>4, <2>6 DEF Sound, TasksMatchLeases, Carries, SameTask
    <3>3. QED
      BY <3>2 DEF Queued
  <2>13. ASSUME NEW k \in DOMAIN n.queue, n.queue[k] # r
         PROVE  /\ r \notin DOMAIN n.leases
                /\ \A l \in DOMAIN n.queue : n.queue[l] = r => k < l
    <3>1. PICK i \in DOMAIN j.queue : j.queue[i] = n.queue[k]
      BY <2>12
    <3>2. i < Len(m.queue) + 1 /\ Len(m.queue) + 1 \in DOMAIN j.queue
      BY <3>1, <2>11, <2>13
    <3>3. n.queue[k] \in Queued(n)
      BY DEF Queued
    <3>4. QED
      BY <3>1, <3>2, <3>3, <2>6, <2>11 DEF InLine
  <2>14. r \in DOMAIN n.leases => n.queue = <<>>
    <3> SUFFICES ASSUME r \in DOMAIN n.leases, n.queue # <<>>
                 PROVE  FALSE
      OBVIOUS
    <3>1. n.queue \in Seq(RequestId)
      BY <2>6 DEF Sound, TablesOK
    <3>2. 1 \in DOMAIN n.queue
      BY <3>1
    <3>3. n.queue[1] \in Queued(n) /\ r \notin Queued(n)
      BY <3>2, <2>6 DEF Queued, Sound, TasksMatchLeases
    <3>4. QED
      BY <3>2, <3>3, <2>13
  <2>15. Joins(tables, n)
    BY <2>9, <2>10, <2>13, <2>14 DEF Joins
  <2>16. QED
    BY <2>1, <2>8, <2>15 DEF Follows
<1>3. QED
  BY <1>1, <1>2

LEMMA GetRequestFollows ==
    ASSUME Inv, NEW u \in Uid, NEW r \in RequestId, NEW now \in Nat,
           GetRequest(u, r, now)
    PROVE  Follows(tables, tables')
<1> DEFINE m == Maintain(tables, now)
           req == [m.requests[r] EXCEPT !.queueDeadline = now + QueueTTL]
<1>1. \/ tables' = m
      \/ r \in Live(m) /\ tables' = [m EXCEPT !.requests[r] = req]
  BY DEF GetRequest, Refused, Quietly, Notifying
<1>2. CASE tables' = m
  BY <1>2, QuietFollows
<1>3. CASE r \in Live(m) /\ tables' = [m EXCEPT !.requests[r] = req]
  <2>1. Sound(m)
    BY MaintainServes
  <2> HIDE DEF m
  <2>2. m.requests[r] \in Request
    BY <2>1, <1>3 DEF Sound, TablesOK, IsTable, Live
  <2>3. req.demand = m.requests[r].demand
    BY <2>2 DEF Request
  <2> HIDE DEF req
  <2>4. QED
    BY <1>3, <2>3, ChangeFollows DEF m
<1>4. QED
  BY <1>1, <1>2, <1>3

LEMMA CancelRequestFollows ==
    ASSUME Inv, NEW u \in Uid, NEW r \in RequestId, NEW now \in Nat,
           CancelRequest(u, r, now)
    PROVE  Follows(tables, tables')
<1>1. \/ tables' = Maintain(tables, now)
      \/ /\ r \in Live(Maintain(tables, now))
         /\ tables' = Schedule(End(Maintain(tables, now), r), now)
  BY DEF CancelRequest, Refused, Quietly, Notifying
<1>2. QED
  BY <1>1, QuietFollows, EndedFollows

LEMMA RenewLeaseFollows ==
    ASSUME Inv, NEW u \in Uid, NEW l \in RequestId, NEW now \in Nat,
           RenewLease(u, l, now)
    PROVE  Follows(tables, tables')
<1> DEFINE m == Maintain(tables, now)
<1>1. \/ tables' = m
      \/ l \in DOMAIN m.leases /\ tables' = Renewed(m, l, now)
  BY DEF RenewLease, LeaseRefused, Known, Quietly, Notifying
<1>2. Sound(m) /\ Carries(tables, m)
  BY MaintainEvolves
<1>3. CASE tables' = m
  BY <1>3, QuietFollows
<1>4. CASE /\ l \in DOMAIN m.leases
           /\ tables' = [m EXCEPT !.leases[l].deadline = now + LeaseTTL]
  <2> HIDE DEF m
  <2>1. /\ tables'.leases = [m.leases EXCEPT ![l].deadline = now + LeaseTTL]
        /\ tables'.requests = m.requests
    BY <1>2, <1>4 DEF Sound, TablesOK
  <2>2. \A x \in DOMAIN m.leases : m.leases[x] \in Lease
    BY <1>2 DEF Sound, TablesOK, IsTable
  <2>3. \A x \in DOMAIN m.leases :
            x \in DOMAIN tables'.leases /\ tables'.leases[x].cards = m.leases[x].cards
    BY <2>1, <2>2 DEF Lease
  <2>4. Live(tables') = Live(m)
    BY <2>1 DEF Live
  <2>5. QED
    BY <1>2, <2>1, <2>3, <2>4, TouchedFollows
<1>5. QED
  BY <1>1, <1>3, <1>4 DEF Renewed

LEMMA ReleaseLeaseFollows ==
    ASSUME Inv, NEW u \in Uid, NEW l \in RequestId, NEW now \in Nat,
           ReleaseLease(u, l, now)
    PROVE  Follows(tables, tables')
<1> DEFINE m == Maintain(tables, now)
<1>1. \/ tables' = m
      \/ l \in DOMAIN m.leases /\ tables' = Schedule(ReleaseLeases(m, {l}), now)
  BY DEF ReleaseLease, LeaseRefused, Known, Quietly, Notifying
<1>2. Sound(m)
  BY MaintainServes
<1>3. ASSUME l \in DOMAIN m.leases
      PROVE  l \in Live(m) /\ End(m, l) = ReleaseLeases(m, {l})
  <2> HIDE DEF m
  <2>1. QED
    BY <1>2, <1>3 DEF End, Sound, TasksMatchLeases
<1>4. QED
  BY <1>1, <1>3, QuietFollows, EndedFollows

LEMMA CancelTaskFollows ==
    ASSUME Inv, NEW u \in Uid, NEW r \in RequestId, NEW now \in Nat,
           CancelTask(u, r, now)
    PROVE  Follows(tables, tables')
<1> DEFINE m == Maintain(tables, now)
           req == [m.requests[r] EXCEPT !.status = "canceling"]
<1>1. \/ tables' = m
      \/ r \in Live(m) /\ tables' = Schedule(End(m, r), now)
      \/ r \in Live(m) /\ tables' = [m EXCEPT !.requests[r] = req]
  BY DEF CancelTask, Refused, Quietly, Notifying
<1>2. CASE tables' = m
  BY <1>2, QuietFollows
<1>3. CASE r \in Live(m) /\ tables' = Schedule(End(m, r), now)
  BY <1>3, EndedFollows
<1>4. CASE r \in Live(m) /\ tables' = [m EXCEPT !.requests[r] = req]
  <2>1. Sound(m)
    BY MaintainServes
  <2> HIDE DEF m
  <2>2. m.requests[r] \in Request
    BY <2>1, <1>4 DEF Sound, TablesOK, IsTable, Live
  <2>3. req.demand = m.requests[r].demand
    BY <2>2 DEF Request
  <2> HIDE DEF req
  <2>4. QED
    BY <1>4, <2>3, ChangeFollows DEF m
<1>5. QED
  BY <1>1, <1>2, <1>3, <1>4

LEMMA StepsFollow ==
    ASSUME Inv, [Next]_vars
    PROVE  Follows(tables, tables')
<1>0. clock \in Nat
  BY DEF Inv, TypeOK
<1>1. ASSUME NEW u \in Uid, NEW now \in Now, Call(u, now)
      PROVE  Follows(tables, tables')
  <2>1. now \in Nat
    BY <1>0 DEF Now
  <2>2. QED
    BY <1>1, <2>1, CreateRequestFollows, GetRequestFollows, CancelRequestFollows,
       RenewLeaseFollows, ReleaseLeaseFollows, CancelTaskFollows, QuietFollows
       DEF Call, Status, Tasks, Quietly
<1>2. CASE Close \/ Tick \/ UNCHANGED vars
  BY <1>0, <1>2, QuietFollows DEF Close, Tick, vars
<1>3. CASE Reaper
  BY <1>0, <1>3, QuietFollows DEF Reaper
<1>4. QED
  BY <1>1, <1>2, <1>3 DEF Next

-----------------------------------------------------------------------------
(* The line after a step. *)

\* Every task stands in the line or has its cards.
LEMMA MembersAre ==
    ASSUME Inv
    PROVE  /\ Pool!Members = Live(tables)
           /\ DOMAIN [l \in DOMAIN tables.leases |-> tables.leases[l].cards]
                  = DOMAIN tables.leases
<1>1. /\ Queued(tables) \subseteq Live(tables)
      /\ DOMAIN tables.leases = Live(tables) \ Queued(tables)
  BY DEF Inv, TablesAgree, TasksMatchLeases
<1>2. QED
  BY <1>1 DEF Pool!Members, Pool!Waiting, Queued

\* The line of the pool without those that are gone is the queue without them.
LEMMA LineIs ==
    ASSUME NEW gone, NEW arrival
    PROVE  Pool!LineAfter(gone, arrival) = Drop(tables.queue, gone) \o arrival
BY DEF Pool!LineAfter, Pool!Staying, Drop

\* At most one newcomer at the end: who is in the line, once each, and those who
\* were in it before are in the order they were in.
LEMMA LineJoined ==
    ASSUME NEW q \in Seq(RequestId), NEW gone,
           \A i, j \in DOMAIN q : q[i] = q[j] => i = j,
           NEW arrival \in Seq(RequestId), Len(arrival) <= 1,
           \A i \in DOMAIN arrival : \A j \in DOMAIN q : arrival[i] # q[j]
    PROVE  LET a == Drop(q, gone) \o arrival
           IN  /\ a \in Seq(RequestId)
               /\ \A i, j \in DOMAIN a : a[i] = a[j] => i = j
               /\ {a[i] : i \in DOMAIN a}
                      = ({q[i] : i \in DOMAIN q} \ gone) \cup {arrival[i] : i \in DOMAIN arrival}
               /\ \A i, j \in DOMAIN a : i < j =>
                      \E v \in DOMAIN q :
                          /\ a[i] = q[v]
                          /\ \/ \E w \in DOMAIN q : a[j] = q[w] /\ v < w
                             \/ \E w \in DOMAIN arrival : a[j] = arrival[w]
<1> DEFINE d == Drop(q, gone)
           D == Len(d)
           L == Len(arrival)
           a == d \o arrival
<1>1. /\ d \in Seq(RequestId)
      /\ {d[i] : i \in DOMAIN d} = {q[i] : i \in DOMAIN q} \ gone
      /\ \A i, j \in DOMAIN d : d[i] = d[j] => i = j
  BY DropProperties
<1>2. \A v, w \in DOMAIN q : \A i, j \in DOMAIN d :
          v < w /\ d[i] = q[v] /\ d[j] = q[w] => i < j
  BY DropKeepsOrder
<1> HIDE DEF d
<1>3. /\ D \in Nat /\ DOMAIN d = 1..D
      /\ L \in {0, 1} /\ DOMAIN arrival = 1..L
  <2>1. D \in Nat /\ DOMAIN d = 1..D
    BY <1>1
  <2>2. L \in Nat /\ L <= 1 /\ DOMAIN arrival = 1..L
    OBVIOUS
  <2>3. L \in {0, 1}
    <3> HIDE DEF L
    <3>1. QED
      BY <2>2
  <2>4. QED
    BY <2>1, <2>2, <2>3
<1>4. /\ a \in Seq(RequestId) /\ DOMAIN a = 1..(D + L)
      /\ \A i \in 1..D : i \in DOMAIN a /\ a[i] = d[i]
      /\ L = 1 => D + 1 \in DOMAIN a /\ a[D + 1] = arrival[1]
      /\ \A i \in DOMAIN a : i \in 1..D \/ (L = 1 /\ i = D + 1)
  BY <1>1, <1>3
<1> HIDE DEF a, D, L
<1>5. \A i \in 1..D : \E v \in DOMAIN q : d[i] = q[v]
  <2> SUFFICES ASSUME NEW i \in 1..D
               PROVE  \E v \in DOMAIN q : d[i] = q[v]
    OBVIOUS
  <2>1. d[i] \in {d[k] : k \in DOMAIN d}
    BY <1>3
  <2>2. d[i] \in {q[k] : k \in DOMAIN q}
    BY <2>1, <1>1
  <2>3. QED
    BY <2>2
<1>6. \A i, j \in DOMAIN a : a[i] = a[j] => i = j
  <2> SUFFICES ASSUME NEW i \in DOMAIN a, NEW j \in DOMAIN a, a[i] = a[j], i # j
               PROVE  FALSE
    OBVIOUS
  <2>1. \A k \in 1..D : L = 1 => d[k] # arrival[1]
    BY <1>3, <1>5
  <2>2. QED
    BY <2>1, <1>1, <1>3, <1>4
<1>7. {a[i] : i \in DOMAIN a}
          = {d[i] : i \in DOMAIN d} \cup {arrival[i] : i \in DOMAIN arrival}
  <2>1. \A i \in DOMAIN a :
            \/ \E k \in DOMAIN d : a[i] = d[k]
            \/ \E k \in DOMAIN arrival : a[i] = arrival[k]
    BY <1>3, <1>4
  <2>2. \A k \in DOMAIN d : \E i \in DOMAIN a : a[i] = d[k]
    BY <1>3, <1>4
  <2>3. \A k \in DOMAIN arrival : \E i \in DOMAIN a : a[i] = arrival[k]
    BY <1>3, <1>4
  <2>4. QED
    BY <2>1, <2>2, <2>3
<1>8. ASSUME NEW i \in DOMAIN a, NEW j \in DOMAIN a, i < j
      PROVE  \E v \in DOMAIN q :
                 /\ a[i] = q[v]
                 /\ \/ \E w \in DOMAIN q : a[j] = q[w] /\ v < w
                    \/ \E w \in DOMAIN arrival : a[j] = arrival[w]
  <2>1. i \in 1..D /\ a[i] = d[i]
    BY <1>3, <1>4, <1>8
  <2>2. PICK v \in DOMAIN q : d[i] = q[v]
    BY <2>1, <1>5
  <2>3. CASE j \in 1..D
    <3>1. PICK w \in DOMAIN q : d[j] = q[w]
      BY <2>3, <1>5
    <3>2. v \in Nat /\ w \in Nat /\ v # w
      BY <2>1, <2>2, <2>3, <3>1, <1>1, <1>3, <1>8
    <3>3. ~(w < v)
      BY <2>1, <2>2, <2>3, <3>1, <1>2, <1>3, <1>8
    <3>4. v < w /\ a[j] = q[w]
      BY <2>3, <3>1, <3>2, <3>3, <1>4
    <3>5. QED
      BY <2>1, <2>2, <3>4
  <2>4. CASE L = 1 /\ j = D + 1
    BY <2>1, <2>2, <2>4, <1>3, <1>4
  <2>5. QED
    BY <2>3, <2>4, <1>4
<1>9. QED
  BY <1>1, <1>4, <1>6, <1>7, <1>8 DEF a, d

\* The queue after a step is the end of that line, and those before it have been
\* served.
LEMMA FrontServed ==
    ASSUME NEW m, NEW n, Sound(m), Sound(n), InLine(m, n), Follows(m, n),
           NEW arrival \in Seq(RequestId), Len(arrival) <= 1,
           {arrival[i] : i \in DOMAIN arrival} = Live(n) \ Live(m)
    PROVE  LET a == Drop(m.queue, Live(m) \ Live(n)) \o arrival
               k == Len(a) - Len(n.queue)
           IN  /\ k \in 0..Len(a)
               /\ n.queue = SubSeq(a, k + 1, Len(a))
               /\ {a[i] : i \in 1..k} = DOMAIN n.leases \ DOMAIN m.leases
<1> DEFINE gone == Live(m) \ Live(n)
           a == Drop(m.queue, gone) \o arrival
           k == Len(a) - Len(n.queue)
<1>1. /\ m.queue \in Seq(RequestId) /\ n.queue \in Seq(RequestId)
      /\ \A i, j \in DOMAIN m.queue : m.queue[i] = m.queue[j] => i = j
      /\ \A i, j \in DOMAIN n.queue : n.queue[i] = n.queue[j] => i = j
      /\ Queued(m) \subseteq Live(m) /\ DOMAIN m.leases = Live(m) \ Queued(m)
      /\ Queued(n) \subseteq Live(n) /\ DOMAIN n.leases = Live(n) \ Queued(n)
  BY DEF Sound, TablesOK, TasksMatchLeases
<1>2. \A x \in DOMAIN m.leases : x \in Live(n) => x \in DOMAIN n.leases
  BY DEF Follows, Stays
<1>3. \A i \in DOMAIN arrival : arrival[i] \in Live(n) \ Live(m)
  <2>1. \A i \in DOMAIN arrival : arrival[i] \in {arrival[j] : j \in DOMAIN arrival}
    OBVIOUS
  <2>2. QED
    BY <2>1
<1>4. \A i \in DOMAIN m.queue : m.queue[i] \in Queued(m)
  BY DEF Queued
<1>5. \A i \in DOMAIN arrival : \A j \in DOMAIN m.queue : arrival[i] # m.queue[j]
  BY <1>1, <1>3, <1>4
<1>6. /\ a \in Seq(RequestId)
      /\ \A i, j \in DOMAIN a : a[i] = a[j] => i = j
      /\ {a[i] : i \in DOMAIN a} = (Queued(m) \ gone) \cup (Live(n) \ Live(m))
      /\ \A i, j \in DOMAIN a : i < j =>
             \E v \in DOMAIN m.queue :
                 /\ a[i] = m.queue[v]
                 /\ \/ \E w \in DOMAIN m.queue : a[j] = m.queue[w] /\ v < w
                    \/ \E w \in DOMAIN arrival : a[j] = arrival[w]
  <2> HIDE DEF gone
  <2>1. /\ a \in Seq(RequestId)
        /\ \A i, j \in DOMAIN a : a[i] = a[j] => i = j
        /\ {a[i] : i \in DOMAIN a}
               = ({m.queue[i] : i \in DOMAIN m.queue} \ gone)
                     \cup {arrival[i] : i \in DOMAIN arrival}
        /\ \A i, j \in DOMAIN a : i < j =>
               \E v \in DOMAIN m.queue :
                   /\ a[i] = m.queue[v]
                   /\ \/ \E w \in DOMAIN m.queue : a[j] = m.queue[w] /\ v < w
                      \/ \E w \in DOMAIN arrival : a[j] = arrival[w]
    BY <1>1, <1>5, LineJoined
  <2> HIDE DEF a
  <2>2. QED
    BY <2>1 DEF Queued
<1> HIDE DEF a
<1>7. {a[i] : i \in DOMAIN a} = Live(n) \ DOMAIN m.leases
  BY <1>1, <1>6
<1>8. \A i \in DOMAIN a : a[i] \in Live(n) \ DOMAIN m.leases
  <2>1. \A i \in DOMAIN a : a[i] \in {a[j] : j \in DOMAIN a}
    OBVIOUS
  <2>2. QED
    BY <2>1, <1>7
<1>9. \A j \in DOMAIN n.queue : n.queue[j] \in Queued(n)
  BY DEF Queued
<1>10. \A j \in DOMAIN n.queue : \E i \in DOMAIN a : a[i] = n.queue[j]
  <2> SUFFICES ASSUME NEW j \in DOMAIN n.queue
               PROVE  \E i \in DOMAIN a : a[i] = n.queue[j]
    OBVIOUS
  <2>1. n.queue[j] \in Live(n) \ DOMAIN m.leases
    BY <1>1, <1>2, <1>9
  <2>2. n.queue[j] \in {a[i] : i \in DOMAIN a}
    BY <2>1, <1>7
  <2>3. QED
    BY <2>2
<1>11. \A i, j \in DOMAIN a : \A x \in DOMAIN n.queue :
           i < j /\ n.queue[x] = a[i] => \E y \in DOMAIN n.queue : n.queue[y] = a[j]
  <2> SUFFICES ASSUME NEW i \in DOMAIN a, NEW j \in DOMAIN a, NEW x \in DOMAIN n.queue,
                      i < j, n.queue[x] = a[i], a[j] \notin Queued(n)
               PROVE  FALSE
    BY DEF Queued
  <2>1. a[j] \in DOMAIN n.leases /\ a[i] \in Queued(n)
    BY <1>1, <1>8, <1>9
  <2>2. PICK v \in DOMAIN m.queue :
            /\ a[i] = m.queue[v]
            /\ \/ \E w \in DOMAIN m.queue : a[j] = m.queue[w] /\ v < w
               \/ \E w \in DOMAIN arrival : a[j] = arrival[w]
    BY <1>6
  <2>3. ASSUME NEW w \in DOMAIN m.queue, a[j] = m.queue[w], v < w
        PROVE  FALSE
    BY <2>1, <2>2, <2>3 DEF InLine
  <2>4. ASSUME NEW w \in DOMAIN arrival, a[j] = arrival[w]
        PROVE  FALSE
    <3>1. n.queue = <<>>
      BY <1>3, <2>1, <2>4 DEF Follows, Joins
    <3>2. QED
      BY <3>1
  <2>5. QED
    BY <2>2, <2>3, <2>4
<1>12. \A i, j \in DOMAIN a : \A x, y \in DOMAIN n.queue :
           i < j /\ n.queue[x] = a[i] /\ n.queue[y] = a[j] => x < y
  <2> SUFFICES ASSUME NEW i \in DOMAIN a, NEW j \in DOMAIN a,
                      NEW x \in DOMAIN n.queue, NEW y \in DOMAIN n.queue,
                      i < j, n.queue[x] = a[i], n.queue[y] = a[j]
               PROVE  x < y
    OBVIOUS
  <2>1. PICK v \in DOMAIN m.queue :
            /\ a[i] = m.queue[v]
            /\ \/ \E w \in DOMAIN m.queue : a[j] = m.queue[w] /\ v < w
               \/ \E w \in DOMAIN arrival : a[j] = arrival[w]
    BY <1>6
  <2>2. ASSUME NEW w \in DOMAIN m.queue, a[j] = m.queue[w], v < w
        PROVE  x < y
    BY <2>1, <2>2 DEF InLine
  <2>3. ASSUME NEW w \in DOMAIN arrival, a[j] = arrival[w]
        PROVE  x < y
    <3>1. n.queue[x] # a[j]
      BY <2>1, <2>3, <1>5
    <3>2. a[j] \in Live(n) \ Live(m)
      BY <1>3, <2>3
    <3>3. QED
      BY <3>1, <3>2 DEF Follows, Joins
  <2>4. QED
    BY <2>1, <2>2, <2>3
<1>13. /\ k \in 0..Len(a)
       /\ n.queue = SubSeq(a, k + 1, Len(a))
       /\ \A i \in DOMAIN a : i \in 1..k <=> \A j \in DOMAIN n.queue : n.queue[j] # a[i]
  <2> DEFINE q == n.queue
  <2>1. q \in Seq(RequestId) /\ \A i, j \in DOMAIN q : q[i] = q[j] => i = j
    BY <1>1
  <2>2. /\ \A j \in DOMAIN q : \E i \in DOMAIN a : a[i] = q[j]
        /\ \A i, j \in DOMAIN a : \A x \in DOMAIN q :
               i < j /\ q[x] = a[i] => \E y \in DOMAIN q : q[y] = a[j]
        /\ \A i, j \in DOMAIN a : \A x, y \in DOMAIN q :
               i < j /\ q[x] = a[i] /\ q[y] = a[j] => x < y
    BY <1>10, <1>11, <1>12
  <2> HIDE DEF q
  <2>3. LET b == Len(a) - Len(q)
        IN  /\ b \in 0..Len(a)
            /\ q = SubSeq(a, b + 1, Len(a))
            /\ \A i \in DOMAIN a : i \in 1..b <=> \A j \in DOMAIN q : q[j] # a[i]
    BY <2>1, <2>2, <1>6, EndOfSequence
  <2>4. QED
    BY <2>3 DEF q
<1>14. DOMAIN a = 1..Len(a) /\ Len(a) \in Nat
  BY <1>6
<1> HIDE DEF k
<1>15. {a[i] : i \in 1..k} = DOMAIN n.leases \ DOMAIN m.leases
  <2>1. 1..k \subseteq DOMAIN a
    BY <1>13, <1>14
  <2>2. ASSUME NEW i \in 1..k
        PROVE  a[i] \in DOMAIN n.leases \ DOMAIN m.leases
    <3>1. a[i] \notin Queued(n)
      BY <2>1, <1>13 DEF Queued
    <3>2. QED
      BY <3>1, <2>1, <1>1, <1>8
  <2>3. ASSUME NEW x \in DOMAIN n.leases \ DOMAIN m.leases
        PROVE  \E i \in 1..k : a[i] = x
    <3>1. x \in {a[i] : i \in DOMAIN a} /\ x \notin Queued(n)
      BY <1>1, <1>7
    <3>2. PICK i \in DOMAIN a : a[i] = x
      BY <3>1
    <3>3. i \in 1..k
      BY <3>1, <3>2, <1>9, <1>13
    <3>4. QED
      BY <3>2, <3>3
  <2>4. QED
    BY <2>2, <2>3
<1>16. QED
  BY <1>13, <1>15 DEF k, a

-----------------------------------------------------------------------------
(* The cards after a step. *)

CardsOf(m) == [l \in DOMAIN m.leases |-> m.leases[l].cards]
WantOf(m) == [r \in Live(m) |-> m.requests[r].demand]

\* The cards in use are those that have a holder.
LEMMA UsedAreHeld ==
    ASSUME NEW m, Sound(m)
    PROVE  Pool!Used(CardsOf(m)) = Held(m)
<1>1. /\ Held(m) \subseteq Card
      /\ \A l \in DOMAIN m.leases : m.leases[l].cards \subseteq Card
      /\ \A c \in Held(m) : m.holders[c] \in DOMAIN m.leases
      /\ \A c \in Card, l \in DOMAIN m.leases :
             c \in m.leases[l].cards <=> c \in Held(m) /\ m.holders[c] = l
  BY DEF Sound, TablesOK, IsTable, Held, Lease, NoOrphanHolder, HoldersAgree
<1>2. \A c : c \in Pool!Used(CardsOf(m)) <=>
                \E l \in DOMAIN m.leases : c \in m.leases[l].cards
  BY DEF Pool!Used, CardsOf
<1>3. QED
  BY <1>1, <1>2

\* Two leases have no card in common.
LEMMA CardsApart ==
    ASSUME NEW m, Sound(m), NEW x \in DOMAIN m.leases, NEW y \in DOMAIN m.leases, x # y
    PROVE  m.leases[x].cards \cap m.leases[y].cards = {}
<1>1. m.leases[x].cards \subseteq Card
  BY DEF Sound, TablesOK, IsTable, Lease
<1>2. QED
  BY <1>1 DEF Sound, HoldersAgree

\* The pool counts cards as the daemon does.
LEMMA SameCount ==
    ASSUME NEW S PROVE Pool!Cardinality(S) = Cardinality(S)
BY Zenon DEF Pool!Cardinality, Cardinality

LEMMA FitsIsFilled ==
    ASSUME NEW d, NEW S PROVE Pool!Fits(d, S) <=> Filled(d, S)
BY SameCount DEF Pool!Fits, Filled

\* A head that cannot be granted cannot be served.
LEMMA BlockedIsUnservable ==
    ASSUME NEW m, Sound(m), Blocked(m), m.queue # <<>>
    PROVE  ~Pool!Servable(m.requests[Head(m.queue)].demand, Card \ Held(m))
<1> DEFINE d == m.requests[Head(m.queue)].demand
           F == Free(m)
<1>1. IsFiniteSet(F) /\ F = Card \ Held(m)
  <2>1. F \in SUBSET Card
    BY DEF Free
  <2>2. QED
    BY <2>1, CardsCounted, FS_Subset DEF Free
<1>2. ~Satisfiable(m, d)
  BY DEF Blocked
<1> HIDE DEF d, F
<1>3. ASSUME NEW S \in SUBSET F, Pool!Fits(d, S)
      PROVE  FALSE
  <2>1. CASE d.cards # None
    <3>1. d.cards \subseteq F /\ d.cards \cap Held(m) # {}
      BY <1>2, <1>3, <2>1, FitsIsFilled DEF Filled, Satisfiable
    <3>2. QED
      BY <3>1, <1>1
  <2>2. CASE d.cards = None
    <3>1. Cardinality(S) = d.count /\ ~(Cardinality(F) >= d.count)
      BY <1>2, <1>3, <2>2, FitsIsFilled DEF Filled, Satisfiable, F
    <3>2. /\ Cardinality(S) \in Nat /\ Cardinality(F) \in Nat
          /\ Cardinality(S) <= Cardinality(F)
      BY <1>1, FS_Subset, FS_CardinalityType
    <3>3. QED
      BY <3>1, <3>2
  <2>3. QED
    BY <2>1, <2>2
<1>4. QED
  BY <1>1, <1>3 DEF Pool!Servable, d

\* A step serves the line with at most one newcomer, who wants w.
LEMMA StepIsService ==
    ASSUME Inv, Inv', Whole(tables'), InLine(tables, tables'), Follows(tables, tables'),
           NEW arrival \in Seq(RequestId), Len(arrival) <= 1,
           {arrival[i] : i \in DOMAIN arrival} = Live(tables') \ Live(tables),
           NEW w, \A x \in Live(tables') \ Live(tables) : tables'.requests[x].demand = w
    PROVE  LET gone == Live(tables) \ Live(tables')
           IN  \E k \in 0..Len(Pool!LineAfter(gone, arrival)) :
                   Pool!Serve(gone, arrival, w, k)
<1> DEFINE gone == Live(tables) \ Live(tables')
           a == Pool!LineAfter(gone, arrival)
           held == CardsOf(tables)
           kept == [x \in DOMAIN held \ gone |-> held[x]]
<1>0. Sound(tables) /\ Sound(tables') /\ Blocked(tables')
  BY DEF Inv, Sound, TypeOK, HoldersMatchLeases, TablesAgree, HeadBlocked, Blocked
<1>1. PICK k \in 0..Len(a) :
          /\ tables'.queue = SubSeq(a, k + 1, Len(a))
          /\ {a[i] : i \in 1..k} = DOMAIN tables'.leases \ DOMAIN tables.leases
  <2> DEFINE b == Drop(tables.queue, gone) \o arrival
             j == Len(b) - Len(tables'.queue)
  <2>1. a = b
    BY LineIs
  <2>2. /\ j \in 0..Len(b)
        /\ tables'.queue = SubSeq(b, j + 1, Len(b))
        /\ {b[i] : i \in 1..j} = DOMAIN tables'.leases \ DOMAIN tables.leases
    BY <1>0, FrontServed
  <2> HIDE DEF a, b, j
  <2>3. QED
    BY <2>1, <2>2
<1> DEFINE served == {a[i] : i \in 1..k}
           given == [x \in served |-> tables'.leases[x].cards]
<1>s. served = DOMAIN tables'.leases \ DOMAIN tables.leases
  BY <1>1
<1> HIDE DEF a
<1>2. /\ DOMAIN tables.leases \subseteq Live(tables)
      /\ DOMAIN tables'.leases \subseteq Live(tables')
      /\ \A l \in DOMAIN tables.leases : l \in Live(tables') =>
            l \in DOMAIN tables'.leases /\ tables'.leases[l].cards = tables.leases[l].cards
  BY <1>0 DEF Sound, TasksMatchLeases, Follows, Stays
<1> HIDE DEF served
<1>3. /\ DOMAIN held = DOMAIN tables.leases
      /\ DOMAIN kept = DOMAIN tables.leases \cap DOMAIN tables'.leases
      /\ \A x \in DOMAIN kept : kept[x] = tables'.leases[x].cards
  BY <1>2 DEF CardsOf
<1> HIDE DEF kept
<1>4. CardsOf(tables') = [x \in DOMAIN kept \cup served |->
                             IF x \in served THEN given[x] ELSE kept[x]]
  BY <1>s, <1>3 DEF CardsOf
<1>5. given \in [served -> SUBSET (Card \ Pool!Used(kept))]
  <2> SUFFICES ASSUME NEW x \in served
               PROVE  tables'.leases[x].cards \in SUBSET (Card \ Pool!Used(kept))
    OBVIOUS
  <2>1. tables'.leases[x].cards \subseteq Card
    BY <1>0, <1>s DEF Sound, TablesOK, IsTable, Lease
  <2>2. ASSUME NEW c \in tables'.leases[x].cards, c \in Pool!Used(kept)
        PROVE  FALSE
    <3>1. PICK y \in DOMAIN kept : c \in kept[y]
      BY <2>2 DEF Pool!Used
    <3>2. y \in DOMAIN tables'.leases /\ y # x /\ c \in tables'.leases[y].cards
      BY <3>1, <1>s, <1>3
    <3>3. QED
      BY <3>2, <2>2, <1>0, <1>s, CardsApart
  <2>3. QED
    BY <2>1, <2>2
<1>6. \A x \in served : Pool!Fits(WantOf(tables')[x], given[x])
  <2> SUFFICES ASSUME NEW x \in served
               PROVE  Pool!Fits(WantOf(tables')[x], given[x])
    OBVIOUS
  <2>1. x \in DOMAIN tables'.leases /\ x \in Live(tables')
    BY <1>s, <1>2
  <2>2. Filled(tables'.requests[x].demand, tables'.leases[x].cards)
    BY <2>1 DEF Whole
  <2>3. WantOf(tables')[x] = tables'.requests[x].demand /\ given[x] = tables'.leases[x].cards
    BY <2>1 DEF WantOf
  <2>4. QED
    BY <2>2, <2>3, FitsIsFilled
<1>7. \A x, y \in served : x # y => given[x] \cap given[y] = {}
  BY <1>0, <1>s, CardsApart
<1>8. WantOf(tables') =
          [x \in (Live(tables) \ gone) \cup {arrival[i] : i \in DOMAIN arrival} |->
               IF x \in Live(tables) THEN WantOf(tables)[x] ELSE w]
  <2>1. Live(tables') = (Live(tables) \ gone) \cup {arrival[i] : i \in DOMAIN arrival}
    OBVIOUS
  <2>2. \A x \in Live(tables') :
            tables'.requests[x].demand =
                IF x \in Live(tables) THEN WantOf(tables)[x] ELSE w
    BY DEF Follows, Stays, WantOf
  <2>3. QED
    BY <2>1, <2>2 DEF WantOf
<1>9. tables'.queue # <<>> =>
          ~Pool!Servable(WantOf(tables')[Head(tables'.queue)],
                         Card \ Pool!Used(CardsOf(tables')))
  <2> SUFFICES ASSUME tables'.queue # <<>>
               PROVE  ~Pool!Servable(WantOf(tables')[Head(tables'.queue)],
                                     Card \ Pool!Used(CardsOf(tables')))
    OBVIOUS
  <2>1. Head(tables'.queue) \in Live(tables')
    <3>1. tables'.queue \in Seq(RequestId)
      BY <1>0 DEF Sound, TablesOK
    <3>2. 1 \in DOMAIN tables'.queue /\ Head(tables'.queue) = tables'.queue[1]
      BY <3>1
    <3>3. QED
      BY <3>2, <1>0 DEF Sound, TasksMatchLeases, Queued
  <2>2. WantOf(tables')[Head(tables'.queue)] = tables'.requests[Head(tables'.queue)].demand
    BY <2>1 DEF WantOf
  <2>3. QED
    BY <2>2, <1>0, BlockedIsUnservable, UsedAreHeld
<1>10. Pool!Members = Live(tables)
  BY MembersAre
<1> HIDE DEF given, gone
<1>11. Pool!Serve(gone, arrival, w, k)
  BY <1>1, <1>4, <1>5, <1>6, <1>7, <1>8, <1>9, <1>10
     DEF Pool!Serve, served, kept, a, CardsOf, WantOf, Live
<1>12. \E j \in 0..Len(a) : Pool!Serve(gone, arrival, w, j)
  BY <1>11
<1>13. QED
  BY <1>12 DEF a, gone

\* Every step of the daemon is a step of the pool.
LEMMA StepsArePoolSteps ==
    ASSUME Inv, Whole(tables), [Next]_vars
    PROVE  Pool!Next
<1> DEFINE gone == Live(tables) \ Live(tables')
           news == Live(tables') \ Live(tables)
<1>1. Inv' /\ Whole(tables') /\ InLine(tables, tables') /\ Follows(tables, tables')
  BY NextInv, StepsServe, StepsFollow DEF Serves
<1>2. gone \in SUBSET Pool!Members
  BY MembersAre
<1>3. CASE news = {}
  <2>1. /\ <<>> \in Seq(RequestId) /\ Len(<<>>) <= 1
        /\ {<<>>[i] : i \in DOMAIN <<>>} = news
        /\ \A x \in news : tables'.requests[x].demand = None
    BY <1>3
  <2>2. \E k \in 0..Len(Pool!LineAfter(gone, <<>>)) : Pool!Serve(gone, <<>>, None, k)
    BY <1>1, <2>1, StepIsService
  <2>3. QED
    BY <1>2, <2>2 DEF Pool!Next, Pool!Step
<1>4. CASE news # {}
  <2>1. PICK x \in news : TRUE
    BY <1>4
  <2> DEFINE w == tables'.requests[x].demand
  <2>2. x \in RequestId /\ news = {x} /\ w \in Demands /\ ValidDemand(w)
    <3>1. x \in RequestId
      BY <1>1 DEF Inv, TypeOK, TablesOK, IsTable, Live
    <3>2. QED
      BY <1>1, <3>1 DEF Follows, Joins, Whole
  <2>3. /\ <<x>> \in Seq(RequestId) /\ Len(<<x>>) <= 1
        /\ {<<x>>[i] : i \in DOMAIN <<x>>} = news
        /\ \A y \in news : tables'.requests[y].demand = w
    BY <2>2
  <2>4. \E k \in 0..Len(Pool!LineAfter(gone, <<x>>)) : Pool!Serve(gone, <<x>>, w, k)
    BY <1>1, <2>3, StepIsService
  <2>5. x \in RequestId \ Pool!Members
    BY <2>2, MembersAre
  <2> HIDE DEF w, gone
  <2>6. QED
    BY <1>2, <2>2, <2>4, <2>5 DEF Pool!Next, Pool!Step
<1>5. QED
  BY <1>3, <1>4

-----------------------------------------------------------------------------
(* The theorem. *)

\* The daemon serves like the pool, for any number of cards, users and requests:
\* with owners, clocks, cancellation and the reaper forgotten, every step lets
\* some leave, at most one join, and serves the front of the line, each in full
\* with cards nobody keeps, as far as the free cards go.
THEOREM ServesLikeAPool == Spec => ImplementsPool
<1>1. Init => Pool!Init
  BY DEF Init, Pool!Init, Live
<1>2. Inv /\ Whole(tables) /\ [Next]_vars => [Pool!Next]_Pool!vars
  BY StepsArePoolSteps
<1>3. Init => Whole(tables)
  BY DEF Init, Whole, Live
<1>4. Inv /\ Whole(tables) /\ [Next]_vars => Whole(tables)'
  <2> SUFFICES ASSUME Inv, Whole(tables), [Next]_vars
               PROVE  Whole(tables')
    OBVIOUS
  <2>1. QED
    BY StepsServe DEF Serves
<1>5. QED
  BY <1>1, <1>2, <1>3, <1>4, InitInv, NextInv, PTL DEF Spec, Pool!Spec, ImplementsPool
=============================================================================
