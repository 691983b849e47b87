----------------------------- MODULE TaskProofs -----------------------------
(***************************************************************************)
(* Proofs about what a step of the daemon does to the tasks it has: which  *)
(* of them end and on whose account, what it may change of the others, and *)
(* that a queue never waits on an idle machine.                            *)
(***************************************************************************)
EXTENDS LeaseManagerProofs

-----------------------------------------------------------------------------
(* What maintenance and scheduling do to the tasks.                        *)

\* From m to n a task keeps its owner, its demand and its length, and its status
\* unless it was queued.
SameTask(m, n, r) ==
    /\ n.requests[r].uid = m.requests[r].uid
    /\ n.requests[r].demand = m.requests[r].demand
    /\ n.requests[r].reservation = m.requests[r].reservation
    /\ m.requests[r].status # "queued" => n.requests[r].status = m.requests[r].status

\* From m to n tasks may end and tickets may be granted: no task is new, none
\* is another, and a lease that was there stays as it was or goes with its task.
Carries(m, n) ==
    /\ Live(n) \subseteq Live(m)
    /\ \A r \in Live(n) : SameTask(m, n, r)
    /\ \A l \in DOMAIN m.leases :
          l \in Live(n) => l \in DOMAIN n.leases /\ n.leases[l] = m.leases[l]

LEMMA CarriesItself ==
    ASSUME NEW m PROVE Carries(m, m)
BY DEF Carries, SameTask

\* One after the other.
LEMMA CarriesOn ==
    ASSUME NEW m, NEW n, NEW o, Carries(m, n), Carries(n, o)
    PROVE  Carries(m, o)
<1>1. Live(o) \subseteq Live(m)
  BY DEF Carries
<1>2. \A r \in Live(o) : SameTask(m, o, r)
  BY DEF Carries, SameTask
<1>3. \A l \in DOMAIN m.leases :
          l \in Live(o) => l \in DOMAIN o.leases /\ o.leases[l] = m.leases[l]
  BY DEF Carries
<1>4. QED
  BY <1>1, <1>2, <1>3 DEF Carries

LEMMA ReleaseCarries ==
    ASSUME NEW m, Sound(m), NEW S \in SUBSET DOMAIN m.leases
    PROVE  /\ Carries(m, ReleaseLeases(m, S))
           /\ Live(ReleaseLeases(m, S)) = Live(m) \ S
           /\ Queued(ReleaseLeases(m, S)) = Queued(m)
<1> DEFINE n == ReleaseLeases(m, S)
<1>1. /\ n.requests = Without(m.requests, S) /\ n.leases = Without(m.leases, S)
      /\ n.queue = m.queue
  BY DEF ReleaseLeases
<1> HIDE DEF n
<1>2. Live(n) = Live(m) \ S /\ \A r \in Live(n) : n.requests[r] = m.requests[r]
  BY <1>1 DEF Live, Without
<1>3. /\ DOMAIN n.leases = DOMAIN m.leases \ S
      /\ \A l \in DOMAIN n.leases : n.leases[l] = m.leases[l]
  BY <1>1 DEF Without
<1>4. Queued(n) = Queued(m)
  BY <1>1 DEF Queued
<1>5. QED
  BY <1>2, <1>3, <1>4 DEF Carries, SameTask, n

LEMMA DropTicketsCarries ==
    ASSUME NEW m, Sound(m), NEW S \in SUBSET Queued(m)
    PROVE  /\ Carries(m, DropTickets(m, S))
           /\ Live(DropTickets(m, S)) = Live(m) \ S
<1> DEFINE n == DropTickets(m, S)
<1>1. n.requests = Without(m.requests, S) /\ n.leases = m.leases
  BY DEF DropTickets
<1> HIDE DEF n
<1>2. Live(n) = Live(m) \ S /\ \A r \in Live(n) : n.requests[r] = m.requests[r]
  BY <1>1 DEF Live, Without
<1>3. QED
  BY <1>1, <1>2 DEF Carries, SameTask, n

LEMMA EndCarries ==
    ASSUME NEW m, Sound(m), NEW r \in Live(m)
    PROVE  Carries(m, End(m, r)) /\ Live(End(m, r)) = Live(m) \ {r}
<1>1. CASE m.requests[r].status = "queued"
  <2>1. {r} \in SUBSET Queued(m)
    BY <1>1 DEF Sound, TasksMatchLeases
  <2>2. End(m, r) = DropTickets(m, {r})
    BY <1>1 DEF End
  <2>3. QED
    BY <2>1, <2>2, DropTicketsCarries
<1>2. CASE m.requests[r].status # "queued"
  <2>1. {r} \in SUBSET DOMAIN m.leases
    BY <1>2 DEF Sound, TasksMatchLeases
  <2>2. End(m, r) = ReleaseLeases(m, {r})
    BY <1>2 DEF End
  <2>3. QED
    BY <2>1, <2>2, ReleaseCarries
<1>3. QED
  BY <1>1, <1>2

\* A grant makes a queued ticket a lease and leaves the others alone.
LEMMA GrantHeadCarries ==
    ASSUME NEW m, Sound(m), NEW now
    PROVE  Carries(m, GrantHead(m, now))
<1> DEFINE r == Head(m.queue)
           chosen == Selected(m, m.requests[r].demand)
           lease == [cards |-> chosen, started |-> now,
                     deadline |-> now + LeaseDuration(m.requests[r])]
           n == GrantHead(m, now)
<1>1. CASE m.queue = <<>> \/ ~Satisfiable(m, m.requests[r].demand)
  <2>1. n = m
    BY <1>1 DEF GrantHead
  <2>2. QED
    BY <2>1, CarriesItself
<1>2. CASE ~(m.queue = <<>> \/ ~Satisfiable(m, m.requests[r].demand))
  <2>1. /\ n.leases = With(m.leases, {r}, lease)
        /\ n.requests = [m.requests EXCEPT ![r].status = "granted",
                                           ![r].queueDeadline = None]
    BY <1>2 DEF GrantHead
  <2>2. r \in Queued(m)
    <3>1. m.queue \in Seq(RequestId) /\ m.queue # <<>>
      BY <1>2 DEF Sound, TablesOK
    <3>2. r = m.queue[1] /\ 1 \in DOMAIN m.queue
      BY <3>1
    <3>3. QED
      BY <3>2 DEF Queued
  <2> HIDE DEF r, lease, n
  <2>3. /\ r \in Live(m) /\ m.requests[r] \in Request
        /\ m.requests[r].status = "queued" /\ r \notin DOMAIN m.leases
    BY <2>2, QueuedRequest
  <2>4. Live(n) = Live(m) /\ \A x \in Live(m) : x # r => n.requests[x] = m.requests[x]
    BY <2>1 DEF Live
  <2>5. /\ n.requests[r].uid = m.requests[r].uid
        /\ n.requests[r].demand = m.requests[r].demand
        /\ n.requests[r].reservation = m.requests[r].reservation
    BY <2>1, <2>3 DEF Live, Request
  <2>6. \A l \in DOMAIN m.leases : l \in DOMAIN n.leases /\ n.leases[l] = m.leases[l]
    BY <2>1, <2>3 DEF With
  <2>7. \A x \in Live(n) : SameTask(m, n, x)
    BY <2>3, <2>4, <2>5 DEF SameTask
  <2>8. QED
    BY <2>4, <2>6, <2>7 DEF Carries, n
<1>3. QED
  BY <1>1, <1>2

\* So does the whole loop, by the least turn that would not.
LEMMA ScheduleCarries ==
    ASSUME NEW m, Sound(m), NEW now \in Nat
    PROVE  Carries(m, Schedule(m, now))
<1> DEFINE n == Len(m.queue)
           after[i \in 0..n] == IF i = 0 THEN m ELSE GrantHead(after[i - 1], now)
           Good(i) == Sound(after[i]) /\ Carries(m, after[i])
           Bad == {i \in 0..n : ~Good(i)}
<1>1. n \in Nat
  BY DEF Sound, TablesOK
<1>2. after = [i \in 0..n |-> IF i = 0 THEN m ELSE GrantHead(after[i - 1], now)]
  <2>1. \E g : TurnsAre(g, m, now, n)
    BY <1>1, TurnsExist
  <2>2. TurnsAre(after, m, now, n)
    BY <2>1, Zenon DEF TurnsAre
  <2>3. QED
    BY <2>2 DEF TurnsAre
<1>3. Schedule(m, now) = after[n]
  BY DEF Schedule
<1> HIDE DEF after, n
<1>4. after[0] = m /\ \A i \in 1..n : after[i] = GrantHead(after[i - 1], now)
  BY <1>1, <1>2
<1>5. Good(0)
  BY <1>4, CarriesItself
<1>6. ASSUME NEW i \in 1..n, Good(i - 1)
      PROVE  Good(i)
  <2>1. Sound(GrantHead(after[i - 1], now)) /\ Carries(after[i - 1], GrantHead(after[i - 1], now))
    BY <1>6, GrantHeadSound, GrantHeadCarries
  <2>2. QED
    BY <1>4, <1>6, <2>1, CarriesOn
<1>7. Good(n)
  <2> HIDE DEF Good
  <2>1. SUFFICES ASSUME Bad # {}
                 PROVE  FALSE
    BY <1>1
  <2>2. PICK k \in Bad : \A j \in Bad : k <= j
    <3>1. Bad \subseteq Nat
      BY <1>1
    <3> HIDE DEF Bad
    <3>2. QED
      BY <2>1, <3>1, LeastElement
  <2>3. k # 0 /\ k \in 1..n /\ k - 1 \in 0..n /\ k - 1 \notin Bad
    BY <2>2, <1>1, <1>5
  <2>4. QED
    BY <2>2, <2>3, <1>6
<1>8. QED
  BY <1>3, <1>7

\* Task r of m is at its end at time now: its lease, or else its ticket.
DueBy(m, r, now) ==
    IF r \in DOMAIN m.leases THEN m.leases[r].deadline <= now
                             ELSE m.requests[r].queueDeadline <= now

\* What every call does first ends only what is due by the time it has read.
LEMMA MaintainCarries ==
    ASSUME NEW m, Sound(m), NEW now \in Nat
    PROVE  LET n == Maintain(m, now)
           IN  /\ Sound(n) /\ Carries(m, n)
               /\ \A r \in Live(m) \ Live(n) : DueBy(m, r, now)
<1> DEFINE lapsed == ExpiredLeases(m, now)
           reaped == ReleaseLeases(m, lapsed)
           late == ExpiredTickets(reaped, now)
           dropped == DropTickets(reaped, late)
           n == Maintain(m, now)
<1>1. n = Schedule(dropped, now)
  BY DEF Maintain
<1>2. lapsed \in SUBSET DOMAIN m.leases /\ \A l \in lapsed : m.leases[l].deadline <= now
  BY DEF ExpiredLeases
<1>3. /\ late \in SUBSET Queued(reaped)
      /\ \A r \in late : reaped.requests[r].queueDeadline <= now
  BY DEF ExpiredTickets
<1>req. reaped.requests = Without(m.requests, lapsed)
  BY DEF ReleaseLeases
<1> HIDE DEF lapsed
<1>4. /\ Sound(reaped) /\ Carries(m, reaped) /\ Live(reaped) = Live(m) \ lapsed
      /\ Queued(reaped) = Queued(m)
  BY <1>2, ReleaseSound, ReleaseCarries
<1> HIDE DEF reaped, late
<1>5. Sound(dropped) /\ Carries(reaped, dropped) /\ Live(dropped) = Live(reaped) \ late
  BY <1>3, <1>4, DropTicketsSound, DropTicketsCarries
<1> HIDE DEF dropped, n
<1>6. Sound(n) /\ Carries(dropped, n) /\ Live(n) = Live(dropped)
  BY <1>1, <1>5, ScheduleSound, ScheduleCarries
<1>7. Carries(m, n)
  BY <1>4, <1>5, <1>6, CarriesOn
<1>8. \A r \in late : r \notin DOMAIN m.leases /\ m.requests[r].queueDeadline <= now
  <2> SUFFICES ASSUME NEW r \in late
               PROVE  r \notin DOMAIN m.leases /\ m.requests[r].queueDeadline <= now
    OBVIOUS
  <2>1. r \in Live(m) /\ r \notin DOMAIN m.leases
    BY <1>3, <1>4, QueuedRequest
  <2>2. reaped.requests[r] = m.requests[r]
    BY <1>2, <1>req, <2>1 DEF Without, Live
  <2>3. QED
    BY <1>3, <2>1, <2>2
<1>9. \A r \in Live(m) \ Live(n) : DueBy(m, r, now)
  BY <1>2, <1>4, <1>5, <1>6, <1>8 DEF DueBy
<1>10. QED
  BY <1>6, <1>7, <1>9 DEF n

-----------------------------------------------------------------------------
(* What a step does to the tasks.                                          *)

\* What a step that gets from m to n on account of the users A may do, at time
\* now: tasks are not mixed up, new ones are valid, only the lease of a command
\* that is not canceled is moved, and a task ends by its deadline or by who may
\* end it.
Evolves(m, n, A, now) ==
    /\ \A r \in Live(n) : IF r \in Live(m)
                          THEN /\ n.requests[r].uid = m.requests[r].uid
                               /\ n.requests[r].demand = m.requests[r].demand
                               /\ n.requests[r].reservation = m.requests[r].reservation
                               /\ m.requests[r].status = "canceling" =>
                                     n.requests[r].status = "canceling"
                          ELSE ValidDemand(n.requests[r].demand)
    /\ \A l \in DOMAIN m.leases \cap DOMAIN n.leases :
          \/ n.leases[l] = m.leases[l]
          \/ /\ m.requests[l].reservation = None
             /\ m.requests[l].status # "canceling"
    /\ \A r \in Live(m) \ Live(n) :
          DueBy(m, r, now) \/ {Root, m.requests[r].uid} \cap A # {}

LEMMA CarriedEvolves ==
    ASSUME NEW m, NEW n, NEW A, NEW now, Sound(m), Sound(n), Carries(m, n),
           \A r \in Live(m) \ Live(n) :
               DueBy(m, r, now) \/ {Root, m.requests[r].uid} \cap A # {}
    PROVE  Evolves(m, n, A, now)
<1>1. \A l \in DOMAIN n.leases : l \in Live(n)
  BY DEF Sound, TasksMatchLeases
<1>2. QED
  BY <1>1 DEF Evolves, Carries, SameTask

\* From m to n no task comes or goes, and what changes of one is its ticket's
\* deadline, its cancellation, or the lease of a command that is not canceled.
Touches(m, n) ==
    /\ Live(n) = Live(m) /\ DOMAIN n.leases = DOMAIN m.leases
    /\ \A r \in Live(m) :
          /\ n.requests[r].uid = m.requests[r].uid
          /\ n.requests[r].demand = m.requests[r].demand
          /\ n.requests[r].reservation = m.requests[r].reservation
          /\ m.requests[r].status = "canceling" => n.requests[r].status = "canceling"
    /\ \A l \in DOMAIN m.leases :
          \/ n.leases[l] = m.leases[l]
          \/ /\ m.requests[l].reservation = None
             /\ m.requests[l].status # "canceling"

LEMMA TouchedEvolves ==
    ASSUME NEW m, NEW n, NEW o, NEW now, Sound(m), Sound(n), Carries(m, n), Touches(n, o),
           \A r \in Live(m) \ Live(n) : DueBy(m, r, now)
    PROVE  Evolves(m, o, {}, now)
<1>1. \A l \in DOMAIN n.leases : l \in Live(n)
  BY DEF Sound, TasksMatchLeases
<1>2. \A l \in DOMAIN m.leases : l \in Live(m) /\ m.requests[l].status # "queued"
  BY DEF Sound, TasksMatchLeases
<1>3. \A l \in DOMAIN m.leases \cap DOMAIN o.leases :
          \/ o.leases[l] = m.leases[l]
          \/ m.requests[l].reservation = None /\ m.requests[l].status # "canceling"
  BY <1>1, <1>2 DEF Carries, SameTask, Touches
<1>4. \A r \in Live(o) :
          /\ r \in Live(m)
          /\ o.requests[r].uid = m.requests[r].uid
          /\ o.requests[r].demand = m.requests[r].demand
          /\ o.requests[r].reservation = m.requests[r].reservation
          /\ m.requests[r].status = "canceling" => o.requests[r].status = "canceling"
  BY DEF Carries, SameTask, Touches
<1>5. QED
  BY <1>3, <1>4 DEF Evolves, Touches

\* Changing a request in the table touches no other.
LEMMA RequestTouched ==
    ASSUME NEW m, Sound(m), NEW r \in Live(m), NEW req,
           req.uid = m.requests[r].uid, req.demand = m.requests[r].demand,
           req.reservation = m.requests[r].reservation,
           m.requests[r].status = "canceling" => req.status = "canceling"
    PROVE  Touches(m, [m EXCEPT !.requests[r] = req])
<1> DEFINE n == [m EXCEPT !.requests[r] = req]
<1>1. /\ n.requests = [m.requests EXCEPT ![r] = req]
      /\ n.leases = m.leases
  BY DEF Sound, TablesOK
<1> HIDE DEF n
<1>2. QED
  BY <1>1 DEF Touches, Live, n

\* So does a renewal, of the lease of a command that is not canceled.
LEMMA RenewedTouches ==
    ASSUME NEW m, Sound(m), NEW l \in DOMAIN m.leases, NEW now,
           m.requests[l].status # "canceling"
    PROVE  Touches(m, Renewed(m, l, now))
<1>1. CASE m.requests[l].reservation # None
  BY <1>1 DEF Touches, Renewed
<1>2. CASE m.requests[l].reservation = None
  <2> DEFINE n == Renewed(m, l, now)
  <2>1. /\ n.leases = [m.leases EXCEPT ![l].deadline = now + LeaseTTL]
        /\ n.requests = m.requests
    BY <1>2 DEF Renewed, Sound, TablesOK
  <2> HIDE DEF n
  <2>2. QED
    BY <1>2, <2>1 DEF Touches, Live, n
<1>3. QED
  BY <1>1, <1>2

-----------------------------------------------------------------------------
(* One lemma per call. *)

\* The tasks evolve for the sake of u, who is told so, or of nobody.
StepEvolves(now) ==
    \/ Evolves(tables, tables', {}, now)
    \/ reply'.code = "ok" /\ Evolves(tables, tables', {reply'.to}, now)

LEMMA MaintainEvolves ==
    ASSUME Inv, NEW now \in Nat
    PROVE  LET m == Maintain(tables, now)
           IN  /\ Sound(tables) /\ Sound(m) /\ Carries(tables, m)
               /\ \A r \in Live(tables) \ Live(m) : DueBy(tables, r, now)
               /\ Evolves(tables, tables, {}, now) /\ Evolves(tables, m, {}, now)
<1>1. Sound(tables)
  BY InvIsSettled DEF Settled
<1>2. QED
  BY <1>1, MaintainCarries, CarriesItself, CarriedEvolves

LEMMA CreateRequestEvolves ==
    ASSUME Inv, NEW u \in Uid, NEW r \in RequestId, NEW d \in Demands,
           NEW reservation \in Reservations, NEW now \in Nat,
           CreateRequest(u, r, d, reservation, now)
    PROVE  StepEvolves(now)
<1>1. CASE ~Valid(d, reservation) \/ closed
  <2>1. tables' = tables
    BY <1>1 DEF CreateRequest, Quietly
  <2>2. QED
    BY <2>1, MaintainEvolves DEF StepEvolves
<1>2. CASE Valid(d, reservation) /\ ~closed
  <2> DEFINE m == Maintain(tables, now)
             ticket == [uid |-> u, demand |-> d, reservation |-> reservation,
                        status |-> "queued", queueDeadline |-> now + QueueTTL]
             j == Join(m, r, ticket)
             n == Schedule(j, now)
  <2>1. tables' = n /\ r \notin Live(tables)
    BY <1>2 DEF CreateRequest, Notifying
  <2>2. /\ Sound(tables) /\ Sound(m) /\ Carries(tables, m)
        /\ \A x \in Live(tables) \ Live(m) : DueBy(tables, x, now)
        /\ r \notin Live(m)
    BY <2>1, MaintainEvolves DEF Carries
  <2>3. /\ ticket \in Request /\ ticket.demand = d
        /\ ticket.status = "queued" /\ ticket.queueDeadline # None
    BY <1>2, TicketType, TimeAssumption, NoneAssumption
  <2> HIDE DEF m, ticket
  <2>4. Sound(j)
    BY <2>2, <2>3, JoinSound
  <2>5. j.requests = With(m.requests, {r}, ticket) /\ j.leases = m.leases
    BY DEF Join
  <2> HIDE DEF j
  <2>6. Sound(n) /\ Carries(j, n) /\ Live(n) = Live(j)
    BY <2>4, ScheduleSound, ScheduleCarries
  <2> HIDE DEF n
  <2>7. /\ Live(j) = Live(m) \cup {r} /\ j.requests[r] = ticket
        /\ \A x \in Live(m) : j.requests[x] = m.requests[x]
    BY <2>2, <2>5 DEF With, Live
  <2>8. ValidDemand(n.requests[r].demand)
    BY <1>2, <2>3, <2>6, <2>7 DEF Carries, SameTask, Valid
  <2>9. \A x \in Live(n) \ {r} :
            /\ n.requests[x].uid = tables.requests[x].uid
            /\ n.requests[x].demand = tables.requests[x].demand
            /\ n.requests[x].reservation = tables.requests[x].reservation
            /\ tables.requests[x].status = "canceling" =>
                  n.requests[x].status = "canceling"
    BY <2>2, <2>6, <2>7 DEF Carries, SameTask
  <2>10. \A l \in DOMAIN tables.leases \cap DOMAIN n.leases :
            n.leases[l] = tables.leases[l]
    <3>1. \A l \in DOMAIN n.leases : l \in Live(n)
      BY <2>6 DEF Sound, TasksMatchLeases
    <3>2. \A l \in DOMAIN tables.leases : l \in Live(tables)
      BY <2>2 DEF Sound, TasksMatchLeases
    <3>3. QED
      BY <3>1, <3>2, <2>1, <2>2, <2>5, <2>6, <2>7 DEF Carries
  <2>11. Live(n) \ {r} \subseteq Live(tables)
    BY <2>2, <2>6, <2>7 DEF Carries
  <2>12. Evolves(tables, n, {}, now)
    BY <2>1, <2>2, <2>6, <2>7, <2>8, <2>9, <2>10, <2>11 DEF Evolves
  <2>13. QED
    BY <2>1, <2>12 DEF StepEvolves
<1>3. QED
  BY <1>1, <1>2

\* A call that leaves the maintained tables as they are.
LEMMA QuietEvolves ==
    ASSUME Inv, NEW now \in Nat, tables' = tables \/ tables' = Maintain(tables, now)
    PROVE  StepEvolves(now)
BY MaintainEvolves DEF StepEvolves

LEMMA GetRequestEvolves ==
    ASSUME Inv, NEW u \in Uid, NEW r \in RequestId, NEW now \in Nat,
           GetRequest(u, r, now)
    PROVE  StepEvolves(now)
<1> DEFINE m == Maintain(tables, now)
           n == [m EXCEPT !.requests[r].queueDeadline = now + QueueTTL]
<1>1. \/ tables' = m
      \/ r \in Live(m) /\ tables' = n
  BY DEF GetRequest, Refused, Quietly, Notifying
<1>2. /\ Sound(tables) /\ Sound(m) /\ Carries(tables, m)
      /\ \A x \in Live(tables) \ Live(m) : DueBy(tables, x, now)
  BY MaintainEvolves
<1>3. CASE tables' = m
  BY <1>3, QuietEvolves
<1>4. CASE r \in Live(m) /\ tables' = n
  <2> HIDE DEF m
  <2> DEFINE req == [m.requests[r] EXCEPT !.queueDeadline = now + QueueTTL]
  <2>1. n = [m EXCEPT !.requests[r] = req]
    OBVIOUS
  <2>2. m.requests[r] \in Request
    BY <1>2, <1>4 DEF Sound, TablesOK, IsTable, Live
  <2>3. /\ req.uid = m.requests[r].uid /\ req.demand = m.requests[r].demand
        /\ req.reservation = m.requests[r].reservation
        /\ req.status = m.requests[r].status
    BY <2>2 DEF Request
  <2> HIDE DEF n, req
  <2>4. Touches(m, n)
    BY <1>2, <1>4, <2>1, <2>3, RequestTouched
  <2>5. QED
    BY <1>2, <1>4, <2>4, TouchedEvolves DEF StepEvolves
<1>5. QED
  BY <1>1, <1>3, <1>4

\* Ending a task after maintenance, for a user who may end it.
LEMMA EndEvolves ==
    ASSUME Inv, NEW u, NEW now \in Nat,
           NEW r \in Live(Maintain(tables, now)),
           Authorized(Maintain(tables, now), r, u)
    PROVE  Evolves(tables, Schedule(End(Maintain(tables, now), r), now), {u}, now)
<1> DEFINE m == Maintain(tables, now)
           e == End(m, r)
           n == Schedule(e, now)
<1>1. /\ Sound(tables) /\ Sound(m) /\ Carries(tables, m)
      /\ \A x \in Live(tables) \ Live(m) : DueBy(tables, x, now)
  BY MaintainEvolves
<1>2. u = Root \/ tables.requests[r].uid = u
  BY <1>1 DEF Authorized, Carries, SameTask
<1> HIDE DEF m
<1>3. Sound(e) /\ Carries(m, e) /\ Live(e) = Live(m) \ {r}
  BY <1>1, EndSound, EndCarries DEF m
<1> HIDE DEF e
<1>4. Sound(n) /\ Carries(e, n) /\ Live(n) = Live(e)
  BY <1>3, ScheduleSound, ScheduleCarries
<1> HIDE DEF n
<1>5. Carries(tables, n)
  BY <1>1, <1>3, <1>4, CarriesOn
<1>6. \A x \in Live(tables) \ Live(n) :
          DueBy(tables, x, now) \/ {Root, tables.requests[x].uid} \cap {u} # {}
  BY <1>1, <1>2, <1>3, <1>4
<1>7. Evolves(tables, n, {u}, now)
  BY <1>1, <1>4, <1>5, <1>6, CarriedEvolves
<1>8. QED
  BY <1>7 DEF n, e, m

LEMMA CancelRequestEvolves ==
    ASSUME Inv, NEW u \in Uid, NEW r \in RequestId, NEW now \in Nat,
           CancelRequest(u, r, now)
    PROVE  StepEvolves(now)
<1>1. \/ tables' = Maintain(tables, now)
      \/ /\ r \in Live(Maintain(tables, now)) /\ Authorized(Maintain(tables, now), r, u)
         /\ reply'.code = "ok" /\ reply'.to = u
         /\ tables' = Schedule(End(Maintain(tables, now), r), now)
  BY DEF CancelRequest, Refused, Quietly, Notifying, Answer
<1>2. QED
  BY <1>1, QuietEvolves, EndEvolves DEF StepEvolves

LEMMA RenewLeaseEvolves ==
    ASSUME Inv, NEW u \in Uid, NEW l \in RequestId, NEW now \in Nat,
           RenewLease(u, l, now)
    PROVE  StepEvolves(now)
<1> DEFINE m == Maintain(tables, now)
           n == Renewed(m, l, now)
<1>1. \/ tables' = m
      \/ /\ l \in DOMAIN m.leases /\ m.requests[l].status # "canceling"
         /\ tables' = n
  BY DEF RenewLease, LeaseRefused, Known, Quietly, Notifying
<1>2. /\ Sound(tables) /\ Sound(m) /\ Carries(tables, m)
      /\ \A x \in Live(tables) \ Live(m) : DueBy(tables, x, now)
  BY MaintainEvolves
<1>3. CASE tables' = m
  BY <1>3, QuietEvolves
<1>4. CASE l \in DOMAIN m.leases /\ m.requests[l].status # "canceling" /\ tables' = n
  <2> HIDE DEF m
  <2>1. Touches(m, n)
    BY <1>2, <1>4, RenewedTouches
  <2> HIDE DEF n
  <2>2. QED
    BY <1>2, <1>4, <2>1, TouchedEvolves DEF StepEvolves
<1>5. QED
  BY <1>1, <1>3, <1>4

LEMMA ReleaseLeaseEvolves ==
    ASSUME Inv, NEW u \in Uid, NEW l \in RequestId, NEW now \in Nat,
           ReleaseLease(u, l, now)
    PROVE  StepEvolves(now)
<1> DEFINE m == Maintain(tables, now)
<1>1. \/ tables' = m
      \/ /\ l \in DOMAIN m.leases /\ Authorized(m, l, u)
         /\ reply'.code = "ok" /\ reply'.to = u
         /\ tables' = Schedule(ReleaseLeases(m, {l}), now)
  BY DEF ReleaseLease, LeaseRefused, Known, Quietly, Notifying, Answer
<1>2. Sound(m)
  BY MaintainEvolves
<1>3. ASSUME l \in DOMAIN m.leases
      PROVE  l \in Live(m) /\ End(m, l) = ReleaseLeases(m, {l})
  <2> HIDE DEF m
  <2>1. QED
    BY <1>2, <1>3 DEF End, Sound, TasksMatchLeases
<1>4. QED
  BY <1>1, <1>3, QuietEvolves, EndEvolves DEF StepEvolves

LEMMA CancelTaskEvolves ==
    ASSUME Inv, NEW u \in Uid, NEW r \in RequestId, NEW now \in Nat,
           CancelTask(u, r, now)
    PROVE  StepEvolves(now)
<1> DEFINE m == Maintain(tables, now)
           n == [m EXCEPT !.requests[r].status = "canceling"]
<1>1. \/ tables' = m
      \/ /\ r \in Live(m) /\ Authorized(m, r, u)
         /\ reply'.code = "ok" /\ reply'.to = u
         /\ tables' = Schedule(End(m, r), now)
      \/ r \in Live(m) /\ tables' = n
  BY DEF CancelTask, Refused, Quietly, Notifying, Answer
<1>2. /\ Sound(tables) /\ Sound(m) /\ Carries(tables, m)
      /\ \A x \in Live(tables) \ Live(m) : DueBy(tables, x, now)
  BY MaintainEvolves
<1>3. CASE r \in Live(m) /\ tables' = n
  <2> HIDE DEF m
  <2> DEFINE req == [m.requests[r] EXCEPT !.status = "canceling"]
  <2>1. n = [m EXCEPT !.requests[r] = req]
    OBVIOUS
  <2>2. m.requests[r] \in Request
    BY <1>2, <1>3 DEF Sound, TablesOK, IsTable, Live
  <2>3. /\ req.uid = m.requests[r].uid /\ req.demand = m.requests[r].demand
        /\ req.reservation = m.requests[r].reservation
        /\ req.status = "canceling"
    BY <2>2 DEF Request
  <2> HIDE DEF n, req
  <2>4. Touches(m, n)
    BY <1>2, <1>3, <2>1, <2>3, RequestTouched
  <2>5. QED
    BY <1>2, <1>3, <2>4, TouchedEvolves DEF StepEvolves
<1>4. CASE /\ r \in Live(m) /\ Authorized(m, r, u)
           /\ reply'.code = "ok" /\ reply'.to = u
           /\ tables' = Schedule(End(m, r), now)
  BY <1>4, EndEvolves DEF StepEvolves
<1>5. CASE tables' = m
  BY <1>5, QuietEvolves
<1>6. QED
  BY <1>1, <1>3, <1>4, <1>5

\* Every step, by what was due when it is taken.
LEMMA StepsEvolve ==
    ASSUME Inv, [Next]_vars
    PROVE  StepEvolves(clock)
<1>0. Sound(tables) /\ clock \in Nat
  BY MaintainEvolves, InvIsSettled DEF TypeOK, Settled
<1>1. ASSUME NEW u \in Uid, NEW now \in Now, Call(u, now)
      PROVE  StepEvolves(clock)
  <2>1. now \in Nat /\ now <= clock
    BY <1>0 DEF Now
  <2>2. StepEvolves(now)
    BY <1>1, <2>1, CreateRequestEvolves, GetRequestEvolves, CancelRequestEvolves,
       RenewLeaseEvolves, ReleaseLeaseEvolves, CancelTaskEvolves, QuietEvolves
       DEF Call, Status, Tasks, Quietly
  <2>3. \A r \in Live(tables) : DueBy(tables, r, now) => DueBy(tables, r, clock)
    <3> SUFFICES ASSUME NEW r \in Live(tables), DueBy(tables, r, now)
                 PROVE  DueBy(tables, r, clock)
      OBVIOUS
    <3>1. CASE r \in DOMAIN tables.leases
      <4>1. tables.leases[r].deadline \in Nat
        BY <1>0, <3>1 DEF Sound, TablesOK, IsTable, Lease
      <4>2. QED
        BY <2>1, <3>1, <4>1, <1>0 DEF DueBy
    <3>2. CASE r \notin DOMAIN tables.leases
      <4>1. r \in Queued(tables)
        BY <1>0, <3>2 DEF Sound, TasksMatchLeases
      <4>2. tables.requests[r].queueDeadline \in Nat
        BY <1>0, <4>1, QueuedRequest
      <4>3. QED
        BY <2>1, <3>2, <4>2, <1>0 DEF DueBy
    <3>3. QED
      BY <3>1, <3>2
  <2>4. QED
    BY <2>2, <2>3 DEF StepEvolves, Evolves
<1>2. CASE Close \/ Tick \/ UNCHANGED vars
  BY <1>0, <1>2, QuietEvolves DEF Close, Tick, vars
<1>3. CASE Reaper
  BY <1>0, <1>3, QuietEvolves DEF Reaper
<1>4. QED
  BY <1>1, <1>2, <1>3 DEF Next

-----------------------------------------------------------------------------
(* The theorems. *)

\* Who ends a task: it leaves the tables only when its deadline has passed, or by
\* a call of its owner or the administrator, however old the clock reading is
\* that a call works with.
THEOREM OwnersEndTasks == Spec => OnlyOwnerEnds
<1>1. Inv /\ [Next]_vars => [EndedRightly]_vars
  <2> SUFFICES ASSUME Inv, [Next]_vars
               PROVE  EndedRightly
    OBVIOUS
  <2>1. StepEvolves(clock)
    BY StepsEvolve
  <2>2. QED
    BY <2>1 DEF StepEvolves, Evolves, DueBy, EndedRightly, Overdue, Live
<1>2. QED
  BY <1>1, InitInv, NextInv, PTL DEF Spec, OnlyOwnerEnds

\* Nobody extends a reservation or a canceled task, and a canceled task never
\* runs again.
THEOREM DeadlinesStand == Spec => FixedDeadlines
<1>1. Inv /\ [Next]_vars => [NoExtension]_vars
  <2> SUFFICES ASSUME Inv, [Next]_vars
               PROVE  NoExtension
    OBVIOUS
  <2>1. StepEvolves(clock)
    BY StepsEvolve
  <2>2. Sound(tables')
    BY NextInv DEF Inv, Sound, TypeOK, HoldersMatchLeases, TablesAgree
  <2>3. DOMAIN tables.leases \subseteq Live(tables) /\ DOMAIN tables'.leases \subseteq Live(tables')
    BY <2>2, MaintainEvolves DEF Sound, TasksMatchLeases, Inv, TablesAgree
  <2>4. QED
    BY <2>1, <2>3 DEF StepEvolves, Evolves, NoExtension, Fixed
<1>2. QED
  BY <1>1, InitInv, NextInv, PTL DEF Spec, FixedDeadlines

\* The demands in the tables are those that validation lets in.
DemandsValid == \A r \in Live(tables) : ValidDemand(tables.requests[r].demand)

LEMMA DemandsStayValid ==
    Inv /\ DemandsValid /\ [Next]_vars => DemandsValid'
<1> SUFFICES ASSUME Inv, DemandsValid, [Next]_vars
             PROVE  DemandsValid'
  OBVIOUS
<1>1. StepEvolves(clock)
  BY StepsEvolve
<1>2. \A r \in Live(tables') :
          ValidDemand(tables'.requests[r].demand)
  BY <1>1 DEF StepEvolves, Evolves, DemandsValid
<1>3. QED
  BY <1>2 DEF DemandsValid, Live, ValidDemand

\* The cards are as many as the configured order is long.
LEMMA CardsCounted ==
    IsFiniteSet(Card) /\ Cardinality(Card) = Len(CardOrder)
<1>1. DOMAIN CardOrder = 1..Len(CardOrder) /\ Len(CardOrder) \in Nat
  BY CardAssumption
<1>2. CardOrder \in Bijection(1..Len(CardOrder), Card)
  BY <1>1, CardAssumption DEF Bijection, Injection, Surjection, IsInjective, Card
<1>3. IsFiniteSet(1..Len(CardOrder)) /\ Cardinality(1..Len(CardOrder)) = Len(CardOrder)
  <2> DEFINE n == Len(CardOrder)
  <2> HIDE DEF n
  <2>1. n \in Nat
    BY <1>1 DEF n
  <2>2. IsFiniteSet(1..n) /\ Cardinality(1..n) = n
    BY <2>1, FS_Interval
  <2>3. QED
    BY <2>2 DEF n
<1>4. ExistsBijection(1..Len(CardOrder), Card)
  BY <1>2 DEF ExistsBijection
<1>5. QED
  BY <1>3, <1>4, FS_Bijection

\* A demand that validation let in can be met when no card is held, so a queue
\* never waits on an idle machine.
LEMMA IdleServes ==
    Inv /\ DemandsValid => NoWaitOnIdleCards
<1> SUFFICES ASSUME Inv, DemandsValid, Held(tables) = {}, tables.queue # <<>>
             PROVE  FALSE
  BY DEF NoWaitOnIdleCards
<1> DEFINE r == Head(tables.queue)
           d == tables.requests[r].demand
<1>1. Sound(tables) /\ Blocked(tables)
  BY InvIsSettled DEF Settled
<1>2. r \in Queued(tables)
  <2>1. tables.queue \in Seq(RequestId)
    BY <1>1 DEF Sound, TablesOK
  <2>2. r = tables.queue[1] /\ 1 \in DOMAIN tables.queue
    BY <2>1
  <2>3. QED
    BY <2>2 DEF Queued
<1>3. ValidDemand(d) /\ d \in Demand
  BY <1>1, <1>2, QueuedRequest DEF DemandsValid, Request
<1>4. Free(tables) = Card
  BY DEF Free
<1>5. Satisfiable(tables, d)
  <2> HIDE DEF d
  <2>1. CASE d.cards # None
    BY <2>1 DEF Satisfiable
  <2>2. CASE d.cards = None
    <3>1. d.count # None /\ d.count <= Len(CardOrder)
      BY <1>3, <2>2 DEF ValidDemand
    <3>2. d.count \in Nat /\ Len(CardOrder) \in Nat
      BY <1>3, <3>1, CardAssumption DEF Demand
    <3>3. QED
      BY <1>4, <2>2, <3>1, <3>2, CardsCounted DEF Satisfiable
  <2>3. QED
    BY <2>1, <2>2
<1>6. QED
  BY <1>1, <1>5 DEF Blocked

\* A queue never waits on an idle machine: what validation lets in can be served
\* by the configured cards, and no step forgets to serve it.
THEOREM NoIdleWait == Spec => []NoWaitOnIdleCards
<1>1. Init => DemandsValid
  BY DEF Init, DemandsValid, Live
<1>2. QED
  BY <1>1, InitInv, NextInv, DemandsStayValid, IdleServes, PTL DEF Spec

=============================================================================
