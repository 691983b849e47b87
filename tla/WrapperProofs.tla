---------------------------- MODULE WrapperProofs ----------------------------
(***************************************************************************)
(* Proofs about the clients of the daemon, for any number of them and with *)
(* an unreliable transport: that a client which knows how its last call    *)
(* ended has left nothing behind, that the daemon still has the cards of a *)
(* running command leased to it, and that the installer spares commands.   *)
(***************************************************************************)
EXTENDS Installer, PoolProofs

-----------------------------------------------------------------------------
(* What a call does to the tasks of others. *)

\* From m to n a task that stays keeps its owner and its length, and its cards if
\* it has some.
Persists(m, n) ==
    /\ \A r \in Live(m) \cap Live(n) :
          /\ n.requests[r].uid = m.requests[r].uid
          /\ n.requests[r].reservation = m.requests[r].reservation
    /\ \A l \in DOMAIN m.leases : l \in Live(n) =>
          l \in DOMAIN n.leases /\ n.leases[l].cards = m.leases[l].cards

\* From m to n, at time now: no task is new but those of N; outside S a task ends
\* only when it is due, and leases stay as they are.
Spares(m, n, now, N, S) ==
    /\ Live(n) \subseteq Live(m) \cup N
    /\ \A r \in Live(m) \ Live(n) : r \in S \/ DueBy(m, r, now)
    /\ \A l \in DOMAIN m.leases \cap DOMAIN n.leases :
          l \in S \/ n.leases[l] = m.leases[l]

LEMMA StepsPersist ==
    ASSUME Inv, [Next]_vars
    PROVE  Persists(tables, tables')
<1>1. StepEvolves(clock) /\ Follows(tables, tables')
  BY StepsEvolve, StepsFollow
<1>2. QED
  BY <1>1 DEF StepEvolves, Evolves, Follows, Stays, Persists

\* What is due by an older reading of the clock is due now.
LEMMA DueLater ==
    ASSUME NEW m, Sound(m), NEW r \in Live(m), NEW t \in Nat, NEW u \in Nat, t <= u,
           DueBy(m, r, t)
    PROVE  DueBy(m, r, u)
<1>1. CASE r \in DOMAIN m.leases
  <2>1. m.leases[r].deadline \in Nat
    BY <1>1 DEF Sound, TablesOK, IsTable, Lease
  <2>2. QED
    BY <1>1, <2>1 DEF DueBy
<1>2. CASE r \notin DOMAIN m.leases
  <2>1. r \in Queued(m)
    BY <1>2 DEF Sound, TasksMatchLeases
  <2>2. m.requests[r].queueDeadline \in Nat
    BY <2>1, QueuedRequest
  <2>3. QED
    BY <1>2, <2>2 DEF DueBy
<1>3. QED
  BY <1>1, <1>2

\* A reading of the clock that a handler may work with.
LEMMA Readings ==
    ASSUME Inv
    PROVE  /\ clock \in Nat /\ clock \in Now
           /\ \A now \in Now : now \in Nat /\ now <= clock /\ clock - now <= MaxStall
BY TimeAssumption DEF Inv, TypeOK, Now

LEMMA SparesItself ==
    ASSUME NEW m, NEW now, NEW N, NEW S
    PROVE  Spares(m, m, now, N, S)
BY DEF Spares

\* Maintenance at any reading spares everyone.
LEMMA MaintainSpares ==
    ASSUME Inv, NEW now \in Now
    PROVE  LET m == Maintain(tables, now)
           IN  /\ Sound(tables) /\ Sound(m) /\ Carries(tables, m)
               /\ \A r \in Live(tables) \ Live(m) : DueBy(tables, r, clock)
               /\ \A N, S : Spares(tables, m, clock, N, S)
<1> DEFINE m == Maintain(tables, now)
<1>1. now \in Nat /\ clock \in Nat /\ now <= clock
  BY Readings
<1>2. /\ Sound(tables) /\ Sound(m) /\ Carries(tables, m)
      /\ \A r \in Live(tables) \ Live(m) : DueBy(tables, r, now)
  BY <1>1, MaintainEvolves
<1> HIDE DEF m
<1>3. \A r \in Live(tables) \ Live(m) : DueBy(tables, r, clock)
  BY <1>1, <1>2, DueLater
<1>4. \A l \in DOMAIN m.leases : l \in Live(m)
  BY <1>2 DEF Sound, TasksMatchLeases
<1>5. \A N, S : Spares(tables, m, clock, N, S)
  BY <1>2, <1>3, <1>4 DEF Spares, Carries
<1>6. QED
  BY <1>2, <1>3, <1>5 DEF m

\* Ending r after that spares everyone else.
LEMMA EndSpares ==
    ASSUME Inv, NEW now \in Now, NEW r \in Live(Maintain(tables, now))
    PROVE  LET n == Schedule(End(Maintain(tables, now), r), now)
           IN  r \notin Live(n) /\ Spares(tables, n, clock, {}, {r})
<1> DEFINE m == Maintain(tables, now)
           e == End(m, r)
           n == Schedule(e, now)
<1>1. /\ Sound(tables) /\ Sound(m) /\ Carries(tables, m)
      /\ \A x \in Live(tables) \ Live(m) : DueBy(tables, x, clock)
  BY MaintainSpares
<1>2. now \in Nat
  BY Readings
<1> HIDE DEF m
<1>3. Sound(e) /\ Carries(m, e) /\ Live(e) = Live(m) \ {r}
  BY <1>1, EndSound, EndCarries DEF m
<1> HIDE DEF e
<1>4. Sound(n) /\ Carries(e, n) /\ Live(n) = Live(e)
  BY <1>2, <1>3, ScheduleSound, ScheduleCarries
<1> HIDE DEF n
<1>5. Carries(tables, n)
  BY <1>1, <1>3, <1>4, CarriesOn
<1>6. \A l \in DOMAIN n.leases : l \in Live(n)
  BY <1>4 DEF Sound, TasksMatchLeases
<1>7. r \notin Live(n) /\ Spares(tables, n, clock, {}, {r})
  BY <1>1, <1>3, <1>4, <1>5, <1>6 DEF Spares, Carries
<1>8. QED
  BY <1>7 DEF n, e, m

-----------------------------------------------------------------------------
(* What a call does for its caller. *)

LEMMA CreateRequestOutcome ==
    ASSUME Inv, NEW u \in Uid, NEW r \in RequestId, NEW d \in Demands,
           NEW reservation \in Reservations, NEW now \in Now,
           CreateRequest(u, r, d, reservation, now)
    PROVE  /\ Spares(tables, tables', clock, {r}, {})
           /\ reply'.code = "ok" =>
                 /\ r \in Live(tables')
                 /\ tables'.requests[r].uid = u
                 /\ tables'.requests[r].reservation = reservation
<1>1. CASE ~Valid(d, reservation) \/ closed
  <2>1. tables' = tables /\ reply'.code # "ok"
    BY <1>1 DEF CreateRequest, Quietly, Answer
  <2>2. QED
    BY <2>1, SparesItself
<1>2. CASE Valid(d, reservation) /\ ~closed
  <2> DEFINE m == Maintain(tables, now)
             ticket == [uid |-> u, demand |-> d, reservation |-> reservation,
                        status |-> "queued", queueDeadline |-> now + QueueTTL]
             j == Join(m, r, ticket)
             n == Schedule(j, now)
  <2>1. tables' = n /\ r \notin Live(tables)
    BY <1>2 DEF CreateRequest, Notifying
  <2>2. /\ Sound(tables) /\ Sound(m) /\ Carries(tables, m) /\ now \in Nat
        /\ \A x \in Live(tables) \ Live(m) : DueBy(tables, x, clock)
        /\ r \notin Live(m)
    BY <2>1, MaintainSpares, Readings DEF Carries
  <2>3. /\ ticket \in Request /\ ticket.demand = d
        /\ ticket.uid = u /\ ticket.reservation = reservation
        /\ ticket.status = "queued" /\ ticket.queueDeadline # None
    BY <1>2, <2>2, TicketType, TimeAssumption, NoneAssumption
  <2> HIDE DEF m, ticket
  <2>4. Sound(j)
    BY <1>2, <2>2, <2>3, JoinSound
  <2>5. j.requests = With(m.requests, {r}, ticket) /\ j.leases = m.leases
    BY DEF Join
  <2> HIDE DEF j
  <2>6. Sound(n) /\ Carries(j, n) /\ Live(n) = Live(j)
    BY <2>2, <2>4, ScheduleSound, ScheduleCarries
  <2> HIDE DEF n
  <2>7. /\ Live(j) = Live(m) \cup {r} /\ j.requests[r] = ticket
        /\ \A x \in Live(m) : j.requests[x] = m.requests[x]
    BY <2>2, <2>5 DEF With, Live
  <2>8. /\ r \in Live(n) /\ n.requests[r].uid = u
        /\ n.requests[r].reservation = reservation
    BY <2>3, <2>6, <2>7 DEF Carries, SameTask
  <2>9. /\ \A l \in DOMAIN n.leases : l \in Live(n)
        /\ \A l \in DOMAIN tables.leases : l \in Live(tables)
    BY <2>2, <2>6 DEF Sound, TasksMatchLeases
  <2>10. Spares(tables, n, clock, {r}, {})
    BY <2>1, <2>2, <2>5, <2>6, <2>7, <2>9 DEF Carries, Spares
  <2>11. QED
    BY <2>1, <2>8, <2>10
<1>3. QED
  BY <1>1, <1>2

LEMMA GetRequestOutcome ==
    ASSUME Inv, NEW u \in Uid, NEW r \in RequestId, NEW now \in Now,
           GetRequest(u, r, now)
    PROVE  /\ Spares(tables, tables', clock, {}, {})
           /\ reply'.code = "ok" => r \in Live(tables')
<1> DEFINE m == Maintain(tables, now)
           n == [m EXCEPT !.requests[r].queueDeadline = now + QueueTTL]
<1>1. /\ \/ tables' = m
         \/ r \in Live(m) /\ tables' = n
      /\ reply'.code = "ok" => r \in Live(m)
  BY DEF GetRequest, Refused, Quietly, Notifying, Answer
<1>2. Sound(m) /\ Spares(tables, m, clock, {}, {})
  BY MaintainSpares
<1> HIDE DEF m
<1>3. Live(n) = Live(m) /\ n.leases = m.leases
  BY <1>2 DEF Live, Sound, TablesOK
<1> HIDE DEF n
<1>4. Spares(tables, n, clock, {}, {})
  BY <1>2, <1>3 DEF Spares
<1>5. QED
  BY <1>1, <1>2, <1>3, <1>4

\* Task r is that of user u, if it is there at all.
OwnedBy(m, r, u) == r \in Live(m) => m.requests[r].uid = u

LEMMA OwnerAuthorized ==
    ASSUME Inv, NEW u, NEW r, OwnedBy(tables, r, u), NEW now \in Now,
           r \in Live(Maintain(tables, now))
    PROVE  Authorized(Maintain(tables, now), r, u)
<1> DEFINE m == Maintain(tables, now)
<1>1. Carries(tables, m)
  BY MaintainSpares
<1> HIDE DEF m
<1>2. m.requests[r].uid = u
  BY <1>1 DEF Carries, SameTask, OwnedBy, m
<1>3. QED
  BY <1>2 DEF Authorized, m

\* A request that its owner cancels is gone when the call is answered.
LEMMA CancelRequestOutcome ==
    ASSUME Inv, NEW u \in Uid, NEW r \in RequestId, NEW now \in Now,
           CancelRequest(u, r, now)
    PROVE  /\ Spares(tables, tables', clock, {}, {r})
           /\ OwnedBy(tables, r, u) => r \notin Live(tables')
<1>1. \/ /\ tables' = Maintain(tables, now)
         /\ r \notin Live(Maintain(tables, now)) \/ ~Authorized(Maintain(tables, now), r, u)
      \/ /\ r \in Live(Maintain(tables, now))
         /\ tables' = Schedule(End(Maintain(tables, now), r), now)
  BY DEF CancelRequest, Refused, Quietly, Notifying
<1>2. QED
  BY <1>1, MaintainSpares, EndSpares, OwnerAuthorized

\* So is a reservation that its owner cancels.  The lease of a command stays as
\* it is, whoever cancels it.
LEMMA CancelTaskOutcome ==
    ASSUME Inv, NEW u \in Uid, NEW r \in RequestId, NEW now \in Now,
           CancelTask(u, r, now)
    PROVE  /\ Spares(tables, tables', clock, {}, {r})
           /\ OwnedBy(tables, r, u) =>
                 \/ r \notin Live(tables')
                 \/ r \in Live(tables) /\ tables.requests[r].reservation = None
           /\ /\ r \in DOMAIN tables.leases
              /\ tables.requests[r].reservation = None
              => Spares(tables, tables', clock, {}, {})
<1> DEFINE m == Maintain(tables, now)
           n == [m EXCEPT !.requests[r].status = "canceling"]
<1>1. \/ tables' = m /\ (r \notin Live(m) \/ ~Authorized(m, r, u))
      \/ /\ r \in Live(m) /\ tables' = Schedule(End(m, r), now)
         /\ m.requests[r].status = "queued" \/ m.requests[r].reservation # None
      \/ /\ r \in Live(m) /\ tables' = n
         /\ m.requests[r].reservation = None
  BY DEF CancelTask, Refused, Quietly, Notifying
<1>2. /\ Sound(tables) /\ Sound(m) /\ Carries(tables, m)
      /\ \A N, S : Spares(tables, m, clock, N, S)
  BY MaintainSpares
<1>3. CASE tables' = m /\ (r \notin Live(m) \/ ~Authorized(m, r, u))
  BY <1>2, <1>3, OwnerAuthorized
<1>4. CASE /\ r \in Live(m) /\ tables' = Schedule(End(m, r), now)
           /\ m.requests[r].status = "queued" \/ m.requests[r].reservation # None
  <2>1. r \notin Live(tables') /\ Spares(tables, tables', clock, {}, {r})
    BY <1>4, EndSpares
  <2> HIDE DEF m
  <2>2. r \in DOMAIN tables.leases =>
            r \in Live(tables) /\ tables.requests[r].status # "queued"
    BY <1>2 DEF Sound, TasksMatchLeases
  <2>3. ~(r \in DOMAIN tables.leases /\ tables.requests[r].reservation = None)
    BY <1>2, <1>4, <2>2 DEF Carries, SameTask
  <2>4. QED
    BY <2>1, <2>3
<1>5. CASE r \in Live(m) /\ tables' = n /\ m.requests[r].reservation = None
  <2> HIDE DEF m
  <2>1. Live(n) = Live(m) /\ n.leases = m.leases
    BY <1>2 DEF Live, Sound, TablesOK
  <2> HIDE DEF n
  <2>2. \A N, S : Spares(tables, n, clock, N, S)
    BY <1>2, <2>1 DEF Spares
  <2>3. r \in Live(tables) /\ tables.requests[r].reservation = None
    BY <1>2, <1>5 DEF Carries, SameTask
  <2>4. QED
    BY <1>5, <2>2, <2>3
<1>6. QED
  BY <1>1, <1>3, <1>4, <1>5

\* A lease that its owner releases is gone, and its task with it.
LEMMA ReleaseLeaseOutcome ==
    ASSUME Inv, NEW u \in Uid, NEW l \in RequestId, NEW now \in Now,
           ReleaseLease(u, l, now)
    PROVE  /\ Spares(tables, tables', clock, {}, {l})
           /\ OwnedBy(tables, l, u) /\ l \notin Queued(tables) => l \notin Live(tables')
<1> DEFINE m == Maintain(tables, now)
<1>1. \/ tables' = m /\ (l \notin Known(m) \/ ~Authorized(m, l, u))
      \/ l \in DOMAIN m.leases /\ tables' = Schedule(ReleaseLeases(m, {l}), now)
  BY DEF ReleaseLease, LeaseRefused, Known, Quietly, Notifying
<1>2. /\ Sound(tables) /\ Sound(m) /\ Carries(tables, m)
      /\ Spares(tables, m, clock, {}, {l})
  BY MaintainSpares
<1>3. ASSUME l \in DOMAIN m.leases
      PROVE  l \in Live(m) /\ End(m, l) = ReleaseLeases(m, {l})
  <2> HIDE DEF m
  <2>1. QED
    BY <1>2, <1>3 DEF End, Sound, TasksMatchLeases
<1>4. ASSUME l \notin Queued(tables), l \in Live(m)
      PROVE  l \in Known(m)
  <2> HIDE DEF m
  <2>1. QED
    BY <1>2, <1>4 DEF Sound, TasksMatchLeases, Carries, Known
<1>5. QED
  BY <1>1, <1>2, <1>3, <1>4, EndSpares, OwnerAuthorized

\* A lease that is not due outlasts a renewal of it, whatever the answer; one that
\* is answered with "ok" starts over the lease of a command.
LEMMA RenewLeaseOutcome ==
    ASSUME Inv, NEW u \in Uid, NEW l \in RequestId, NEW now \in Now,
           RenewLease(u, l, now)
    PROVE  /\ Spares(tables, tables', clock, {}, {l})
           /\ reply'.code \in {"ok", "not_found", "forbidden", "task_canceled"}
           /\ reply'.code # "ok" => Spares(tables, tables', clock, {}, {})
           /\ reply'.code = "ok" =>
                 /\ l \in DOMAIN tables.leases /\ l \in DOMAIN tables'.leases
                 /\ IF tables.requests[l].reservation = None
                    THEN tables'.leases[l].deadline = now + LeaseTTL
                    ELSE tables'.leases[l] = tables.leases[l]
<1> DEFINE m == Maintain(tables, now)
           n == Renewed(m, l, now)
<1>1. \/ /\ tables' = m
         /\ reply'.code \in {"not_found", "forbidden", "task_canceled"}
      \/ l \in Known(m) /\ tables' = n /\ reply'.code = "ok"
  BY DEF RenewLease, LeaseRefused, Quietly, Notifying, Answer
<1>2. /\ Sound(tables) /\ Sound(m) /\ Carries(tables, m)
      /\ \A N, S : Spares(tables, m, clock, N, S)
  BY MaintainSpares
<1> HIDE DEF m
<1>3. CASE /\ tables' = m
           /\ reply'.code \in {"not_found", "forbidden", "task_canceled"}
  BY <1>2, <1>3
<1>4. CASE l \in Known(m) /\ tables' = n /\ reply'.code = "ok"
  <2>1. /\ l \in DOMAIN tables.leases /\ l \in DOMAIN m.leases
        /\ l \in Live(m) /\ m.leases[l] = tables.leases[l]
        /\ m.requests[l].reservation = tables.requests[l].reservation
    BY <1>2, <1>4 DEF Known, Sound, TasksMatchLeases, Carries, SameTask
  <2>2. /\ Live(n) = Live(m) /\ DOMAIN n.leases = DOMAIN m.leases
        /\ \A k \in DOMAIN m.leases \ {l} : n.leases[k] = m.leases[k]
        /\ IF m.requests[l].reservation = None
           THEN n.leases[l].deadline = now + LeaseTTL
           ELSE n.leases[l] = m.leases[l]
    <3>1. CASE m.requests[l].reservation # None
      BY <3>1 DEF Renewed
    <3>2. CASE m.requests[l].reservation = None
      <4>1. /\ n.leases = [m.leases EXCEPT ![l].deadline = now + LeaseTTL]
            /\ n.requests = m.requests
        BY <1>2, <3>2 DEF Renewed, Sound, TablesOK
      <4>2. m.leases[l] \in Lease
        BY <1>2, <2>1 DEF Sound, TablesOK, IsTable
      <4> HIDE DEF n
      <4>3. QED
        BY <2>1, <3>2, <4>1, <4>2 DEF Live, Lease
    <3>3. QED
      BY <3>1, <3>2
  <2> HIDE DEF n
  <2>3. Spares(tables, n, clock, {}, {l})
    BY <1>2, <2>2 DEF Spares
  <2>4. QED
    BY <1>4, <2>1, <2>2, <2>3
<1>5. QED
  BY <1>1, <1>3, <1>4

\* The calls and steps that are about no task.
LEMMA QuietSpares ==
    ASSUME Inv, Reaper \/ (UNCHANGED tables) \/ (\E u \in Uid, now \in Now : Status(u, now))
    PROVE  Spares(tables, tables', clock, {}, {})
BY MaintainSpares, SparesItself, Readings DEF Reaper, Status, Quietly

-----------------------------------------------------------------------------
(* The invariant: what client w, in state c, and the daemon, with tables m at *)
(* time t, make of each other.                                                *)

ClientState ==
    [phase : {"start", "waiting", "withdrawing", "granted", "confirmed",
              "running", "stopping", "ending", "undoing",
              "over", "unsure", "reserved", "crashed"},
     id : RequestId \cup {None}, cards : SUBSET Card, alive : SUBSET Family,
     beat : {"off", "starting", "healthy", "expired", "not_found",
             "forbidden", "task_canceled"},
     heard : Nat \cup {None}, safeUntil : Nat \cup {None},
     killAt : Nat \cup {None}, late : Nat \cup {None}]

\* No two clients have the same request.
Distinct ==
    \A v, w \in Wrappers : client[v].id = client[w].id /\ client[v].id # None => v = w

\* The daemon has the request of w under its owner and with its length.
Ours(m, w, c) ==
    c.id \in Live(m) =>
        /\ m.requests[c.id].uid = Owner[w]
        /\ m.requests[c.id].reservation = Length(w)

PastGrant == {"granted", "confirmed", "running", "stopping", "ending", "undoing",
              "reserved"}
Executing == {"confirmed", "running", "stopping", "ending"}
Commanding == {"granted", "confirmed", "running", "stopping"}

\* What the client knows of its request is so: it is granted, with these cards, or
\* gone; what is over has no request.
Informed(m, c) ==
    /\ c.phase = "start" => c.id = None
    /\ c.phase \in PastGrant \cup {"waiting", "withdrawing"} => c.id \in RequestId
    /\ c.phase \in PastGrant => c.id \notin Queued(m)
    /\ c.phase \in Commanding /\ c.id \in DOMAIN m.leases =>
          m.leases[c.id].cards = c.cards
    /\ c.phase = "over" => c.id \notin Live(m)

\* Which of the phases, the heartbeat and the command can go together.
Orderly(t, w, c) ==
    /\ c.phase \in Executing => w \notin Grabs
    /\ c.phase = "undoing" => w \in Grabs
    /\ "leader" \in c.alive => c.phase \in {"running", "stopping", "crashed"}
    /\ c.beat \in {"starting", "healthy"} => c.phase = "running"
    /\ c.phase = "running" => c.beat # "off"
    /\ c.late # None =>
          /\ c.phase \in {"running", "stopping", "ending", "over", "unsure", "crashed"}
          /\ c.id \in RequestId /\ c.beat # "starting" /\ c.late <= t

\* The lease of the client is there and ends after u.
Lasts(m, c, u) == c.id \in DOMAIN m.leases /\ m.leases[c.id].deadline > u

\* How long the lease lasts, by what the client goes by: from the renewal its
\* command is started with; beyond the margin of its heartbeat; and, once that has
\* failed, until SIGKILL is due.
TimedStart(m, t, c) ==
    c.phase = "confirmed" \/ c.beat = "starting" =>
        /\ c.heard \in Nat /\ c.heard <= t /\ t <= c.heard + StartStall
        /\ Lasts(m, c, c.heard + LeaseTTL - 1)
TimedBeat(m, t, c) ==
    c.beat = "healthy" =>
        /\ c.safeUntil \in Nat /\ t <= c.safeUntil /\ c.safeUntil + Margin <= t + LeaseTTL
        /\ Lasts(m, c, c.safeUntil + KillAfter)
TimedFailure(m, t, c) ==
    c.phase = "running" /\ c.beat \notin {"starting", "healthy"} =>
        Lasts(m, c, t + KillAfter)
TimedStop(m, t, c) ==
    c.phase = "stopping" /\ "leader" \in c.alive =>
        /\ c.killAt \in Nat /\ t <= c.killAt /\ c.killAt <= t + KillAfter
        /\ Lasts(m, c, c.killAt)
Timed(m, t, c) ==
    TimedStart(m, t, c) /\ TimedBeat(m, t, c) /\ TimedFailure(m, t, c) /\ TimedStop(m, t, c)

\* The margin covers the time a command may take to die, with the time it took to
\* start or the age of a renewal that takes effect late.
MarginCovers == KillAfter + MaxStall < Margin /\ KillAfter + StartStall < Margin

\* What is about time is claimed only when timed, which is until a restart: that
\* takes the leases away and leaves the rest as it is.
Sane(timed, m, t, w, c) ==
    /\ c \in ClientState
    /\ Ours(m, w, c) /\ Informed(m, c) /\ Orderly(t, w, c)
    /\ timed /\ MarginCovers => Timed(m, t, c)

\* All clients, and the daemon.  The invariant of WSpec is WInv(TRUE).
WInv(timed) ==
    /\ Inv
    /\ client = [w \in Wrappers |-> client[w]]
    /\ Distinct
    /\ \A w \in Wrappers : Sane(timed, tables, clock, w, client[w])

-----------------------------------------------------------------------------
(* What a step that spares a client's request keeps for the client. *)

LEMMA OursKept ==
    ASSUME NEW m, NEW n, NEW w, NEW c, NEW now, NEW N, NEW S,
           Persists(m, n), Spares(m, n, now, N, S), c.id \notin N,
           Ours(m, w, c)
    PROVE  Ours(n, w, c)
BY DEF Ours, Persists, Spares

LEMMA InformedKept ==
    ASSUME NEW m, NEW n, NEW c, NEW now, NEW N, NEW S, Sound(m), Sound(n),
           Persists(m, n), Spares(m, n, now, N, S), c.id \notin N,
           Informed(m, c)
    PROVE  Informed(n, c)
<1>1. c.id \in Live(n) => c.id \in Live(m)
  BY DEF Spares
<1>2. \A l : l \in DOMAIN m.leases <=> l \in Live(m) /\ l \notin Queued(m)
  BY DEF Sound, TasksMatchLeases
<1>3. \A l : l \in DOMAIN n.leases <=> l \in Live(n) /\ l \notin Queued(n)
  BY DEF Sound, TasksMatchLeases
<1>4. \A l : l \in Queued(n) => l \in Live(n)
  BY DEF Sound, TasksMatchLeases
<1>5. ASSUME c.id \notin Queued(m)
      PROVE  /\ c.id \notin Queued(n)
             /\ c.id \in DOMAIN n.leases =>
                   c.id \in DOMAIN m.leases /\ n.leases[c.id].cards = m.leases[c.id].cards
  BY <1>1, <1>2, <1>3, <1>4, <1>5 DEF Persists
<1>6. QED
  BY <1>1, <1>5 DEF Informed, PastGrant, Commanding

LEMMA LastsKept ==
    ASSUME NEW m, NEW n, NEW c, NEW now \in Nat, NEW u \in Int, u >= now, NEW N, NEW S,
           Sound(m), Persists(m, n), Spares(m, n, now, N, S), c.id \notin S,
           Lasts(m, c, u)
    PROVE  Lasts(n, c, u)
<1>1. c.id \in DOMAIN m.leases /\ m.leases[c.id].deadline \in Nat /\ c.id \in Live(m)
  BY DEF Lasts, Sound, TablesOK, IsTable, Lease, TasksMatchLeases
<1>2. c.id \in Live(n)
  BY <1>1 DEF Lasts, Spares, DueBy
<1>3. QED
  BY <1>1, <1>2 DEF Lasts, Spares, Persists

LEMMA TimedKept ==
    ASSUME NEW m, NEW n, NEW c, NEW now \in Nat, NEW N, NEW S,
           MarginCovers, Sound(m), Persists(m, n), Spares(m, n, now, N, S), c.id \notin S,
           Timed(m, now, c)
    PROVE  Timed(n, now, c)
<1>0. /\ LeaseTTL \in Nat /\ Margin \in Nat /\ KillAfter \in Nat /\ StartStall \in Nat
      /\ MaxStall \in Nat /\ Margin < LeaseTTL /\ StartStall < LeaseTTL
  BY TimeAssumption, WrapperAssumption DEF MarginCovers
<1>1. \A u \in Int : u >= now /\ Lasts(m, c, u) => Lasts(n, c, u)
  BY LastsKept
<1>2. TimedStart(n, now, c)
  BY <1>0, <1>1 DEF Timed, TimedStart
<1>3. TimedBeat(n, now, c)
  BY <1>0, <1>1 DEF Timed, TimedBeat
<1>4. TimedFailure(n, now, c)
  BY <1>0, <1>1 DEF Timed, TimedFailure
<1>5. TimedStop(n, now, c)
  BY <1>0, <1>1 DEF Timed, TimedStop
<1>6. QED
  BY <1>2, <1>3, <1>4, <1>5 DEF Timed

LEMMA SaneKept ==
    ASSUME NEW timed \in BOOLEAN, NEW m, NEW n, NEW w, NEW c, NEW now \in Nat,
           NEW N, NEW S, Sound(m), Sound(n),
           Persists(m, n), Spares(m, n, now, N, S), c.id \notin N, c.id \notin S,
           Sane(timed, m, now, w, c)
    PROVE  Sane(timed, n, now, w, c)
BY OursKept, InformedKept, TimedKept DEF Sane

\* A step of the daemon that is about nobody's request, or about that of w: then w
\* is all that has to be looked at.
LEMMA ClientSteps ==
    ASSUME NEW timed \in BOOLEAN, WInv(timed),
           [Next]_vars, clock' = clock, NEW w \in Wrappers, NEW N, NEW S,
           Spares(tables, tables', clock, N, S),
           S \subseteq {client[w].id} \ {None},
           \A v \in Wrappers : client[v].id \notin N,
           None \notin N,
           client' = [client EXCEPT ![w] = client'[w]],
           client'[w].id \in {client[w].id} \cup N,
           Sane(timed, tables', clock, w, client'[w])
    PROVE  WInv(timed)'
<1>1. Inv /\ Inv' /\ Persists(tables, tables')
  BY NextInv, StepsPersist DEF WInv
<1>2. Sound(tables) /\ Sound(tables') /\ clock \in Nat
  BY <1>1, Readings DEF Inv, Sound, TypeOK, HoldersMatchLeases, TablesAgree
<1>3. \A v \in Wrappers \ {w} : client'[v] = client[v]
  BY DEF WInv
<1>4. ASSUME NEW v \in Wrappers \ {w}
      PROVE  Sane(timed, tables', clock, v, client[v])
  <2>1. client[v].id \notin N /\ client[v].id \notin S
    BY <1>4 DEF WInv, Distinct
  <2>2. Sane(timed, tables, clock, v, client[v])
    BY <1>4 DEF WInv
  <2>3. QED
    BY <1>1, <1>2, <2>1, <2>2, SaneKept
<1>5. Distinct'
  BY <1>3 DEF WInv, Distinct
<1>6. client' = [v \in Wrappers |-> client'[v]]
  BY DEF WInv
<1>7. \A v \in Wrappers : Sane(timed, tables', clock', v, client'[v])
  BY <1>3, <1>4
<1>8. QED
  BY <1>1, <1>5, <1>6, <1>7 DEF WInv

LEMMA ClientAlone ==
    ASSUME NEW timed \in BOOLEAN, WInv(timed), UNCHANGED vars, NEW w \in Wrappers,
           client' = [client EXCEPT ![w] = client'[w]],
           client'[w].id = client[w].id,
           Sane(timed, tables, clock, w, client'[w])
    PROVE  WInv(timed)'
<1>1. tables' = tables /\ clock' = clock /\ [Next]_vars
  BY DEF vars
<1>2. Spares(tables, tables', clock, {}, {})
  BY <1>1, SparesItself
<1>3. QED
  BY <1>1, <1>2, ClientSteps

\* The client's part of a step: its state was sane, and becomes d.
LEMMA Becoming ==
    ASSUME NEW timed \in BOOLEAN, WInv(timed), NEW w \in Wrappers, NEW d, Becomes(w, d)
    PROVE  /\ client' = [client EXCEPT ![w] = client'[w]] /\ client'[w] = d
           /\ Sane(timed, tables, clock, w, client[w]) /\ client[w] \in ClientState
BY DEF WInv, Becomes, Sane

-----------------------------------------------------------------------------
(* The steps a client takes on its own. *)

\* A lease that lasts until u lasts until every earlier time.
LEMMA LastsLess ==
    ASSUME NEW m, Sound(m), NEW c, NEW u \in Int, Lasts(m, c, u), NEW v \in Int, v <= u
    PROVE  Lasts(m, c, v)
<1>1. m.leases[c.id].deadline \in Nat
  BY DEF Lasts, Sound, TablesOK, IsTable, Lease
<1>2. QED
  BY <1>1 DEF Lasts

LEMMA Margins ==
    ASSUME NEW timed \in BOOLEAN, WInv(timed)
    PROVE  /\ LeaseTTL \in Nat /\ Margin \in Nat /\ KillAfter \in Nat /\ StartStall \in Nat
           /\ MaxStall \in Nat /\ Margin < LeaseTTL /\ clock \in Nat /\ None \notin Nat
           /\ Sound(tables)
BY TimeAssumption, WrapperAssumption, NoneAssumption, Readings
   DEF WInv, Inv, Sound, TypeOK, HoldersMatchLeases, TablesAgree

LEMMA GiveUpSane ==
    ASSUME NEW timed \in BOOLEAN, WInv(timed), NEW w \in Wrappers, GiveUp(w)
    PROVE  WInv(timed)'
<1> DEFINE c == client[w]
           d == [c EXCEPT !.phase = "withdrawing"]
<1>1. Becomes(w, d) /\ UNCHANGED vars /\ c.phase = "waiting"
  BY DEF GiveUp, In, Moves
<1>2. /\ client' = [client EXCEPT ![w] = client'[w]] /\ client'[w] = d
      /\ Sane(timed, tables, clock, w, c) /\ c \in ClientState
  BY <1>1, Becoming
<1>3. d \in ClientState /\ d.id = c.id
  BY <1>2 DEF ClientState
<1>4. Ours(tables, w, d) /\ Informed(tables, d) /\ Orderly(clock, w, d)
  BY <1>1, <1>2, <1>3 DEF Sane, ClientState, Ours, Informed, Orderly, PastGrant, Executing,
     Commanding
<1>5. timed /\ MarginCovers => Timed(tables, clock, d)
  BY <1>1, <1>2 DEF Sane, ClientState, Informed, Orderly, Lasts, MarginCovers, Timed,
     TimedStart, TimedBeat, TimedFailure, TimedStop
<1>6. QED
  BY <1>1, <1>2, <1>3, <1>4, <1>5, ClientAlone DEF Sane

LEMMA InterruptedEarlySane ==
    ASSUME NEW timed \in BOOLEAN, WInv(timed), NEW w \in Wrappers, InterruptedEarly(w)
    PROVE  WInv(timed)'
<1> DEFINE c == client[w]
           d == [c EXCEPT !.phase = IF w \in Grabs THEN "undoing" ELSE "ending"]
<1>1. Becomes(w, d) /\ UNCHANGED vars /\ c.phase = "granted"
  BY DEF InterruptedEarly, In, Moves
<1>2. /\ client' = [client EXCEPT ![w] = client'[w]] /\ client'[w] = d
      /\ Sane(timed, tables, clock, w, c) /\ c \in ClientState
  BY <1>1, Becoming
<1>3. d \in ClientState /\ d.id = c.id
  BY <1>2 DEF ClientState
<1>4. Ours(tables, w, d) /\ Informed(tables, d) /\ Orderly(clock, w, d)
  BY <1>1, <1>2, <1>3 DEF Sane, ClientState, Ours, Informed, Orderly, PastGrant, Executing,
     Commanding
<1>5. timed /\ MarginCovers => Timed(tables, clock, d)
  BY <1>1, <1>2 DEF Sane, ClientState, Informed, Orderly, Lasts, MarginCovers, Timed,
     TimedStart, TimedBeat, TimedFailure, TimedStop
<1>6. QED
  BY <1>1, <1>2, <1>3, <1>4, <1>5, ClientAlone DEF Sane

LEMMA ReportSane ==
    ASSUME NEW timed \in BOOLEAN, WInv(timed), NEW w \in Wrappers, Report(w)
    PROVE  WInv(timed)'
<1> DEFINE c == client[w]
           d == [c EXCEPT !.phase = "reserved"]
<1>1. Becomes(w, d) /\ UNCHANGED vars /\ c.phase = "granted" /\ w \in Grabs
  BY DEF Report, In, Moves
<1>2. /\ client' = [client EXCEPT ![w] = client'[w]] /\ client'[w] = d
      /\ Sane(timed, tables, clock, w, c) /\ c \in ClientState
  BY <1>1, Becoming
<1>3. d \in ClientState /\ d.id = c.id
  BY <1>2 DEF ClientState
<1>4. Ours(tables, w, d) /\ Informed(tables, d) /\ Orderly(clock, w, d)
  BY <1>1, <1>2, <1>3 DEF Sane, ClientState, Ours, Informed, Orderly, PastGrant, Executing,
     Commanding
<1>5. timed /\ MarginCovers => Timed(tables, clock, d)
  BY <1>1, <1>2 DEF Sane, ClientState, Informed, Orderly, Lasts, MarginCovers, Timed,
     TimedStart, TimedBeat, TimedFailure, TimedStop
<1>6. QED
  BY <1>1, <1>2, <1>3, <1>4, <1>5, ClientAlone DEF Sane

LEMMA HeartbeatStartsSane ==
    ASSUME NEW timed \in BOOLEAN, WInv(timed), NEW w \in Wrappers, HeartbeatStarts(w)
    PROVE  WInv(timed)'
<1> DEFINE c == client[w]
           until == clock + LeaseTTL - Margin
           d == [c EXCEPT !.beat = "healthy", !.heard = None, !.safeUntil = until]
<1>0. until \in Nat /\ clock <= until /\ until + Margin = clock + LeaseTTL
  BY Margins
<1>1. Becomes(w, d) /\ UNCHANGED vars
      /\ c.beat = "starting"
  BY DEF HeartbeatStarts, SafeUntil
<1> HIDE DEF until
<1>2. /\ client' = [client EXCEPT ![w] = client'[w]] /\ client'[w] = d
      /\ Sane(timed, tables, clock, w, c) /\ c \in ClientState
  BY <1>1, Becoming
<1>3. d \in ClientState /\ d.id = c.id
  BY <1>0, <1>2 DEF ClientState
<1>4. Ours(tables, w, d) /\ Informed(tables, d) /\ Orderly(clock, w, d)
  BY <1>1, <1>2, <1>3 DEF Sane, ClientState, Ours, Informed, Orderly, PastGrant, Executing,
     Commanding
<1>5. ASSUME timed, MarginCovers
      PROVE  Timed(tables, clock, d)
  <2>1. /\ c.heard \in Nat /\ clock <= c.heard + StartStall
        /\ Lasts(tables, c, c.heard + LeaseTTL - 1)
    BY <1>1, <1>2, <1>5 DEF Sane, Timed, TimedStart
  <2>2. until + KillAfter \in Int /\ until + KillAfter <= c.heard + LeaseTTL - 1
    <3>1. MarginCovers
      BY <1>5
    <3>2. QED
      BY <1>0, <2>1, <3>1, Margins DEF MarginCovers
  <2>3. Lasts(tables, c, until + KillAfter)
    BY <2>1, <2>2, LastsLess, Margins
  <2>4. TimedBeat(tables, clock, d)
    BY <1>0, <1>2, <1>3, <2>3, Margins DEF TimedBeat, Lasts, ClientState
  <2>5. d.phase = "running" /\ d.beat = "healthy"
    BY <1>1, <1>2 DEF Sane, Orderly, ClientState
  <2>6. QED
    BY <2>4, <2>5 DEF Timed, TimedStart, TimedFailure, TimedStop
<1>6. QED
  BY <1>1, <1>2, <1>3, <1>4, <1>5, ClientAlone DEF Sane

LEMMA HeartbeatExpiresSane ==
    ASSUME NEW timed \in BOOLEAN, WInv(timed), NEW w \in Wrappers, HeartbeatExpires(w)
    PROVE  WInv(timed)'
<1> DEFINE c == client[w]
           d == [c EXCEPT !.beat = "expired"]
<1>1. Becomes(w, d) /\ UNCHANGED vars
      /\ c.beat = "healthy" /\ clock >= c.safeUntil
  BY DEF HeartbeatExpires, Becomes
<1>2. /\ client' = [client EXCEPT ![w] = client'[w]] /\ client'[w] = d
      /\ Sane(timed, tables, clock, w, c) /\ c \in ClientState
  BY <1>1, Becoming
<1>3. d \in ClientState /\ d.id = c.id
  BY <1>2, Margins DEF ClientState
<1>4. Ours(tables, w, d) /\ Informed(tables, d) /\ Orderly(clock, w, d)
  BY <1>1, <1>2, <1>3 DEF Sane, ClientState, Ours, Informed, Orderly, PastGrant, Executing,
     Commanding
<1>5. ASSUME timed, MarginCovers
      PROVE  Timed(tables, clock, d)
  <2>1. /\ Margin \in Nat /\ KillAfter \in Nat /\ clock \in Nat
        /\ Timed(tables, clock, c)
    BY <1>2, <1>5, Margins DEF Sane
  <2>2. QED
    BY <1>1, <1>2, <2>1 DEF Sane, ClientState, Orderly, Lasts, Timed, TimedStart, TimedBeat,
       TimedFailure, TimedStop
<1>6. QED
  BY <1>1, <1>2, <1>3, <1>4, <1>5, ClientAlone DEF Sane

LEMMA ExitsSane ==
    ASSUME NEW timed \in BOOLEAN, WInv(timed),
           NEW w \in Wrappers, NEW p \in Family, Exits(w, p)
    PROVE  WInv(timed)'
<1> DEFINE c == client[w]
           d == [c EXCEPT !.alive = @ \ {p}]
<1>1. Becomes(w, d) /\ UNCHANGED vars
  BY DEF Exits, Becomes
<1>2. /\ client' = [client EXCEPT ![w] = client'[w]] /\ client'[w] = d
      /\ Sane(timed, tables, clock, w, c) /\ c \in ClientState
  BY <1>1, Becoming
<1>3. d \in ClientState /\ d.id = c.id
  BY <1>2 DEF ClientState
<1>4. Ours(tables, w, d) /\ Informed(tables, d) /\ Orderly(clock, w, d)
  BY <1>1, <1>2, <1>3 DEF Sane, ClientState, Ours, Informed, Orderly, PastGrant, Executing,
     Commanding
<1>5. timed /\ MarginCovers => Timed(tables, clock, d)
  BY <1>1, <1>2 DEF Sane, ClientState, Informed, Orderly, Lasts, MarginCovers, Timed,
     TimedStart, TimedBeat, TimedFailure, TimedStop
<1>6. QED
  BY <1>1, <1>2, <1>3, <1>4, <1>5, ClientAlone DEF Sane

LEMMA TerminateSane ==
    ASSUME NEW timed \in BOOLEAN, WInv(timed), NEW w \in Wrappers, Terminate(w)
    PROVE  WInv(timed)'
<1> DEFINE c == client[w]
           until == clock + KillAfter
           d == [c EXCEPT !.phase = "stopping", !.killAt = until]
<1>0. until \in Nat /\ clock <= until /\ until = clock + KillAfter
  BY Margins
<1>1. Becomes(w, d) /\ UNCHANGED vars
      /\ c.phase = "running" /\ c.beat \notin {"off", "starting", "healthy"}
  BY DEF Terminate, In
<1> HIDE DEF until
<1>2. /\ client' = [client EXCEPT ![w] = client'[w]] /\ client'[w] = d
      /\ Sane(timed, tables, clock, w, c) /\ c \in ClientState
  BY <1>1, Becoming
<1>3. d \in ClientState /\ d.id = c.id
  BY <1>0, <1>2 DEF ClientState
<1>4. Ours(tables, w, d) /\ Informed(tables, d) /\ Orderly(clock, w, d)
  BY <1>1, <1>2, <1>3 DEF Sane, ClientState, Ours, Informed, Orderly, PastGrant, Executing,
     Commanding
<1>5. timed /\ MarginCovers => Timed(tables, clock, d)
  BY <1>0, <1>1, <1>2, Margins
     DEF Sane, ClientState, Informed, Orderly, Lasts, MarginCovers, Timed,
         TimedStart, TimedBeat, TimedFailure, TimedStop
<1>6. QED
  BY <1>1, <1>2, <1>3, <1>4, <1>5, ClientAlone DEF Sane

LEMMA KillSane ==
    ASSUME NEW timed \in BOOLEAN, WInv(timed), NEW w \in Wrappers, Kill(w)
    PROVE  WInv(timed)'
<1> DEFINE c == client[w]
           d == [c EXCEPT !.alive = {}]
<1>1. Becomes(w, d) /\ UNCHANGED vars
  BY DEF Kill, Becomes
<1>2. /\ client' = [client EXCEPT ![w] = client'[w]] /\ client'[w] = d
      /\ Sane(timed, tables, clock, w, c) /\ c \in ClientState
  BY <1>1, Becoming
<1>3. d \in ClientState /\ d.id = c.id
  BY <1>2 DEF ClientState
<1>4. Ours(tables, w, d) /\ Informed(tables, d) /\ Orderly(clock, w, d)
  BY <1>1, <1>2, <1>3 DEF Sane, ClientState, Ours, Informed, Orderly, PastGrant, Executing,
     Commanding
<1>5. timed /\ MarginCovers => Timed(tables, clock, d)
  BY <1>1, <1>2 DEF Sane, ClientState, Informed, Orderly, Lasts, MarginCovers, Timed,
     TimedStart, TimedBeat, TimedFailure, TimedStop
<1>6. QED
  BY <1>1, <1>2, <1>3, <1>4, <1>5, ClientAlone DEF Sane

LEMMA CommandGoneSane ==
    ASSUME NEW timed \in BOOLEAN, WInv(timed), NEW w \in Wrappers, CommandGone(w)
    PROVE  WInv(timed)'
<1> DEFINE c == client[w]
           d == [c EXCEPT !.phase = "ending", !.beat = "off", !.heard = None,
                         !.safeUntil = None, !.killAt = None]
<1>1. Becomes(w, d) /\ UNCHANGED vars
      /\ c.phase \in {"running", "stopping"} /\ "leader" \notin c.alive
  BY DEF CommandGone, Leads
<1>2. /\ client' = [client EXCEPT ![w] = client'[w]] /\ client'[w] = d
      /\ Sane(timed, tables, clock, w, c) /\ c \in ClientState
  BY <1>1, Becoming
<1>3. d \in ClientState /\ d.id = c.id
  BY <1>2 DEF ClientState
<1>4. Ours(tables, w, d) /\ Informed(tables, d) /\ Orderly(clock, w, d)
  BY <1>1, <1>2, <1>3 DEF Sane, ClientState, Ours, Informed, Orderly, PastGrant, Executing,
     Commanding
<1>5. timed /\ MarginCovers => Timed(tables, clock, d)
  BY <1>1, <1>2 DEF Sane, ClientState, Informed, Orderly, Lasts, MarginCovers, Timed,
     TimedStart, TimedBeat, TimedFailure, TimedStop
<1>6. QED
  BY <1>1, <1>2, <1>3, <1>4, <1>5, ClientAlone DEF Sane

LEMMA CrashSane ==
    ASSUME NEW timed \in BOOLEAN, WInv(timed), NEW w \in Wrappers, Crash(w)
    PROVE  WInv(timed)'
<1> DEFINE c == client[w]
           d == [c EXCEPT !.phase = "crashed", !.beat = "off", !.heard = None,
                         !.safeUntil = None, !.killAt = None]
<1>1. Becomes(w, d) /\ UNCHANGED vars
      /\ c.phase \notin {"over", "unsure", "reserved", "crashed"}
  BY DEF Crash, Becomes
<1>2. /\ client' = [client EXCEPT ![w] = client'[w]] /\ client'[w] = d
      /\ Sane(timed, tables, clock, w, c) /\ c \in ClientState
  BY <1>1, Becoming
<1>3. d \in ClientState /\ d.id = c.id
  BY <1>2 DEF ClientState
<1>4. Ours(tables, w, d) /\ Informed(tables, d) /\ Orderly(clock, w, d)
  BY <1>1, <1>2, <1>3 DEF Sane, ClientState, Ours, Informed, Orderly, PastGrant, Executing,
     Commanding
<1>5. timed /\ MarginCovers => Timed(tables, clock, d)
  BY <1>1, <1>2 DEF Sane, ClientState, Informed, Orderly, Lasts, MarginCovers, Timed,
     TimedStart, TimedBeat, TimedFailure, TimedStop
<1>6. QED
  BY <1>1, <1>2, <1>3, <1>4, <1>5, ClientAlone DEF Sane

-----------------------------------------------------------------------------
(* The calls a client makes. *)

\* A call is a step of the daemon, and takes no time.
LEMMA Calling ==
    ASSUME NEW timed \in BOOLEAN, WInv(timed),
           NEW u \in Uid, NEW r \in RequestId, NEW now \in Now,
           \/ GetRequest(u, r, now) \/ CancelRequest(u, r, now) \/ CancelTask(u, r, now)
           \/ RenewLease(u, r, now) \/ ReleaseLease(u, r, now)
    PROVE  [Next]_vars /\ clock' = clock
<1>1. Call(u, now)
  BY DEF Call
<1>2. clock' = clock
  BY DEF GetRequest, CancelRequest, CancelTask, RenewLease, ReleaseLease, Refused,
         LeaseRefused, Quietly, Notifying
<1>3. QED
  BY <1>1, <1>2 DEF Next

\* A call about its own request keeps what the client knows, as far as that is not
\* about the lease.
LEMMA OwnCall ==
    ASSUME NEW timed \in BOOLEAN, WInv(timed), NEW w \in Wrappers, [Next]_vars,
           NEW S, Spares(tables, tables', clock, {}, S)
    PROVE  /\ Sound(tables') /\ Persists(tables, tables')
           /\ Ours(tables', w, client[w]) /\ Informed(tables', client[w])
<1>1. Inv /\ Inv' /\ Persists(tables, tables')
  BY NextInv, StepsPersist DEF WInv
<1>2. Sound(tables) /\ Sound(tables')
  BY <1>1 DEF Inv, Sound, TypeOK, HoldersMatchLeases, TablesAgree
<1>3. Ours(tables, w, client[w]) /\ Informed(tables, client[w])
  BY DEF WInv, Sane
<1>4. QED
  BY <1>1, <1>2, <1>3, OursKept, InformedKept

\* After it, the client is all that has to be looked at.
LEMMA OwnCallSteps ==
    ASSUME NEW timed \in BOOLEAN, WInv(timed),
           NEW w \in Wrappers, [Next]_vars, clock' = clock,
           client[w].id \in RequestId,
           Spares(tables, tables', clock, {}, {client[w].id}),
           client' = [client EXCEPT ![w] = client'[w]],
           client'[w].id = client[w].id,
           Sane(timed, tables', clock, w, client'[w])
    PROVE  WInv(timed)'
<1> DEFINE N == {}
           S == {client[w].id}
<1>1. /\ S \subseteq {client[w].id} \ {None} /\ None \notin N
      /\ \A v \in Wrappers : client[v].id \notin N
      /\ client'[w].id \in {client[w].id} \cup N
  BY WrapperAssumption
<1>2. Spares(tables, tables', clock, N, S)
  OBVIOUS
<1> HIDE DEF N, S
<1>3. QED
  BY <1>1, <1>2, ClientSteps

\* Who calls about what: the owner of the client's request, at any reading.
LEMMA Caller ==
    ASSUME NEW timed \in BOOLEAN, WInv(timed), NEW w \in Wrappers
    PROVE  /\ Owner[w] \in Uid /\ clock \in Now /\ Inv
           /\ OwnedBy(tables, client[w].id, Owner[w])
           /\ Sane(timed, tables, clock, w, client[w]) /\ client[w] \in ClientState
           /\ client[w].id # None => client[w].id \in RequestId
BY WrapperAssumption, Readings DEF WInv, Sane, Ours, OwnedBy, ClientState

\* The end of a client: if it knows that its request is gone, it is.
LEMMA EndsSane ==
    ASSUME NEW timed \in BOOLEAN, WInv(timed),
           NEW w \in Wrappers, client[w].id \in RequestId,
           client[w].phase \in {"withdrawing", "undoing", "ending"},
           [Next]_vars, clock' = clock,
           Spares(tables, tables', clock, {}, {client[w].id}),
           \/ Moves(w, "over") /\ client[w].id \notin Live(tables')
           \/ Moves(w, "unsure")
    PROVE  WInv(timed)'
<1> DEFINE c == client[w]
<1>1. PICK phase \in {"over", "unsure"} :
          /\ Becomes(w, [c EXCEPT !.phase = phase])
          /\ phase = "over" => c.id \notin Live(tables')
  BY DEF Moves
<1> DEFINE d == [c EXCEPT !.phase = phase]
<1>2. /\ client' = [client EXCEPT ![w] = client'[w]] /\ client'[w] = d
      /\ Sane(timed, tables, clock, w, c) /\ c \in ClientState
  BY <1>1, Becoming
<1>3. /\ d \in ClientState /\ d.id = c.id /\ d.phase = phase
      /\ c.id # None
  BY <1>2, WrapperAssumption DEF ClientState
<1>4. Ours(tables', w, c) /\ Informed(tables', c)
  BY OwnCall
<1>5. Ours(tables', w, d) /\ Informed(tables', d) /\ Orderly(clock, w, d)
  BY <1>1, <1>2, <1>3, <1>4 DEF Sane, ClientState, Ours, Informed, Orderly, PastGrant,
     Executing, Commanding
<1>6. Timed(tables', clock, d)
  BY <1>2, <1>3 DEF Sane, ClientState, Orderly, Timed, TimedStart, TimedBeat,
     TimedFailure, TimedStop
<1>7. Sane(timed, tables', clock, w, d)
  BY <1>3, <1>5, <1>6 DEF Sane
<1>8. client'[w].id = c.id /\ Sane(timed, tables', clock, w, client'[w])
  BY <1>2, <1>3, <1>7
<1> HIDE DEF d
<1>9. QED
  BY <1>2, <1>8, OwnCallSteps

LEMMA WithdrawSane ==
    ASSUME NEW timed \in BOOLEAN, WInv(timed),
           NEW w \in Wrappers, Withdraw(w)
    PROVE  WInv(timed)'
<1> DEFINE r == client[w].id
<1>1. client[w].phase = "withdrawing" /\ r \in RequestId /\ r # None
  BY Caller, WrapperAssumption DEF Withdraw, In, Sane, Informed
<1>2. ASSUME NEW now \in Now, CancelRequest(Owner[w], r, now),
             Moves(w, "over") \/ Moves(w, "unsure")
      PROVE  WInv(timed)'
  <2>1. /\ Spares(tables, tables', clock, {}, {r}) /\ r \notin Live(tables')
        /\ [Next]_vars /\ clock' = clock
    BY <1>1, <1>2, Caller, CancelRequestOutcome, Calling
  <2>2. QED
    BY <1>1, <1>2, <2>1, EndsSane
<1>3. CASE UNCHANGED vars /\ Moves(w, "unsure")
  <2>1. Spares(tables, tables', clock, {}, {r}) /\ clock' = clock
    BY <1>3, SparesItself DEF vars
  <2>2. QED
    BY <1>1, <1>3, <2>1, EndsSane
<1>4. QED
  BY <1>2, <1>3 DEF Withdraw, LastCall, NotArrived

LEMMA UndoSane ==
    ASSUME NEW timed \in BOOLEAN, WInv(timed),
           NEW w \in Wrappers, Undo(w)
    PROVE  WInv(timed)'
<1> DEFINE r == client[w].id
<1>1. client[w].phase = "undoing" /\ r \in RequestId /\ r # None /\ w \in Grabs
  BY Caller, WrapperAssumption DEF Undo, In, Sane, Informed, Orderly, PastGrant
<1>2. ASSUME NEW now \in Now, CancelTask(Owner[w], r, now),
             Moves(w, "over") \/ Moves(w, "unsure")
      PROVE  WInv(timed)'
  <2>1. /\ Spares(tables, tables', clock, {}, {r})
        /\ \/ r \notin Live(tables')
           \/ r \in Live(tables) /\ tables.requests[r].reservation = None
        /\ [Next]_vars /\ clock' = clock
    BY <1>1, <1>2, Caller, CancelTaskOutcome, Calling
  <2>2. r \notin Live(tables')
    BY <1>1, <2>1, Caller, WrapperAssumption, NoneAssumption DEF Sane, Ours, Length
  <2>3. QED
    BY <1>1, <1>2, <2>1, <2>2, EndsSane
<1>3. CASE UNCHANGED vars /\ Moves(w, "unsure")
  <2>1. Spares(tables, tables', clock, {}, {r}) /\ clock' = clock
    BY <1>3, SparesItself DEF vars
  <2>2. QED
    BY <1>1, <1>3, <2>1, EndsSane
<1>4. QED
  BY <1>2, <1>3 DEF Undo, LastCall, NotArrived

LEMMA ReleaseSane ==
    ASSUME NEW timed \in BOOLEAN, WInv(timed),
           NEW w \in Wrappers, Release(w)
    PROVE  WInv(timed)'
<1> DEFINE r == client[w].id
<1>1. client[w].phase = "ending" /\ r \in RequestId /\ r # None /\ r \notin Queued(tables)
  BY Caller, WrapperAssumption DEF Release, In, Sane, Informed, PastGrant
<1>2. ASSUME NEW now \in Now, ReleaseLease(Owner[w], r, now),
             Moves(w, "over") \/ Moves(w, "unsure")
      PROVE  WInv(timed)'
  <2>1. /\ Spares(tables, tables', clock, {}, {r}) /\ r \notin Live(tables')
        /\ [Next]_vars /\ clock' = clock
    BY <1>1, <1>2, Caller, ReleaseLeaseOutcome, Calling
  <2>2. QED
    BY <1>1, <1>2, <2>1, EndsSane
<1>3. CASE UNCHANGED vars /\ Moves(w, "unsure")
  <2>1. Spares(tables, tables', clock, {}, {r}) /\ clock' = clock
    BY <1>3, SparesItself DEF vars
  <2>2. QED
    BY <1>1, <1>3, <2>1, EndsSane
<1>4. QED
  BY <1>2, <1>3 DEF Release, LastCall, NotArrived

-----------------------------------------------------------------------------
(* Acquiring cards. *)

\* A call about nobody's request.
LEMMA NobodySteps ==
    ASSUME NEW timed \in BOOLEAN, WInv(timed),
           [Next]_vars, clock' = clock, UNCHANGED client,
           Spares(tables, tables', clock, {}, {})
    PROVE  WInv(timed)'
<1>1. Inv /\ Inv' /\ Persists(tables, tables')
  BY NextInv, StepsPersist DEF WInv
<1>2. Sound(tables) /\ Sound(tables') /\ clock \in Nat
  BY <1>1, Readings DEF Inv, Sound, TypeOK, HoldersMatchLeases, TablesAgree
<1>3. \A v \in Wrappers : Sane(timed, tables', clock, v, client[v])
  BY <1>1, <1>2, SaneKept DEF WInv
<1>4. QED
  BY <1>1, <1>3 DEF WInv, Distinct

\* What the client makes of an answer that has the state of its request.
LEMMA AfterStateIs ==
    ASSUME NEW w \in Wrappers, client[w] \in ClientState, NEW r \in RequestId,
           Sound(tables'), r \in Live(tables'), AfterState(w, r)
    PROVE  \E phase \in {"waiting", "granted", "withdrawing"}, cards \in SUBSET Card :
              /\ Becomes(w, [client[w] EXCEPT !.id = r, !.phase = phase, !.cards = cards])
              /\ phase = "granted" =>
                    r \notin Queued(tables') /\ cards = tables'.leases[r].cards
<1> DEFINE c == client[w]
           m == tables'
<1>1. CASE m.requests[r].status = "queued"
  <2>1. Becomes(w, [[c EXCEPT !.id = r] EXCEPT !.phase = "waiting"])
    BY <1>1 DEF AfterState
  <2>2. /\ [[c EXCEPT !.id = r] EXCEPT !.phase = "waiting"]
           = [c EXCEPT !.id = r, !.phase = "waiting", !.cards = c.cards]
        /\ c.cards \in SUBSET Card
    BY DEF ClientState
  <2>3. QED
    BY <2>1, <2>2
<1>2. CASE m.requests[r].status = "granted"
  <2>1. Becomes(w, [[c EXCEPT !.id = r] EXCEPT !.phase = "granted",
                                               !.cards = m.leases[r].cards])
    BY <1>2 DEF AfterState
  <2>2. r \notin Queued(m) /\ r \in DOMAIN m.leases
    BY <1>2 DEF Sound, TasksMatchLeases
  <2>3. m.leases[r].cards \in SUBSET Card
    BY <2>2 DEF Sound, TablesOK, IsTable, Lease
  <2>4. PICK cards \in SUBSET Card : cards = m.leases[r].cards
    BY <2>3
  <2>5. [[c EXCEPT !.id = r] EXCEPT !.phase = "granted", !.cards = cards]
           = [c EXCEPT !.id = r, !.phase = "granted", !.cards = cards]
    BY DEF ClientState
  <2>6. QED
    BY <2>1, <2>2, <2>4, <2>5
<1>3. CASE m.requests[r].status \notin {"queued", "granted"}
  <2>1. Becomes(w, [[c EXCEPT !.id = r] EXCEPT !.phase = "withdrawing"])
    BY <1>3 DEF AfterState
  <2>2. /\ [[c EXCEPT !.id = r] EXCEPT !.phase = "withdrawing"]
           = [c EXCEPT !.id = r, !.phase = "withdrawing", !.cards = c.cards]
        /\ c.cards \in SUBSET Card
    BY DEF ClientState
  <2>3. QED
    BY <2>1, <2>2
<1>4. QED
  BY <1>1, <1>2, <1>3

LEMMA AnsweredSane ==
    ASSUME NEW timed \in BOOLEAN, WInv(timed),
           NEW w \in Wrappers, client[w].phase \in {"start", "waiting"},
           NEW r \in RequestId, r \in Live(tables'), AfterState(w, r),
           tables'.requests[r].uid = Owner[w], tables'.requests[r].reservation = Length(w),
           [Next]_vars, clock' = clock, NEW N, Spares(tables, tables', clock, N, {}),
           \A v \in Wrappers : client[v].id \notin N,
           None \notin N, r \in {client[w].id} \cup N
    PROVE  WInv(timed)'
<1> DEFINE c == client[w]
<1>1. Sound(tables')
  BY NextInv DEF WInv, Inv, Sound, TypeOK, HoldersMatchLeases, TablesAgree
<1>2. PICK phase \in {"waiting", "granted", "withdrawing"}, cards \in SUBSET Card :
          /\ Becomes(w, [c EXCEPT !.id = r, !.phase = phase, !.cards = cards])
          /\ phase = "granted" =>
                r \notin Queued(tables') /\ cards = tables'.leases[r].cards
  BY <1>1, Caller, AfterStateIs
<1> DEFINE d == [c EXCEPT !.id = r, !.phase = phase, !.cards = cards]
<1>3. /\ client' = [client EXCEPT ![w] = client'[w]] /\ client'[w] = d
      /\ Sane(timed, tables, clock, w, c) /\ c \in ClientState
  BY <1>2, Becoming
<1>4. /\ d \in ClientState /\ d.id = r /\ d.phase = phase /\ d.cards = cards
      /\ d.beat = c.beat /\ d.alive = c.alive /\ d.late = c.late
  BY <1>3 DEF ClientState
<1> HIDE DEF d
<1>5. /\ c.beat \notin {"starting", "healthy"} /\ "leader" \notin c.alive /\ c.late = None
  BY <1>3 DEF Sane, Orderly
<1>6. Ours(tables', w, d) /\ Informed(tables', d)
  BY <1>2, <1>4 DEF Ours, Informed, PastGrant, Commanding
<1>7. Orderly(clock, w, d)
  BY <1>4, <1>5 DEF Orderly, Executing
<1>8. Timed(tables', clock, d)
  BY <1>4, <1>5 DEF Timed, TimedStart, TimedBeat, TimedFailure, TimedStop
<1>9. /\ Sane(timed, tables', clock, w, client'[w])
      /\ client'[w].id \in {c.id} \cup N
  BY <1>3, <1>4, <1>6, <1>7, <1>8 DEF Sane
<1>10. {} \subseteq {c.id} \ {None}
  OBVIOUS
<1>11. QED
  BY <1>3, <1>9, <1>10, ClientSteps

LEMMA PollSane ==
    ASSUME NEW timed \in BOOLEAN, WInv(timed),
           NEW w \in Wrappers, Poll(w)
    PROVE  WInv(timed)'
<1> DEFINE c == client[w]
           r == c.id
<1>0. PICK now \in Now : GetRequest(Owner[w], r, now)
  BY DEF Poll
<1>1. c.phase = "waiting" /\ r \in RequestId
  BY Caller DEF Poll, In, Sane, Informed
<1>2. /\ Spares(tables, tables', clock, {}, {})
      /\ reply'.code = "ok" => r \in Live(tables')
      /\ [Next]_vars /\ clock' = clock
  BY <1>0, <1>1, Caller, GetRequestOutcome, Calling
<1>3. Ours(tables', w, c) /\ Informed(tables', c)
  BY <1>2, OwnCall
<1>4. CASE reply'.code = "ok" /\ AfterState(w, r)
  <2>1. /\ tables'.requests[r].uid = Owner[w]
        /\ tables'.requests[r].reservation = Length(w)
    BY <1>2, <1>3, <1>4 DEF Ours
  <2> DEFINE N == {}
  <2>2. (\A v \in Wrappers : client[v].id \notin N) /\ None \notin N /\ r \in {r} \cup N
    OBVIOUS
  <2>3. Spares(tables, tables', clock, N, {})
    BY <1>2
  <2> HIDE DEF N
  <2>4. QED
    BY <1>1, <1>2, <1>4, <2>1, <2>2, <2>3, AnsweredSane
<1>5. CASE Moves(w, "withdrawing")
  <2> DEFINE d == [c EXCEPT !.phase = "withdrawing"]
  <2>1. /\ client' = [client EXCEPT ![w] = client'[w]] /\ client'[w] = d
        /\ Sane(timed, tables, clock, w, c) /\ c \in ClientState
    BY <1>5, Becoming DEF Moves
  <2>2. d \in ClientState /\ d.id = c.id
    BY <2>1 DEF ClientState
  <2>3. Ours(tables', w, d) /\ Informed(tables', d) /\ Orderly(clock, w, d)
    BY <1>1, <1>3, <2>1, <2>2 DEF Sane, ClientState, Ours, Informed, Orderly, PastGrant,
       Executing, Commanding
  <2>4. Timed(tables', clock, d)
    BY <1>1, <2>1 DEF Sane, ClientState, Orderly, Timed, TimedStart, TimedBeat,
       TimedFailure, TimedStop
  <2>5. client'[w].id = c.id /\ Sane(timed, tables', clock, w, client'[w])
    BY <2>1, <2>2, <2>3, <2>4 DEF Sane
  <2>6. Spares(tables, tables', clock, {}, {r})
    BY <1>2 DEF Spares
  <2> HIDE DEF d
  <2>7. QED
    BY <1>1, <1>2, <2>1, <2>5, <2>6, OwnCallSteps
<1>6. CASE UNCHANGED client
  BY <1>2, <1>6, NobodySteps
<1>7. QED
  BY <1>4, <1>5, <1>6 DEF Poll

\* A client that has no request and ends, whatever the daemon made of its call.
LEMMA NeverAskedSane ==
    ASSUME NEW timed \in BOOLEAN, WInv(timed),
           NEW w \in Wrappers, client[w].phase = "start",
           NEW phase \in {"over", "unsure"}, Moves(w, phase),
           [Next]_vars, clock' = clock, NEW N, Spares(tables, tables', clock, N, {}),
           \A v \in Wrappers : client[v].id \notin N,
           None \notin N
    PROVE  WInv(timed)'
<1> DEFINE c == client[w]
           d == [c EXCEPT !.phase = phase]
<1>1. /\ client' = [client EXCEPT ![w] = client'[w]] /\ client'[w] = d
      /\ Sane(timed, tables, clock, w, c) /\ c \in ClientState
  BY Becoming DEF Moves
<1>2. d \in ClientState /\ d.id = None /\ c.id = None
  BY <1>1 DEF Sane, Informed, ClientState
<1>3. None \notin Live(tables')
  BY NextInv, WrapperAssumption DEF WInv, Inv, TypeOK, TablesOK, IsTable, Live
<1>4. Ours(tables', w, d) /\ Informed(tables', d) /\ Orderly(clock, w, d)
  BY <1>1, <1>2, <1>3 DEF Sane, ClientState, Ours, Informed, Orderly, PastGrant,
     Executing, Commanding
<1>5. Timed(tables', clock, d)
  BY <1>1 DEF Sane, ClientState, Orderly, Timed, TimedStart, TimedBeat,
     TimedFailure, TimedStop
<1>6. client'[w].id \in {c.id} \cup N /\ Sane(timed, tables', clock, w, client'[w])
  BY <1>1, <1>2, <1>4, <1>5 DEF Sane
<1>7. {} \subseteq {c.id} \ {None}
  OBVIOUS
<1> HIDE DEF d
<1>8. QED
  BY <1>1, <1>6, <1>7, ClientSteps

LEMMA AcquireSane ==
    ASSUME NEW timed \in BOOLEAN, WInv(timed),
           NEW w \in Wrappers, Acquire(w)
    PROVE  WInv(timed)'
<1>1. client[w].phase = "start"
  BY DEF Acquire, In
<1>2. ASSUME NEW r \in RequestId, NEW d \in Demands, NEW now \in Now, Unclaimed(r),
             CreateRequest(Owner[w], r, d, Length(w), now),
             \/ reply'.code = "ok" /\ AfterState(w, r)
             \/ Moves(w, "over") \/ Moves(w, "unsure")
      PROVE  WInv(timed)'
  <2>1. Length(w) \in Reservations
    BY WrapperAssumption DEF Length
  <2>2. /\ Spares(tables, tables', clock, {r}, {})
        /\ reply'.code = "ok" =>
              /\ r \in Live(tables')
              /\ tables'.requests[r].uid = Owner[w]
              /\ tables'.requests[r].reservation = Length(w)
    BY <1>2, <2>1, Caller, CreateRequestOutcome
  <2>3. [Next]_vars /\ clock' = clock
    <3>1. Call(Owner[w], now)
      BY <1>2, <2>1 DEF Call
    <3>2. clock' = clock
      BY <1>2 DEF CreateRequest, Quietly, Notifying
    <3>3. QED
      BY <3>1, <3>2, Caller DEF Next
  <2>4. /\ \A v \in Wrappers : client[v].id \notin {r}
        /\ None \notin {r} /\ r \in {client[w].id} \cup {r}
    BY <1>2, WrapperAssumption DEF Unclaimed
  <2>5. CASE reply'.code = "ok" /\ AfterState(w, r)
    BY <1>1, <2>2, <2>3, <2>4, <2>5, AnsweredSane
  <2>6. CASE Moves(w, "over") \/ Moves(w, "unsure")
    BY <1>1, <2>2, <2>3, <2>4, <2>6, NeverAskedSane
  <2>7. QED
    BY <1>2, <2>5, <2>6
<1>3. CASE UNCHANGED vars /\ Moves(w, "unsure")
  <2> DEFINE N == {}
  <2>1. Spares(tables, tables', clock, N, {}) /\ clock' = clock
    BY <1>3, SparesItself DEF vars
  <2>2. (\A v \in Wrappers : client[v].id \notin N) /\ None \notin N
    OBVIOUS
  <2> HIDE DEF N
  <2>3. QED
    BY <1>1, <1>3, <2>1, <2>2, NeverAskedSane
<1>4. QED
  BY <1>2, <1>3 DEF Acquire, NotArrived

-----------------------------------------------------------------------------
(* Renewing a lease. *)

\* A renewal that is answered with "ok" makes the lease of a command last.
LEMMA RenewedLasts ==
    ASSUME NEW timed \in BOOLEAN, WInv(timed),
           NEW w \in Wrappers, w \notin Grabs, client[w].id \in RequestId,
           NEW now \in Now, RenewLease(Owner[w], client[w].id, now), reply'.code = "ok",
           NEW u \in Int, u < now + LeaseTTL
    PROVE  Lasts(tables', client[w], u)
<1> DEFINE r == client[w].id
<1>1. /\ r \in DOMAIN tables.leases /\ r \in DOMAIN tables'.leases
      /\ IF tables.requests[r].reservation = None
         THEN tables'.leases[r].deadline = now + LeaseTTL
         ELSE tables'.leases[r] = tables.leases[r]
  BY Caller, RenewLeaseOutcome
<1>2. r \in Live(tables)
  BY <1>1, Margins DEF Sound, TasksMatchLeases
<1>3. tables.requests[r].reservation = None
  BY <1>2, Caller DEF Sane, Ours, Length
<1>4. QED
  BY <1>1, <1>3 DEF Lasts

\* Whatever the answer, a lease lasts as long as it did, or until the end of a
\* time to live that starts at the reading of the renewal.
LEMMA RenewalLasts ==
    ASSUME NEW timed \in BOOLEAN, WInv(timed),
           NEW w \in Wrappers, w \notin Grabs, client[w].id \in RequestId,
           NEW now \in Now, RenewLease(Owner[w], client[w].id, now),
           NEW u \in Int, u >= clock, u < now + LeaseTTL, Lasts(tables, client[w], u)
    PROVE  Lasts(tables', client[w], u)
<1>1. CASE reply'.code = "ok"
  BY <1>1, RenewedLasts
<1>2. CASE reply'.code # "ok"
  <2>1. Spares(tables, tables', clock, {}, {})
    BY <1>2, Caller, RenewLeaseOutcome
  <2>2. Persists(tables, tables') /\ clock \in Nat /\ Sound(tables)
    BY Calling, StepsPersist, Caller, Margins
  <2> DEFINE S == {}
  <2>3. Spares(tables, tables', clock, {}, S) /\ client[w].id \notin S
    BY <2>1
  <2> HIDE DEF S
  <2>4. QED
    BY <2>2, <2>3, LastsKept
<1>3. QED
  BY <1>1, <1>2

\* So a renewal disturbs no client whose command runs already, however late it
\* takes effect and whether or not its answer gets through.
LEMMA RenewalTimed ==
    ASSUME NEW timed \in BOOLEAN, timed, WInv(timed), MarginCovers,
           NEW w \in Wrappers, w \notin Grabs,
           client[w].id \in RequestId, client[w].beat # "starting",
           client[w].phase # "confirmed",
           NEW now \in Now, RenewLease(Owner[w], client[w].id, now)
    PROVE  Timed(tables', clock, client[w])
<1> DEFINE c == client[w]
<1>0. /\ LeaseTTL \in Nat /\ Margin \in Nat /\ KillAfter \in Nat /\ MaxStall \in Nat
      /\ Margin < LeaseTTL /\ clock \in Nat
  BY Margins
<1>1. now \in Nat /\ now <= clock /\ clock - now <= MaxStall
  BY Readings, Caller
<1>2. Timed(tables, clock, c)
  BY Caller DEF Sane
<1>3. \A u \in Int : u >= clock /\ u < now + LeaseTTL /\ Lasts(tables, c, u)
          => Lasts(tables', c, u)
  BY RenewalLasts
<1>4. TimedStart(tables', clock, c)
  BY DEF TimedStart
<1>5. TimedBeat(tables', clock, c)
  <2> SUFFICES ASSUME c.beat = "healthy"
               PROVE  TimedBeat(tables', clock, c)
    BY DEF TimedBeat
  <2>1. /\ c.safeUntil \in Nat /\ clock <= c.safeUntil
        /\ c.safeUntil + Margin <= clock + LeaseTTL
        /\ Lasts(tables, c, c.safeUntil + KillAfter)
    BY <1>2 DEF Timed, TimedBeat
  <2>2. /\ c.safeUntil + KillAfter \in Int /\ c.safeUntil + KillAfter >= clock
        /\ c.safeUntil + KillAfter < now + LeaseTTL
    BY <1>0, <1>1, <2>1 DEF MarginCovers
  <2>3. QED
    BY <1>3, <2>1, <2>2 DEF TimedBeat
<1>6. TimedFailure(tables', clock, c)
  <2>1. /\ clock + KillAfter \in Int /\ clock + KillAfter >= clock
        /\ clock + KillAfter < now + LeaseTTL
    BY <1>0, <1>1 DEF MarginCovers
  <2>2. QED
    BY <1>2, <1>3, <2>1 DEF Timed, TimedFailure
<1>7. TimedStop(tables', clock, c)
  <2> SUFFICES ASSUME c.phase = "stopping", "leader" \in c.alive
               PROVE  TimedStop(tables', clock, c)
    BY DEF TimedStop
  <2>1. /\ c.killAt \in Nat /\ clock <= c.killAt /\ c.killAt <= clock + KillAfter
        /\ Lasts(tables, c, c.killAt)
    BY <1>2 DEF Timed, TimedStop
  <2>2. c.killAt \in Int /\ c.killAt >= clock /\ c.killAt < now + LeaseTTL
    BY <1>0, <1>1, <2>1 DEF MarginCovers
  <2>3. QED
    BY <1>3, <2>1, <2>2 DEF TimedStop
<1>8. QED
  BY <1>4, <1>5, <1>6, <1>7 DEF Timed

\* The renewal before the command starts was answered.
LEMMA ConfirmedSane ==
    ASSUME NEW timed \in BOOLEAN, WInv(timed),
           NEW w \in Wrappers, client[w].phase = "granted", w \notin Grabs,
           NEW now \in Now, RenewLease(Owner[w], client[w].id, now), reply'.code = "ok",
           clock - now <= StartStall,
           Becomes(w, [client[w] EXCEPT !.phase = "confirmed", !.heard = now])
    PROVE  WInv(timed)'
<1> DEFINE c == client[w]
           d == [c EXCEPT !.phase = "confirmed", !.heard = now]
<1>1. /\ client' = [client EXCEPT ![w] = client'[w]] /\ client'[w] = d
      /\ Sane(timed, tables, clock, w, c) /\ c \in ClientState /\ c.id \in RequestId
  BY Becoming DEF Sane, Informed, PastGrant
<1>2. now \in Nat /\ now <= clock /\ clock \in Nat
  BY Readings, Caller
<1>3. /\ d \in ClientState /\ d.id = c.id /\ d.phase = "confirmed" /\ d.heard = now
      /\ d.cards = c.cards /\ d.alive = c.alive /\ d.beat = c.beat /\ d.late = c.late
  BY <1>1, <1>2 DEF ClientState
<1> HIDE DEF d
<1>4. /\ Spares(tables, tables', clock, {}, {c.id}) /\ [Next]_vars /\ clock' = clock
  BY <1>1, Caller, RenewLeaseOutcome, Calling
<1>5. Ours(tables', w, c) /\ Informed(tables', c)
  BY <1>4, OwnCall
<1>6. /\ c.beat \notin {"starting", "healthy"} /\ "leader" \notin c.alive /\ c.late = None
  BY <1>1 DEF Sane, Orderly
<1>7. Ours(tables', w, d) /\ Informed(tables', d)
  BY <1>3, <1>5 DEF Ours, Informed, PastGrant, Commanding
<1>8. Orderly(clock, w, d)
  BY <1>3, <1>6 DEF Orderly, Executing
<1>9. Timed(tables', clock, d)
  <2>1. now + LeaseTTL - 1 \in Int /\ now + LeaseTTL - 1 < now + LeaseTTL
    BY <1>2, Margins
  <2>2. Lasts(tables', c, now + LeaseTTL - 1)
    BY <1>1, <2>1, RenewedLasts
  <2>3. TimedStart(tables', clock, d)
    BY <1>2, <1>3, <2>2, Margins DEF TimedStart, Lasts
  <2>4. QED
    BY <1>3, <1>6, <2>3 DEF Timed, TimedBeat, TimedFailure, TimedStop
<1>10. client'[w].id = c.id /\ Sane(timed, tables', clock, w, client'[w])
  BY <1>1, <1>3, <1>7, <1>8, <1>9 DEF Sane
<1>11. QED
  BY <1>1, <1>4, <1>10, OwnCallSteps

\* It failed, or nobody knows.
LEMMA UnconfirmedSane ==
    ASSUME NEW timed \in BOOLEAN, WInv(timed),
           NEW w \in Wrappers, client[w].phase = "granted", w \notin Grabs,
           Moves(w, "ending"), [Next]_vars, clock' = clock,
           Spares(tables, tables', clock, {}, {client[w].id})
    PROVE  WInv(timed)'
<1> DEFINE c == client[w]
           d == [c EXCEPT !.phase = "ending"]
<1>1. /\ client' = [client EXCEPT ![w] = client'[w]] /\ client'[w] = d
      /\ Sane(timed, tables, clock, w, c) /\ c \in ClientState /\ c.id \in RequestId
  BY Becoming DEF Moves, Sane, Informed, PastGrant
<1>2. d \in ClientState /\ d.id = c.id
  BY <1>1 DEF ClientState
<1>3. Ours(tables', w, c) /\ Informed(tables', c)
  BY OwnCall
<1>4. Ours(tables', w, d) /\ Informed(tables', d) /\ Orderly(clock, w, d)
  BY <1>1, <1>2, <1>3 DEF Sane, ClientState, Ours, Informed, Orderly, PastGrant,
     Executing, Commanding
<1>5. Timed(tables', clock, d)
  BY <1>1 DEF Sane, ClientState, Orderly, Timed, TimedStart, TimedBeat,
     TimedFailure, TimedStop
<1>6. client'[w].id = c.id /\ Sane(timed, tables', clock, w, client'[w])
  BY <1>1, <1>2, <1>4, <1>5 DEF Sane
<1> HIDE DEF d
<1>7. QED
  BY <1>1, <1>6, OwnCallSteps

LEMMA ConfirmSane ==
    ASSUME NEW timed \in BOOLEAN, WInv(timed),
           NEW w \in Wrappers, Confirm(w)
    PROVE  WInv(timed)'
<1> DEFINE r == client[w].id
<1>1. client[w].phase = "granted" /\ w \notin Grabs /\ r \in RequestId
  BY Caller DEF Confirm, In, Sane, Informed, PastGrant
<1>2. ASSUME NEW now \in Now, RenewLease(Owner[w], r, now), Moves(w, "ending")
      PROVE  WInv(timed)'
  <2>1. Spares(tables, tables', clock, {}, {r}) /\ [Next]_vars /\ clock' = clock
    BY <1>1, <1>2, Caller, RenewLeaseOutcome, Calling
  <2>2. QED
    BY <1>1, <1>2, <2>1, UnconfirmedSane
<1>3. CASE UNCHANGED vars /\ Moves(w, "ending")
  <2>1. Spares(tables, tables', clock, {}, {r}) /\ clock' = clock
    BY <1>3, SparesItself DEF vars
  <2>2. QED
    BY <1>1, <1>3, <2>1, UnconfirmedSane
<1>4. QED
  BY <1>1, <1>2, <1>3, ConfirmedSane DEF Confirm, NotArrived

-----------------------------------------------------------------------------
(* The heartbeat. *)

\* A renewal by a client whose command runs already: d differs from its state only
\* in what the heartbeat and the delayed renewal are.
LEMMA BeatSane ==
    ASSUME NEW timed \in BOOLEAN, WInv(timed),
           NEW w \in Wrappers, client[w].id \in RequestId,
           NEW now \in Now, RenewLease(Owner[w], client[w].id, now),
           NEW d \in ClientState, Becomes(w, d),
           d.id = client[w].id, d.phase = client[w].phase, d.cards = client[w].cards,
           d.alive = client[w].alive,
           Orderly(clock, w, d), timed /\ MarginCovers => Timed(tables', clock, d)
    PROVE  WInv(timed)'
<1> DEFINE c == client[w]
<1>1. /\ client' = [client EXCEPT ![w] = client'[w]] /\ client'[w] = d
  BY Becoming
<1>2. Spares(tables, tables', clock, {}, {c.id}) /\ [Next]_vars /\ clock' = clock
  BY Caller, RenewLeaseOutcome, Calling
<1>3. Ours(tables', w, c) /\ Informed(tables', c)
  BY <1>2, OwnCall
<1>4. Ours(tables', w, d) /\ Informed(tables', d)
  BY <1>3 DEF Ours, Informed
<1>5. client'[w].id = c.id /\ Sane(timed, tables', clock, w, client'[w])
  BY <1>1, <1>4 DEF Sane
<1>6. QED
  BY <1>1, <1>2, <1>5, OwnCallSteps

LEMMA HeartbeatSane ==
    ASSUME NEW timed \in BOOLEAN, WInv(timed),
           NEW w \in Wrappers, Heartbeat(w)
    PROVE  WInv(timed)'
<1> DEFINE c == client[w]
           r == c.id
<1>1. /\ c.beat = "healthy" /\ c.phase = "running" /\ r \in RequestId /\ w \notin Grabs
      /\ clock < c.safeUntil /\ c \in ClientState /\ Sane(timed, tables, clock, w, c)
      /\ clock \in Now /\ clock \in Nat
  BY Caller, Readings DEF Heartbeat, Sane, Orderly, Informed, PastGrant, Executing
<1>2. ASSUME NEW now \in Now, c.safeUntil <= SafeUntil(now),
             RenewLease(Owner[w], r, now), reply'.code = "ok",
             Becomes(w, [c EXCEPT !.safeUntil = SafeUntil(now)])
      PROVE  WInv(timed)'
  <2> DEFINE until == SafeUntil(now)
             d == [c EXCEPT !.safeUntil = until]
  <2>0. now \in Nat /\ now <= clock /\ c.safeUntil <= until
    BY <1>2, Readings, Caller
  <2>1. /\ until \in Nat /\ until + Margin = now + LeaseTTL
        /\ MarginCovers => until + KillAfter < now + LeaseTTL
    BY <2>0, Margins DEF MarginCovers, SafeUntil
  <2>2. Becomes(w, d)
    BY <1>2
  <2> HIDE DEF until
  <2>3. /\ d \in ClientState /\ d.id = c.id /\ d.phase = c.phase /\ d.cards = c.cards
        /\ d.alive = c.alive /\ d.beat = c.beat /\ d.late = c.late /\ d.safeUntil = until
    BY <1>1, <2>1 DEF ClientState
  <2> HIDE DEF d
  <2>4. Orderly(clock, w, d)
    BY <1>1, <2>3 DEF Sane, Orderly
  <2>5. ASSUME timed, MarginCovers
        PROVE  Timed(tables', clock, d)
    <3>0. c.safeUntil \in Nat /\ clock <= until
      <4>1. c.safeUntil \in Nat
        BY <1>1, <2>5 DEF Sane, Timed, TimedBeat
      <4>2. QED
        BY <1>1, <2>0, <2>1, <4>1
    <3>1. until + KillAfter \in Int /\ until + KillAfter < now + LeaseTTL
      <4>1. MarginCovers
        BY <2>5
      <4>2. QED
        BY <2>1, <4>1, Margins
    <3>2. Lasts(tables', c, until + KillAfter)
      BY <1>1, <1>2, <3>1, RenewedLasts
    <3>3. TimedBeat(tables', clock, d)
      BY <2>0, <2>1, <2>3, <3>0, <3>2, Margins DEF TimedBeat, Lasts
    <3>4. QED
      BY <1>1, <2>3, <3>3 DEF Timed, TimedStart, TimedFailure, TimedStop
  <2>6. QED
    BY <1>1, <1>2, <2>2, <2>3, <2>4, <2>5, BeatSane
<1>3. ASSUME NEW now \in Now, RenewLease(Owner[w], r, now), reply'.code # "ok",
             Becomes(w, [c EXCEPT !.beat = reply'.code])
      PROVE  WInv(timed)'
  <2>1. PICK code \in {"not_found", "forbidden", "task_canceled"} : code = reply'.code
    BY <1>1, <1>3, Caller, RenewLeaseOutcome
  <2> DEFINE d == [c EXCEPT !.beat = code]
  <2>2. Becomes(w, d)
    BY <1>3, <2>1
  <2>3. /\ d \in ClientState /\ d.id = c.id /\ d.phase = c.phase /\ d.cards = c.cards
        /\ d.alive = c.alive /\ d.beat = code /\ d.late = c.late
    BY <1>1, <2>1 DEF ClientState
  <2> HIDE DEF d
  <2>4. Orderly(clock, w, d)
    BY <1>1, <2>3 DEF Sane, Orderly
  <2>5. ASSUME timed, MarginCovers
        PROVE  Timed(tables', clock, d)
    <3>1. /\ c.safeUntil \in Nat /\ clock <= c.safeUntil
          /\ Lasts(tables, c, c.safeUntil + KillAfter)
      BY <1>1, <2>5 DEF Sane, Timed, TimedBeat
    <3>2. /\ clock + KillAfter \in Int /\ clock + KillAfter <= c.safeUntil + KillAfter
          /\ c.safeUntil + KillAfter \in Int /\ clock + KillAfter >= clock
          /\ clock + KillAfter < now + LeaseTTL
      <4>1. MarginCovers
        BY <2>5
      <4>2. now \in Nat /\ clock - now <= MaxStall
        BY Readings, Caller
      <4>3. QED
        BY <3>1, <4>1, <4>2, Margins DEF MarginCovers
    <3>3. Lasts(tables, c, clock + KillAfter)
      BY <3>1, <3>2, LastsLess, Margins
    <3>4. Lasts(tables', c, clock + KillAfter)
      BY <1>1, <1>3, <3>2, <3>3, RenewalLasts
    <3>5. TimedFailure(tables', clock, d)
      BY <2>3, <3>4 DEF TimedFailure, Lasts
    <3>6. QED
      BY <1>1, <2>3, <3>5 DEF Timed, TimedStart, TimedBeat, TimedStop
  <2>6. QED
    BY <1>1, <1>3, <2>2, <2>3, <2>4, <2>5, BeatSane
<1>4. ASSUME NEW now \in Now, RenewLease(Owner[w], r, now), UNCHANGED client
      PROVE  WInv(timed)'
  <2>1. Becomes(w, c)
    BY <1>4 DEF WInv, Becomes
  <2>2. timed /\ MarginCovers => Timed(tables', clock, c)
    BY <1>1, <1>4, RenewalTimed
  <2>3. QED
    BY <1>1, <1>4, <2>1, <2>2, BeatSane DEF Sane
<1>5. CASE UNCHANGED vars /\ Becomes(w, [c EXCEPT !.late = clock])
  <2> DEFINE d == [c EXCEPT !.late = clock]
  <2>1. /\ client' = [client EXCEPT ![w] = client'[w]] /\ client'[w] = d
    BY <1>5, Becoming
  <2>2. d \in ClientState /\ d.id = c.id
    BY <1>1 DEF ClientState
  <2>3. Ours(tables, w, d) /\ Informed(tables, d) /\ Orderly(clock, w, d)
    BY <1>1, <2>2 DEF Sane, ClientState, Ours, Informed, Orderly, PastGrant,
       Executing, Commanding
  <2>4. timed /\ MarginCovers => Timed(tables, clock, d)
    BY <1>1 DEF Sane, ClientState, Lasts, Timed, TimedStart, TimedBeat,
       TimedFailure, TimedStop
  <2>5. QED
    BY <1>5, <2>1, <2>2, <2>3, <2>4, ClientAlone DEF Sane
<1>6. QED
  BY <1>2, <1>3, <1>4, <1>5 DEF Heartbeat, NotArrived

\* A renewal takes effect whose client has long stopped waiting for it.
LEMMA LateRenewalSane ==
    ASSUME NEW timed \in BOOLEAN, WInv(timed),
           NEW w \in Wrappers, LateRenewal(w)
    PROVE  WInv(timed)'
<1> DEFINE c == client[w]
           now == c.late
           d == [c EXCEPT !.late = None]
<1>1. /\ now \in Now /\ RenewLease(Owner[w], c.id, now) /\ Becomes(w, d)
      /\ c.id \in RequestId /\ c.beat # "starting" /\ c.phase # "confirmed"
      /\ c \in ClientState /\ Sane(timed, tables, clock, w, c)
  <2>1. /\ c.late # None /\ clock - c.late <= MaxStall /\ Becomes(w, d)
        /\ RenewLease(Owner[w], c.id, now)
    BY DEF LateRenewal
  <2>2. Sane(timed, tables, clock, w, c) /\ c \in ClientState /\ clock \in Nat
    BY Caller, Margins
  <2>3. /\ c.id \in RequestId /\ c.beat # "starting" /\ c.late <= clock
        /\ c.phase # "confirmed"
    BY <2>1, <2>2 DEF Sane, Orderly
  <2>4. c.late \in Nat
    BY <2>1, <2>2 DEF ClientState
  <2>5. QED
    BY <2>1, <2>2, <2>3, <2>4 DEF Now
<1>2. /\ d \in ClientState /\ d.id = c.id /\ d.phase = c.phase /\ d.cards = c.cards
      /\ d.alive = c.alive /\ d.beat = c.beat /\ d.late = None
      /\ d.heard = c.heard /\ d.safeUntil = c.safeUntil /\ d.killAt = c.killAt
  BY <1>1 DEF ClientState
<1> HIDE DEF d
<1>3. Orderly(clock, w, d)
  BY <1>1, <1>2 DEF Sane, Orderly
<1>4. ASSUME timed, MarginCovers
      PROVE  Timed(tables', clock, d)
  <2>1. CASE w \notin Grabs
    <3>1. Timed(tables', clock, c)
      BY <1>1, <1>4, <2>1, RenewalTimed
    <3>2. QED
      BY <1>2, <3>1 DEF Timed, TimedStart, TimedBeat, TimedFailure, TimedStop, Lasts
  <2>2. CASE w \in Grabs
    BY <1>1, <1>2, <2>2 DEF Sane, Orderly, Executing, Timed, TimedStart, TimedBeat,
       TimedFailure, TimedStop
  <2>3. QED
    BY <2>1, <2>2
<1>5. QED
  BY <1>1, <1>2, <1>3, <1>4, BeatSane

LEMMA StartCommandSane ==
    ASSUME NEW timed \in BOOLEAN, WInv(timed),
           NEW w \in Wrappers, StartCommand(w)
    PROVE  WInv(timed)'
<1> DEFINE c == client[w]
           run == [c EXCEPT !.phase = "running", !.alive = Family, !.beat = "starting"]
           fail == [c EXCEPT !.phase = "ending", !.heard = None]
<1>1. c.phase = "confirmed" /\ UNCHANGED vars /\ (Becomes(w, run) \/ Becomes(w, fail))
  BY DEF StartCommand, In
<1>2. c \in ClientState /\ Sane(timed, tables, clock, w, c)
  BY Caller
<1>3. CASE Becomes(w, run)
  <2>1. /\ client' = [client EXCEPT ![w] = client'[w]] /\ client'[w] = run
    BY <1>3, Becoming
  <2>2. run \in ClientState /\ run.id = c.id
    BY <1>2 DEF ClientState
  <2>3. Ours(tables, w, run) /\ Informed(tables, run) /\ Orderly(clock, w, run)
    BY <1>1, <1>2, <2>2 DEF Sane, ClientState, Ours, Informed, Orderly, PastGrant,
       Executing, Commanding
  <2>4. timed /\ MarginCovers => Timed(tables, clock, run)
    BY <1>1, <1>2 DEF Sane, ClientState, Lasts, Timed, TimedStart, TimedBeat,
       TimedFailure, TimedStop
  <2>5. QED
    BY <1>1, <2>1, <2>2, <2>3, <2>4, ClientAlone DEF Sane
<1>4. CASE Becomes(w, fail)
  <2>1. /\ client' = [client EXCEPT ![w] = client'[w]] /\ client'[w] = fail
    BY <1>4, Becoming
  <2>2. fail \in ClientState /\ fail.id = c.id
    BY <1>2 DEF ClientState
  <2>3. Ours(tables, w, fail) /\ Informed(tables, fail) /\ Orderly(clock, w, fail)
    BY <1>1, <1>2, <2>2 DEF Sane, ClientState, Ours, Informed, Orderly, PastGrant,
       Executing, Commanding
  <2>4. Timed(tables, clock, fail)
    BY <1>1, <1>2 DEF Sane, ClientState, Orderly, Timed, TimedStart, TimedBeat,
       TimedFailure, TimedStop
  <2>5. QED
    BY <1>1, <2>1, <2>2, <2>3, <2>4, ClientAlone DEF Sane
<1>5. QED
  BY <1>1, <1>3, <1>4

-----------------------------------------------------------------------------
(* The others, and time. *)

\* Canceling a task leaves the lease of a command, whose client has to end it.
LEMMA CancelSane ==
    ASSUME NEW timed \in BOOLEAN, WInv(timed), Cancel PROVE WInv(timed)'
<1>1. PICK u \in Uid, w \in Wrappers, now \in Now :
          client[w].id # None /\ CancelTask(u, client[w].id, now)
  BY DEF Cancel
<1> DEFINE c == client[w]
           r == c.id
<1>2. /\ UNCHANGED client /\ r \in RequestId
      /\ Sane(timed, tables, clock, w, c) /\ c \in ClientState
  BY <1>1, Caller DEF Cancel
<1>3. /\ Spares(tables, tables', clock, {}, {r}) /\ [Next]_vars /\ clock' = clock
      /\ r \in DOMAIN tables.leases /\ tables.requests[r].reservation = None
            => Spares(tables, tables', clock, {}, {})
  BY <1>1, <1>2, Caller, CancelTaskOutcome, Calling
<1>4. CASE r \in DOMAIN tables.leases /\ tables.requests[r].reservation = None
  BY <1>2, <1>3, <1>4, NobodySteps
<1>5. CASE ~(r \in DOMAIN tables.leases /\ tables.requests[r].reservation = None)
  <2>1. Ours(tables', w, c) /\ Informed(tables', c)
    BY <1>3, OwnCall
  <2>2. w \in Grabs \/ r \notin DOMAIN tables.leases
    BY <1>2, <1>5, Margins DEF Sound, TasksMatchLeases, Sane, Ours, Length
  <2>3. timed /\ MarginCovers => Timed(tables', clock, c)
    BY <1>2, <2>2 DEF Sane, Orderly, Executing, Lasts, Timed, TimedStart, TimedBeat,
       TimedFailure, TimedStop
  <2>4. client' = [client EXCEPT ![w] = client'[w]] /\ client'[w] = c
    BY <1>2 DEF WInv
  <2>5. Sane(timed, tables', clock, w, client'[w]) /\ client'[w].id = r
    BY <1>2, <2>1, <2>3, <2>4 DEF Sane
  <2>6. QED
    BY <1>2, <1>3, <2>4, <2>5, OwnCallSteps
<1>6. QED
  BY <1>4, <1>5

\* The clock passes nobody by whose turn it is.
LEMMA TimeSane ==
    ASSUME NEW timed \in BOOLEAN, WInv(timed), Time PROVE WInv(timed)'
<1>1. /\ tables' = tables /\ clock' = clock + 1 /\ client' = client /\ clock \in Nat
      /\ \A w \in Wrappers : ~Due(w)
  BY Margins DEF Time, Tick
<1>2. Inv'
  BY NextInv DEF WInv, Time, Next
<1>3. ASSUME NEW w \in Wrappers
      PROVE  Sane(timed, tables, clock + 1, w, client[w])
  <2> DEFINE c == client[w]
  <2>1. Sane(timed, tables, clock, w, c) /\ c \in ClientState /\ ~Due(w)
    BY <1>1, Caller
  <2>2. Orderly(clock + 1, w, c)
    <3>1. c.late # None => c.late \in Nat
      BY <2>1 DEF ClientState
    <3>2. QED
      BY <1>1, <2>1, <3>1 DEF Sane, Orderly
  <2>3. ASSUME timed, MarginCovers
        PROVE  Timed(tables, clock + 1, c)
    <3>1. Timed(tables, clock, c)
      BY <2>1, <2>3 DEF Sane
    <3>2. TimedStart(tables, clock + 1, c)
      BY <1>1, <2>1, <3>1, Margins DEF Timed, TimedStart, Due
    <3>3. TimedBeat(tables, clock + 1, c)
      BY <1>1, <2>1, <3>1, Margins DEF Timed, TimedBeat, Due
    <3>4. TimedFailure(tables, clock + 1, c)
      BY <2>1 DEF TimedFailure, Due, In, Sane, Orderly
    <3>5. TimedStop(tables, clock + 1, c)
      BY <1>1, <2>1, <3>1, Margins DEF Timed, TimedStop, Due, In, Leads
    <3>6. QED
      BY <3>2, <3>3, <3>4, <3>5 DEF Timed
  <2>4. QED
    BY <2>1, <2>2, <2>3 DEF Sane
<1>4. QED
  BY <1>1, <1>2, <1>3 DEF WInv, Distinct

-----------------------------------------------------------------------------
(* The theorems. *)

LEMMA InitWInv ==
    ASSUME NEW timed \in BOOLEAN, WInit PROVE WInv(timed)
<1>1. Inv
  BY InitInv DEF WInit
<1>2. \A w \in Wrappers : client[w] = NewClient
  BY DEF WInit
<1>3. NewClient \in ClientState
  BY DEF NewClient, ClientState
<1>4. Live(tables) = {}
  BY DEF WInit, Init, Live
<1>5. \A w \in Wrappers : Sane(timed, tables, clock, w, NewClient)
  BY <1>3, <1>4 DEF Sane, NewClient, Ours, Informed, Orderly, PastGrant, Commanding,
     Executing, Timed, TimedStart, TimedBeat, TimedFailure, TimedStop
<1>6. QED
  BY <1>1, <1>2, <1>5 DEF WInv, Distinct, WInit, NewClient

LEMMA WrapperStepSane ==
    ASSUME NEW timed \in BOOLEAN, WInv(timed),
           NEW w \in Wrappers, WrapperStep(w) \/ LateRenewal(w) \/ Crash(w)
    PROVE  WInv(timed)'
BY AcquireSane, PollSane, GiveUpSane, WithdrawSane, InterruptedEarlySane, UndoSane,
   ReportSane, ConfirmSane, StartCommandSane, HeartbeatStartsSane, HeartbeatSane,
   HeartbeatExpiresSane, LateRenewalSane, ExitsSane, TerminateSane, KillSane,
   CommandGoneSane, ReleaseSane, CrashSane
   DEF WrapperStep, MainThread, HeartbeatThread

LEMMA NextWInv ==
    ASSUME NEW timed \in BOOLEAN, WInv(timed), [WNext]_wvars
    PROVE  WInv(timed)'
<1>1. CASE \E w \in Wrappers : WrapperStep(w) \/ LateRenewal(w) \/ Crash(w)
  BY <1>1, WrapperStepSane
<1>2. CASE Cancel
  BY <1>2, CancelSane
<1>3. CASE Reaper /\ UNCHANGED client
  <2>1. Inv /\ [Next]_vars /\ clock' = clock
    BY <1>3 DEF WInv, Next, Reaper
  <2>2. QED
    BY <1>3, <2>1, QuietSpares, NobodySteps
<1>4. CASE Time
  BY <1>4, TimeSane
<1>5. CASE UNCHANGED wvars
  <2>1. UNCHANGED client /\ UNCHANGED vars
    BY <1>5 DEF wvars
  <2>2. tables' = tables /\ clock' = clock /\ [Next]_vars /\ Inv
    BY <2>1 DEF vars, WInv
  <2>3. QED
    BY <2>1, <2>2, QuietSpares, NobodySteps
<1>6. QED
  BY <1>1, <1>2, <1>3, <1>4, <1>5 DEF WNext

\* In the clients' own specification nothing is restarted: WInv(TRUE) holds.
LEMMA WInvariant == WSpec => []WInv(TRUE)
<1>1. WInit => WInv(TRUE)
  BY InitWInv
<1>2. WInv(TRUE) /\ [WNext]_wvars => WInv(TRUE)'
  BY NextWInv
<1>3. QED
  BY <1>1, <1>2, PTL DEF WSpec

\* What the invariant says of all clients.
LEMMA ClientsKnow ==
    ASSUME NEW timed \in BOOLEAN, WInv(timed)
    PROVE  ClientTypeOK /\ NothingLeftBehind
<1>1. ClientTypeOK
  BY DEF WInv, Sane, ClientState, ClientTypeOK
<1>2. ASSUME NEW w \in Wrappers, In(w, "over")
      PROVE  client[w].id \notin Live(tables) \cup DOMAIN tables.leases
  <2>1. client[w].id \notin Live(tables)
    BY <1>2, Caller DEF In, Sane, Informed
  <2>2. QED
    BY <2>1, Margins DEF Sound, TasksMatchLeases
<1>3. QED
  BY <1>1, <1>2 DEF NothingLeftBehind

\* The clients' part of the state is typed.
THEOREM ClientsTyped == WSpec => []ClientTypeOK
<1>1. WInv(TRUE) => ClientTypeOK
  BY ClientsKnow
<1>2. QED
  BY <1>1, WInvariant, PTL

\* A client that knows how its last call ended has neither a ticket nor a lease in
\* the daemon, whatever calls were lost before, whoever canceled its task, and
\* whenever it was granted cards meanwhile.
THEOREM NobodyLeavesBehind == WSpec => []NothingLeftBehind
<1>1. WInv(TRUE) => NothingLeftBehind
  BY ClientsKnow
<1>2. QED
  BY <1>1, WInvariant, PTL

\* What the invariant says of a command that runs, if the margin covers the time it
\* may take to die.
LEMMA HeldByInvariant ==
    ASSUME MarginCovers, WInv(TRUE)
    PROVE  HeldWhileRunning
<1> SUFFICES ASSUME NEW w \in Wrappers, Attached(w), Leads(w)
             PROVE  Holds(w)
  BY DEF HeldWhileRunning
<1>1. Sane(TRUE, tables, clock, w, client[w])
  BY Caller
<1>2. \/ client[w].phase = "running" /\ client[w].beat # "off"
      \/ client[w].phase = "stopping"
  BY <1>1 DEF Attached, Leads, Sane, Orderly
<1>3. client[w].id \in DOMAIN tables.leases
  BY <1>1, <1>2 DEF Leads, Sane, Timed, TimedStart, TimedBeat, TimedFailure, TimedStop,
     Lasts
<1>4. QED
  BY <1>1, <1>2, <1>3 DEF Sane, Informed, Commanding, Holds

\* While the command of a wrapper runs the daemon has its cards leased to it, if
\* the margin of the heartbeat covers the time the command may take to die: with
\* lost, unanswered and delayed renewals, and whoever cancels.
THEOREM CommandsKeepCards == MarginCovers /\ WSpec => []HeldWhileRunning
<1>1. SUFFICES ASSUME MarginCovers
               PROVE  WSpec => []HeldWhileRunning
  OBVIOUS
<1>2. WInv(TRUE) => HeldWhileRunning
  BY <1>1, HeldByInvariant
<1>3. QED
  BY <1>2, WInvariant, PTL DEF WSpec

\* README.md:436-438 is right of a canceled command too if the margin covers the time
\* it may take to die: it has its cards until it has stopped.
THEOREM CanceledKeepCards == MarginCovers /\ WSpec => []CanceledHolds
<1>1. HeldWhileRunning => CanceledHolds
  BY DEF HeldWhileRunning, CanceledHolds, In, Attached
<1>2. QED
  BY <1>1, CommandsKeepCards, PTL

\* No card is used by two commands at a time.
CommandsApart ==
    \A v, w \in Wrappers :
        Attached(v) /\ Leads(v) /\ Attached(w) /\ Leads(w) /\ v # w =>
            client[v].cards \cap client[w].cards = {}

\* What the whole is for: the commands of any number of wrappers that run at the
\* same time are on different cards.
THEOREM CommandsDoNotMeet == MarginCovers /\ WSpec => []CommandsApart
<1>1. SUFFICES ASSUME MarginCovers
               PROVE  WSpec => []CommandsApart
  OBVIOUS
<1>2. WInv(TRUE) => CommandsApart
  <2> SUFFICES ASSUME WInv(TRUE), NEW v \in Wrappers, NEW w \in Wrappers, v # w,
                      Attached(v), Leads(v), Attached(w), Leads(w)
               PROVE  client[v].cards \cap client[w].cards = {}
    BY DEF CommandsApart
  <2>1. Holds(v) /\ Holds(w)
    BY <1>1, HeldByInvariant DEF HeldWhileRunning
  <2>2. client[v].id # client[w].id
    <3>1. client[v].id \in RequestId
      BY <2>1, Margins DEF Holds, Sound, TablesOK, IsTable
    <3>2. QED
      BY <3>1, WrapperAssumption DEF WInv, Distinct
  <2>3. QED
    BY <2>1, <2>2, Margins, CardsApart DEF Holds
<1>3. QED
  BY <1>2, WInvariant, PTL DEF WSpec

-----------------------------------------------------------------------------
(* The installer.                                                            *)

\* A step that gives no client another request, and one that admits no task.
KeepsIds == \A v \in Wrappers : client'[v].id = client[v].id
AdmitsNone == Live(tables') \subseteq Live(tables)

LEMMA MoveKeeps ==
    ASSUME NEW timed \in BOOLEAN, WInv(timed),
           NEW w \in Wrappers, NEW phase, Moves(w, phase)
    PROVE  KeepsIds
<1>1. client[w] \in ClientState /\ client = [v \in Wrappers |-> client[v]]
  BY Caller DEF WInv
<1>2. QED
  BY <1>1 DEF Moves, Becomes, ClientState, KeepsIds

LEMMA CallAdmitsNone ==
    ASSUME Inv, NEW u \in Uid, NEW r \in RequestId, NEW now \in Now,
           \/ GetRequest(u, r, now) \/ CancelRequest(u, r, now) \/ CancelTask(u, r, now)
           \/ RenewLease(u, r, now) \/ ReleaseLease(u, r, now)
    PROVE  AdmitsNone
BY GetRequestOutcome, CancelRequestOutcome, CancelTaskOutcome, RenewLeaseOutcome,
   ReleaseLeaseOutcome DEF Spares, AdmitsNone

\* What a client does on its own admits nobody and leaves the requests as they are.
LEMMA AloneKeeps ==
    ASSUME NEW timed \in BOOLEAN, WInv(timed), NEW w \in Wrappers,
           \/ GiveUp(w) \/ InterruptedEarly(w) \/ Report(w) \/ StartCommand(w)
           \/ HeartbeatStarts(w) \/ HeartbeatExpires(w) \/ Terminate(w) \/ Kill(w)
           \/ CommandGone(w) \/ Crash(w) \/ \E p \in Family : Exits(w, p)
    PROVE  KeepsIds /\ AdmitsNone
<1> DEFINE c == client[w]
<1>1. DOMAIN client = Wrappers /\ "id" \in DOMAIN c
  BY Caller DEF WInv, ClientState
<1>2. AdmitsNone
  BY DEF GiveUp, InterruptedEarly, Report, StartCommand, HeartbeatStarts,
     HeartbeatExpires, Terminate, Kill, CommandGone, Crash, Exits, vars, AdmitsNone
<1>3. KeepsIds
  <2>1. CASE GiveUp(w) \/ InterruptedEarly(w) \/ Report(w)
    BY <1>1, <2>1 DEF GiveUp, InterruptedEarly, Report, Moves, Becomes, KeepsIds
  <2>2. CASE StartCommand(w)
    <3>1. CASE Becomes(w, [c EXCEPT !.phase = "running", !.alive = Family,
                                    !.beat = "starting"])
      BY <1>1, <3>1 DEF Becomes, KeepsIds
    <3>2. CASE Becomes(w, [c EXCEPT !.phase = "ending", !.heard = None])
      BY <1>1, <3>2 DEF Becomes, KeepsIds
    <3>3. QED
      BY <2>2, <3>1, <3>2 DEF StartCommand
  <2>3. CASE HeartbeatStarts(w) \/ HeartbeatExpires(w)
    <3>1. CASE HeartbeatStarts(w)
      BY <1>1, <3>1 DEF HeartbeatStarts, Becomes, KeepsIds
    <3>2. CASE HeartbeatExpires(w)
      BY <1>1, <3>2 DEF HeartbeatExpires, Becomes, KeepsIds
    <3>3. QED
      BY <2>3, <3>1, <3>2
  <2>4. CASE Terminate(w) \/ Kill(w)
    BY <1>1, <2>4 DEF Terminate, Kill, Becomes, KeepsIds
  <2>5. CASE CommandGone(w) \/ Crash(w)
    BY <1>1, <2>5 DEF CommandGone, Crash, Becomes, KeepsIds
  <2>6. CASE \E p \in Family : Exits(w, p)
    BY <1>1, <2>6 DEF Exits, Becomes, KeepsIds
  <2>7. QED
    BY <2>1, <2>2, <2>3, <2>4, <2>5, <2>6
<1>4. QED
  BY <1>2, <1>3

\* Nor does a call that a client makes about the request it has.
LEMMA CallerKeeps ==
    ASSUME NEW timed \in BOOLEAN, WInv(timed),
           NEW w \in Wrappers, client[w].phase # "start",
           \/ Poll(w) \/ Withdraw(w) \/ Undo(w) \/ Confirm(w) \/ Release(w)
           \/ Heartbeat(w) \/ LateRenewal(w)
    PROVE  KeepsIds /\ AdmitsNone
<1> DEFINE c == client[w]
<1>1. c \in ClientState /\ Inv /\ Owner[w] \in Uid /\ clock \in Now
  BY Caller
<1>2. Poll(w) \/ Withdraw(w) \/ Undo(w) \/ Confirm(w) \/ Release(w) \/ Heartbeat(w)
      => c.id \in RequestId
  BY <1>1, Caller DEF Poll, Withdraw, Undo, Confirm, Release, Heartbeat, In, Sane,
     Informed, Orderly, PastGrant
<1>3. LateRenewal(w) => c.id \in RequestId /\ c.late \in Now
  BY <1>1, Caller, Margins DEF LateRenewal, Sane, Orderly, ClientState, Now
<1>4. UNCHANGED vars => AdmitsNone
  BY DEF vars, AdmitsNone
<1>5. AdmitsNone
  <2>1. CASE Poll(w) \/ Withdraw(w) \/ Undo(w) \/ Release(w) \/ Heartbeat(w)
    BY <1>1, <1>2, <1>4, <2>1, CallAdmitsNone DEF Poll, Withdraw, Undo, Release,
       Heartbeat, LastCall, NotArrived
  <2>2. CASE Confirm(w)
    BY <1>1, <1>2, <1>4, <2>2, CallAdmitsNone DEF Confirm, NotArrived
  <2>3. CASE LateRenewal(w)
    BY <1>1, <1>3, <2>3, CallAdmitsNone DEF LateRenewal
  <2>4. QED
    BY <2>1, <2>2, <2>3
<1>6. UNCHANGED client => KeepsIds
  BY DEF KeepsIds
<1>7. KeepsIds
  <2>0. DOMAIN client = Wrappers /\ "id" \in DOMAIN c
    BY <1>1 DEF WInv, ClientState
  <2>1. CASE Withdraw(w) \/ Undo(w) \/ Release(w)
    BY <2>1, MoveKeeps DEF Withdraw, Undo, Release, LastCall
  <2>2. CASE Poll(w)
    <3>1. CASE AfterState(w, c.id)
      <4>1. [c EXCEPT !.id = c.id] = c
        BY <1>1 DEF ClientState
      <4>2. \/ Becomes(w, [c EXCEPT !.phase = "waiting"])
            \/ Becomes(w, [c EXCEPT !.phase = "granted",
                                    !.cards = tables'.leases[c.id].cards])
            \/ Becomes(w, [c EXCEPT !.phase = "withdrawing"])
        BY <3>1, <4>1 DEF AfterState
      <4>3. CASE \/ Becomes(w, [c EXCEPT !.phase = "waiting"])
                 \/ Becomes(w, [c EXCEPT !.phase = "withdrawing"])
        BY <4>3, MoveKeeps DEF Moves
      <4>4. CASE Becomes(w, [c EXCEPT !.phase = "granted",
                                      !.cards = tables'.leases[c.id].cards])
        BY <2>0, <4>4 DEF Becomes, KeepsIds
      <4>5. QED
        BY <4>2, <4>3, <4>4
    <3>2. QED
      BY <1>6, <2>2, <3>1, MoveKeeps DEF Poll
  <2>3. CASE Confirm(w)
    <3>1. ASSUME NEW now \in Now,
                 Becomes(w, [c EXCEPT !.phase = "confirmed", !.heard = now])
          PROVE  KeepsIds
      BY <2>0, <3>1 DEF Becomes, KeepsIds
    <3>2. QED
      BY <2>3, <3>1, MoveKeeps DEF Confirm
  <2>4. CASE Heartbeat(w)
    BY <1>6, <2>0, <2>4 DEF Heartbeat, Becomes, KeepsIds
  <2>5. CASE LateRenewal(w)
    BY <2>0, <2>5 DEF LateRenewal, Becomes, KeepsIds
  <2>6. QED
    BY <2>1, <2>2, <2>3, <2>4, <2>5
<1>8. QED
  BY <1>5, <1>7

\* A request the daemon no longer has does not come back: what a client asks for is
\* nobody's yet.
Gone(v) == client[v].id # None /\ client[v].id \notin Live(tables)

LEMMA GoneStaysGone ==
    ASSUME NEW timed \in BOOLEAN, WInv(timed),
           [WNext]_wvars, NEW v \in Wrappers, Gone(v)
    PROVE  Gone(v)'
<1>1. KeepsIds /\ AdmitsNone => Gone(v)'
  BY DEF Gone, KeepsIds, AdmitsNone
<1>2. UNCHANGED client /\ AdmitsNone => Gone(v)'
  BY DEF Gone, AdmitsNone
<1>3. ASSUME NEW w \in Wrappers, Acquire(w)
      PROVE  Gone(v)'
  <2>1. client[w].id = None
    BY <1>3, Caller DEF Acquire, In, Sane, Informed
  <2>2. client'[v] = client[v]
    <3>1. v # w
      BY <2>1 DEF Gone
    <3>2. \E d : Becomes(w, d)
      BY <1>3 DEF Acquire, Moves, AfterState
    <3>3. QED
      BY <3>1, <3>2 DEF WInv, Becomes
  <2>3. client[v].id \notin Live(tables')
    <3>1. CASE UNCHANGED vars
      BY <3>1 DEF vars, Gone
    <3>2. ASSUME NEW r \in RequestId, NEW d \in Demands, NEW now \in Now,
                 Unclaimed(r), CreateRequest(Owner[w], r, d, Length(w), now)
          PROVE  client[v].id \notin Live(tables')
      <4>1. Length(w) \in Reservations
        BY WrapperAssumption DEF Length
      <4>2. Live(tables') \subseteq Live(tables) \cup {r}
        BY <3>2, <4>1, Caller, CreateRequestOutcome DEF Spares
      <4>3. QED
        BY <3>2, <4>2 DEF Gone, Unclaimed
    <3>3. QED
      BY <1>3, <3>1, <3>2 DEF Acquire, NotArrived
  <2>4. QED
    BY <2>2, <2>3 DEF Gone
<1>4. ASSUME NEW w \in Wrappers, WrapperStep(w) \/ LateRenewal(w) \/ Crash(w)
      PROVE  Gone(v)'
  <2>1. ASSUME client[w].phase = "start",
               \/ Poll(w) \/ Withdraw(w) \/ Undo(w) \/ Confirm(w) \/ Release(w)
               \/ Heartbeat(w) \/ LateRenewal(w)
        PROVE  FALSE
    BY <2>1, Caller DEF Poll, Withdraw, Undo, Confirm, Release, Heartbeat, LateRenewal,
       In, Sane, Orderly
  <2>2. QED
    BY <1>1, <1>3, <1>4, <2>1, AloneKeeps, CallerKeeps
       DEF WrapperStep, MainThread, HeartbeatThread
<1>5. CASE Cancel
  <2>1. PICK u \in Uid, w \in Wrappers, now \in Now :
            client[w].id # None /\ CancelTask(u, client[w].id, now)
    BY <1>5 DEF Cancel
  <2>2. AdmitsNone
    BY <2>1, Caller, CallAdmitsNone
  <2>3. QED
    BY <1>2, <1>5, <2>2 DEF Cancel
<1>6. CASE Reaper /\ UNCHANGED client
  BY <1>2, <1>6, QuietSpares DEF WInv, Spares, AdmitsNone
<1>7. CASE Time
  BY <1>2, <1>7 DEF Time, Tick, AdmitsNone
<1>8. CASE UNCHANGED wvars
  BY <1>2, <1>8 DEF wvars, vars, AdmitsNone
<1>9. QED
  BY <1>4, <1>5, <1>6, <1>7, <1>8 DEF WNext

\* The clients and the daemon are as WInv says: with what is about time until the
\* restart, which takes the leases away, and without it afterwards.  What the
\* installer saw is gone once it goes ahead without being forced.
Before == {"check", "install", "refused"}
IInv ==
    /\ installer \in Before \cup {"poll", "ready", "failed"}
    /\ seen \subseteq Wrappers
    /\ WInv(FALSE)
    /\ installer \in Before => WInv(TRUE)
    /\ installer = "install" /\ ~forced => \A w \in seen : Gone(w)

LEMMA InitIInv ==
    ASSUME IInit PROVE IInv
<1>1. WInv(TRUE) /\ WInv(FALSE)
  BY InitWInv DEF IInit
<1>2. QED
  BY <1>1 DEF IInit, IInv, Before

\* A status call is one of the daemon's steps, about nobody's request.
LEMMA StatusSane ==
    ASSUME NEW timed \in BOOLEAN, WInv(timed), UNCHANGED client,
           NotArrived \/ \E u \in Uid, now \in Now : Status(u, now)
    PROVE  WInv(timed)'
<1>1. CASE NotArrived
  <2>1. [Next]_vars /\ clock' = clock /\ UNCHANGED tables /\ Inv
    BY <1>1 DEF NotArrived, vars, WInv
  <2>2. QED
    BY <2>1, QuietSpares, NobodySteps
<1>2. ASSUME NEW u \in Uid, NEW now \in Now, Status(u, now)
      PROVE  WInv(timed)'
  <2>1. Call(u, now) /\ clock' = clock /\ Inv
    BY <1>2 DEF Call, Status, Quietly, WInv
  <2>2. [Next]_vars
    BY <2>1 DEF Next
  <2>3. QED
    BY <1>2, <2>1, <2>2, QuietSpares, NobodySteps
<1>3. QED
  BY <1>1, <1>2

\* The tables of a new daemon agree with each other, and with what the clients of
\* the old one know, as none of them has a task in them.
LEMMA RestartSane ==
    ASSUME WInv(FALSE), RestartDaemon
    PROVE  WInv(FALSE)'
<1>1. /\ tables' = [requests |-> <<>>, queue |-> <<>>, leases |-> <<>>, holders |-> <<>>]
      /\ reaper' = "ready" /\ wakeAt' = None /\ reply' = NoReply
      /\ UNCHANGED <<closed, clock, client>>
  BY DEF RestartDaemon
<1>2. Inv'
  <2>1. \A K, V : IsTable(<<>>, K, V)
    BY DEF IsTable
  <2>2. TablesOK(tables')
    BY <1>1, <2>1 DEF TablesOK
  <2>3. TypeOK'
    BY <1>1, <2>2 DEF WInv, Inv, TypeOK, NoReply
  <2>4. (HoldersMatchLeases /\ TablesAgree)'
    BY <1>1 DEF HoldersMatchLeases, HoldersAgree, NoOrphanHolder, TablesAgree,
       TasksMatchLeases, Held, Live, Queued
  <2>5. (HeadBlocked /\ ReaperInTime)'
    BY <1>1 DEF HeadBlocked, ReaperInTime
  <2>6. QED
    BY <2>3, <2>4, <2>5 DEF Inv
<1>3. Live(tables') = {} /\ Queued(tables') = {} /\ DOMAIN tables'.leases = {}
  BY <1>1 DEF Live, Queued
<1>4. \A w \in Wrappers : Sane(FALSE, tables', clock, w, client[w])
  BY <1>3 DEF WInv, Sane, Ours, Informed
<1>5. QED
  BY <1>1, <1>2, <1>4 DEF WInv, Distinct

LEMMA NextIInv ==
    IInv /\ [INext]_ivars => IInv'
<1> SUFFICES ASSUME IInv, [INext]_ivars
             PROVE  IInv'
  OBVIOUS
<1>1. CASE CheckIdle
  <2>1. /\ installer = "check" /\ seen' = {w \in Wrappers : client[w].id # None}
        /\ UNCHANGED client /\ UNCHANGED forced
    BY <1>1 DEF CheckIdle
  <2>2. \/ NotArrived /\ installer' = "refused"
        \/ /\ \E u \in Uid, now \in Now : Status(u, now)
           /\ installer' \in {"refused", "install"}
           /\ installer' = "install" /\ ~forced => Live(tables') = {}
    BY <1>1 DEF CheckIdle, ActiveTasks
  <2>3. WInv(TRUE)'
    BY <2>1, <2>2, StatusSane DEF IInv, Before
  <2>4. WInv(FALSE)'
    BY <2>1, <2>2, StatusSane DEF IInv
  <2>5. installer' = "install" /\ ~forced' => \A w \in seen' : Gone(w)'
    BY <2>1, <2>2 DEF Gone
  <2>6. QED
    BY <2>1, <2>2, <2>3, <2>4, <2>5 DEF IInv, Before
<1>2. CASE RestartDaemon
  <2>1. installer' = "poll" /\ UNCHANGED seen
    BY <1>2 DEF RestartDaemon
  <2>2. WInv(FALSE)'
    BY <1>2, RestartSane DEF IInv
  <2>3. QED
    BY <2>1, <2>2 DEF IInv, Before
<1>3. CASE AwaitReady
  <2>1. installer' \in {"ready", "failed", "poll"} /\ UNCHANGED client /\ UNCHANGED seen
    BY <1>3 DEF AwaitReady
  <2>2. WInv(FALSE)'
    BY <1>3, <2>1, StatusSane DEF IInv, AwaitReady
  <2>3. QED
    BY <2>1, <2>2 DEF IInv, Before
<1>4. CASE [WNext]_wvars /\ UNCHANGED installing
  <2>1. UNCHANGED <<forced, installer, seen>>
    BY <1>4 DEF installing
  <2>2. WInv(FALSE)'
    BY <1>4, NextWInv DEF IInv
  <2>3. installer \in Before => WInv(TRUE)'
    BY <1>4, NextWInv DEF IInv
  <2>4. installer = "install" /\ ~forced => \A w \in seen : Gone(w)'
    <3>1. \A w \in Wrappers : Gone(w) => Gone(w)'
      BY <1>4, GoneStaysGone DEF IInv
    <3>2. QED
      BY <3>1 DEF IInv
  <2>5. QED
    BY <2>1, <2>2, <2>3, <2>4 DEF IInv
<1>5. QED
  BY <1>1, <1>2, <1>3, <1>4 DEF INext, WNext, ivars

LEMMA IInvariant == ISpec => []IInv
BY InitIInv, NextIInv, PTL DEF ISpec

\* Unless it is forced to, the installer takes no lease from under a command whose
\* request it could have seen: with any number of clients, lost and delayed calls,
\* and however long the installation takes.
THEOREM InstallerSparesCommands == MarginCovers /\ ISpec => OldCommandsSpared
<1>1. SUFFICES ASSUME MarginCovers
               PROVE  ISpec => OldCommandsSpared
  OBVIOUS
<1>2. IInv =>
         (installer = "install" /\ installer' = "poll" /\ ~forced =>
              \A w \in seen : ~(Attached(w) /\ Leads(w)))
  <2> SUFFICES ASSUME IInv, installer = "install", ~forced, NEW w \in seen
               PROVE  ~(Attached(w) /\ Leads(w))
    OBVIOUS
  <2>1. WInv(TRUE) /\ w \in Wrappers /\ Gone(w)
    BY DEF IInv, Before
  <2>2. HeldWhileRunning
    BY <1>1, <2>1, HeldByInvariant
  <2>3. client[w].id \notin DOMAIN tables.leases
    BY <2>1, Margins DEF Gone, Sound, TasksMatchLeases
  <2>4. QED
    BY <2>1, <2>2, <2>3 DEF HeldWhileRunning, Holds
<1>3. QED
  BY <1>2, IInvariant, PTL DEF OldCommandsSpared

\* The daemon's invariants hold across a restart, forced or not, in which clients of
\* the old daemon go on to call the new one.
THEOREM RestartsAreSound ==
    ISpec => [](TypeOK /\ HoldersMatchLeases /\ TablesAgree /\ HeadBlocked /\ ReaperInTime)
<1>1. IInv => TypeOK /\ HoldersMatchLeases /\ TablesAgree /\ HeadBlocked /\ ReaperInTime
  BY DEF IInv, WInv, Inv
<1>2. QED
  BY <1>1, IInvariant, PTL

\* So does the promise of the clients: neither a restart nor what is asked of the
\* new daemon leaves anything behind of a client that knows how its last call ended.
THEOREM RestartsLeaveNothing == ISpec => [](ClientTypeOK /\ NothingLeftBehind)
<1>1. IInv => ClientTypeOK /\ NothingLeftBehind
  BY ClientsKnow DEF IInv
<1>2. QED
  BY <1>1, IInvariant, PTL

=============================================================================
