---------------------------- MODULE LeaseManager ----------------------------
(***************************************************************************)
(* The daemon's scheduler: class LeaseManager of src/gpuctl/manager.py and *)
(* the part of src/gpuctl/http_api.py that calls it.                       *)
(*                                                                         *)
(* Every handler and the reaper run their whole body under one lock, so    *)
(* each is one action.  A handler reads the clock BEFORE it takes the lock *)
(* (manager.py:150, 190, 210, 233, 258, 278, 300, 360): the time it works  *)
(* with may be older than the time at which it runs, by at most MaxStall.  *)
(* The reaper reads the clock under the lock (manager.py:677).             *)
(*                                                                         *)
(* A lease id is a 256-bit token drawn once per grant, and a request is    *)
(* granted at most once: the lease of request r is named r here.           *)
(***************************************************************************)
EXTENDS Integers, Sequences, FiniteSets

CONSTANTS
    CardOrder,      \* the configured card ids, in their order
    RequestId,      \* the request ids drawn; a dead one may be drawn again
    Uid,            \* the Unix users that call the daemon
    Root,           \* uid 0, the administrator
    Demands,        \* the [cards, count] bodies clients send, valid or not
    Reservations,   \* the reservation lengths clients send, or None
    LeaseTTL, QueueTTL,
    MaxStall,       \* bound: how old a handler's clock reading may be
    MaxClock,       \* bound: the last instant modelled
    None            \* Python's None

Card == {CardOrder[i] : i \in DOMAIN CardOrder}

ASSUME NoneAssumption == None \notin Int
ASSUME CardAssumption ==
    /\ CardOrder \in Seq(Card)
    /\ CardOrder # <<>>
    /\ \A i, j \in DOMAIN CardOrder : CardOrder[i] = CardOrder[j] => i = j
ASSUME TimeAssumption ==
    /\ LeaseTTL \in Nat \ {0} /\ QueueTTL \in Nat \ {0}
    /\ MaxStall \in Nat /\ MaxClock \in Nat
ASSUME InputAssumption ==
    /\ Root \in Uid
    /\ Reservations \subseteq Int \cup {None}
    /\ \A d \in Demands : /\ d = [cards |-> d.cards, count |-> d.count]
                          /\ d.count \in Int \cup {None}

VARIABLES
    tables,     \* _requests, _queue, _leases, _holders: all guarded by the lock
    closed,     \* _closed
    reaper,     \* the reaper thread: "ready" to run, "waiting", or "stopped"
    wakeAt,     \* when its timed wait ends, None for an untimed one
    clock,      \* the monotonic clock
    reply       \* who the last call was answered to, and how

vars == <<tables, closed, reaper, wakeAt, clock, reply>>

-----------------------------------------------------------------------------
(* The tables.  Python dictionaries are functions on the keys present. *)

Without(f, S) == [x \in DOMAIN f \ S |-> f[x]]
With(f, S, v) == [x \in DOMAIN f \cup S |-> IF x \in S THEN v ELSE f[x]]

Live(m) == DOMAIN m.requests
Held(m) == DOMAIN m.holders
Free(m) == Card \ Held(m)
Queued(m) == {m.queue[i] : i \in DOMAIN m.queue}

Position(q, r) == CHOOSE i \in DOMAIN q : q[i] = r

\* The queue without the tickets of S; the others keep their order.
Drop(q, S) ==
    LET kept[i \in 0..Len(q)] ==
            IF i = 0 THEN <<>>
            ELSE IF q[i] \in S THEN kept[i - 1]
            ELSE Append(kept[i - 1], q[i])
    IN  kept[Len(q)]

\* _release_lease_locked, for every lease of S: the lease goes, the cards that
\* still name it are freed, and its request goes with it.
ReleaseLeases(m, S) ==
    [requests |-> Without(m.requests, S),
     queue    |-> m.queue,
     leases   |-> Without(m.leases, S),
     holders  |-> Without(m.holders, {c \in Held(m) : m.holders[c] \in S})]

\* A queued request leaves both the table and the queue.
DropTickets(m, S) ==
    [requests |-> Without(m.requests, S),
     queue    |-> Drop(m.queue, S),
     leases   |-> m.leases,
     holders  |-> m.holders]

\* Mutant of Join: a new request goes before those that wait, and is granted past
\* a blocked head if its cards are free.
JoinInFront(m, r, ticket) ==
    [requests |-> With(m.requests, {r}, ticket),
     queue    |-> <<r>> \o m.queue,
     leases   |-> m.leases,
     holders  |-> m.holders]

\* A new request goes to the end of the queue.
Join(m, r, ticket) ==
    [requests |-> With(m.requests, {r}, ticket),
     queue    |-> Append(m.queue, r),
     leases   |-> m.leases,
     holders  |-> m.holders]

\* Mutant of ExpiredLeases: a deadline has to be over, not only reached.
LeasesPastDeadline(m, now) ==
    {l \in DOMAIN m.leases : m.leases[l].deadline < now}

ExpiredLeases(m, now) ==
    {l \in DOMAIN m.leases : m.leases[l].deadline <= now}
ExpiredTickets(m, now) ==
    {r \in Queued(m) : m.requests[r].queueDeadline <= now}

-----------------------------------------------------------------------------
(* Scheduling: _select_cards_locked and _schedule_locked. *)

\* Mutant of Satisfiable: one of the exact cards is free.
SatisfiableInPart(m, d) ==
    IF d.cards # None THEN d.cards \cap Free(m) # {}
                      ELSE Cardinality(Free(m)) >= d.count

Satisfiable(m, d) ==
    IF d.cards # None THEN d.cards \cap Held(m) = {}
                      ELSE Cardinality(Free(m)) >= d.count

\* Mutant of Selected: the slice of the free cards is one short.
SelectedOneShort(m, d) ==
    IF d.cards # None
    THEN d.cards
    ELSE {c \in Free(m) :
            Cardinality({e \in Free(m) :
                Position(CardOrder, e) <= Position(CardOrder, c)}) < d.count}

\* The exact cards, or the first count free ones in the configured order.
Selected(m, d) ==
    IF d.cards # None
    THEN d.cards
    ELSE {c \in Free(m) :
            Cardinality({e \in Free(m) :
                Position(CardOrder, e) <= Position(CardOrder, c)}) <= d.count}

LeaseDuration(req) ==
    IF req.reservation # None THEN req.reservation ELSE LeaseTTL

\* One turn of the loop: the head of the queue is granted if it can be.  Its
\* ticket deadline is never read again and is forgotten.
GrantHead(m, now) ==
    IF m.queue = <<>> \/ ~Satisfiable(m, m.requests[Head(m.queue)].demand)
    THEN m
    ELSE LET r == Head(m.queue)
             chosen == Selected(m, m.requests[r].demand)
         IN  [queue    |-> Tail(m.queue),
              leases   |-> With(m.leases, {r},
                             [cards |-> chosen, started |-> now,
                              deadline |-> now + LeaseDuration(m.requests[r])]),
              holders  |-> With(m.holders, chosen, r),
              requests |-> [m.requests EXCEPT ![r].status = "granted",
                                              ![r].queueDeadline = None]]

\* Mutant of Schedule: if instead of while.
ScheduleOnce(m, now) == GrantHead(m, now)

\* The loop ends after at most one turn per ticket: a turn that grants nothing
\* leaves the tables alone, and so does every turn after it.
Schedule(m, now) ==
    LET after[i \in 0..Len(m.queue)] ==
            IF i = 0 THEN m ELSE GrantHead(after[i - 1], now)
    IN  after[Len(m.queue)]

\* _maintain_locked: expired leases, then expired tickets, then the queue.
Maintain(m, now) ==
    LET reaped == ReleaseLeases(m, ExpiredLeases(m, now))
    IN  Schedule(DropTickets(reaped, ExpiredTickets(reaped, now)), now)

-----------------------------------------------------------------------------
(* What a handler is given, and how it ends. *)

\* The clock readings a handler that runs now may have taken.
Now == {t \in 0..clock : clock - t <= MaxStall}

\* Mutants of ValidDemand: unknown card ids, or counts beyond the machine, get in.
ValidDemandUnknownCards(d) ==
    /\ (d.cards # None) # (d.count # None)
    /\ d.cards # None => d.cards # {}
    /\ d.count # None => d.count > 0 /\ d.count <= Len(CardOrder)
ValidDemandAnyCount(d) ==
    /\ (d.cards # None) # (d.count # None)
    /\ d.cards # None => d.cards # {} /\ d.cards \subseteq Card
    /\ d.count # None => d.count > 0

\* _validate_request: exactly one of cards and count, and no more of them than
\* the daemon has.
ValidDemand(d) ==
    /\ (d.cards # None) # (d.count # None)
    /\ d.cards # None => d.cards # {} /\ d.cards \subseteq Card
    /\ d.count # None => d.count > 0 /\ d.count <= Len(CardOrder)

\* _validate_metadata: what it says of the length of a reservation.
ValidReservation(length) == length # None => length > 0

Valid(d, reservation) == ValidDemand(d) /\ ValidReservation(reservation)

\* Mutant of Authorized: the check is forgotten.
AuthorizedAnyone(m, r, u) == TRUE

\* _authorize_request_locked, with admin = (uid is 0) as http_api.py has it.
Authorized(m, r, u) == u = Root \/ m.requests[r].uid = u

NoReply == [to |-> None, code |-> None]

Answer(u, code) == reply' = [to |-> u, code |-> code]

\* The handler leaves the tables as m without a notify_all: the paths that
\* raise or find nothing, and the two read-only calls.
Quietly(m) ==
    /\ tables' = m
    /\ UNCHANGED <<closed, reaper, wakeAt, clock>>

\* Mutant of NotifyAll: nobody is woken.
NotifyNobody == UNCHANGED <<reaper, wakeAt>>

\* _condition.notify_all(): the reaper is the only waiter.
NotifyAll ==
    /\ reaper' = IF reaper = "waiting" THEN "ready" ELSE reaper
    /\ wakeAt' = None

Notifying(m) ==
    /\ tables' = m
    /\ NotifyAll
    /\ UNCHANGED <<closed, clock>>

-----------------------------------------------------------------------------
Init ==
    /\ tables = [requests |-> <<>>, queue |-> <<>>, leases |-> <<>>,
                 holders |-> <<>>]
    /\ closed = FALSE
    /\ reaper = "ready"
    /\ wakeAt = None
    /\ clock = 0
    /\ reply = NoReply

\* POST /v1/requests: create_request.  The id is one that names no request, before
\* this call as well as after its maintenance: one that this very call has
\* reaped would name two tasks in one step.
CreateRequest(u, r, d, reservation, now) ==
    /\ r \notin Live(tables)
    /\ \/ /\ ~Valid(d, reservation)
          /\ Answer(u, "invalid_request")
          /\ Quietly(tables)
       \/ /\ Valid(d, reservation)
          /\ closed
          /\ Answer(u, "shutting_down")
          /\ Quietly(tables)
       \/ /\ Valid(d, reservation)
          /\ ~closed
          /\ LET m == Maintain(tables, now)
                 ticket == [uid |-> u, demand |-> d,
                            reservation |-> reservation, status |-> "queued",
                            queueDeadline |-> now + QueueTTL]
             IN  Notifying(Schedule(Join(m, r, ticket), now))
          /\ Answer(u, "ok")

\* A call about request r that finds it gone, or another user's.
Refused(m, r, u, whenGone) ==
    \/ /\ r \notin Live(m)
       /\ Answer(u, whenGone)
       /\ Quietly(m)
    \/ /\ r \in Live(m)
       /\ ~Authorized(m, r, u)
       /\ Answer(u, "forbidden")
       /\ Quietly(m)

\* GET /v1/requests/r: get_request, the poll that keeps a ticket alive.
GetRequest(u, r, now) ==
    LET m == Maintain(tables, now)
    IN  \/ Refused(m, r, u, "not_found")
        \/ /\ r \in Live(m) /\ Authorized(m, r, u)
           /\ m.requests[r].status = "queued"
           /\ Answer(u, "ok")
           /\ Notifying([m EXCEPT !.requests[r].queueDeadline = now + QueueTTL])
        \/ /\ r \in Live(m) /\ Authorized(m, r, u)
           /\ m.requests[r].status # "queued"
           /\ Answer(u, "ok")
           /\ Quietly(m)

\* Mutant of End: only the ticket is looked for.
EndTicketOnly(m, r) == DropTickets(m, {r})

\* What ends a task: its lease is released, or its ticket leaves the queue.
End(m, r) ==
    IF m.requests[r].status = "queued" THEN DropTickets(m, {r})
                                       ELSE ReleaseLeases(m, {r})

\* DELETE /v1/requests/r: cancel_request, sent by a client that stops waiting.
CancelRequest(u, r, now) ==
    LET m == Maintain(tables, now)
    IN  \/ Refused(m, r, u, "not_found")
        \/ /\ r \in Live(m) /\ Authorized(m, r, u)
           /\ Answer(u, "ok")
           /\ Notifying(Schedule(End(m, r), now))

\* The leases whose ids a caller may have: not one that this call has granted.
Known(m) == DOMAIN tables.leases \cap DOMAIN m.leases

\* A call about lease l that finds no lease, or another user's.
LeaseRefused(m, l, u, whenGone) ==
    \/ /\ l \notin Known(m)
       /\ Answer(u, whenGone)
       /\ Quietly(m)
    \/ /\ l \in Known(m)
       /\ ~Authorized(m, l, u)
       /\ Answer(u, "forbidden")
       /\ Quietly(m)

\* Mutant of Renewed: reservations are renewed like commands.
RenewedAlways(m, l, now) == [m EXCEPT !.leases[l].deadline = now + LeaseTTL]

\* The lease of a command starts over; the end of a reservation stands.
Renewed(m, l, now) ==
    IF m.requests[l].reservation = None
    THEN [m EXCEPT !.leases[l].deadline = now + LeaseTTL]
    ELSE m

\* PUT /v1/leases/l: renew_lease, the heartbeat.  A caller has the lease id
\* from the grant, so its reading is not older than the grant's.
RenewLease(u, l, now) ==
    LET m == Maintain(tables, now)
    IN  \/ LeaseRefused(m, l, u, "not_found")
        \/ /\ l \in Known(m) /\ Authorized(m, l, u)
           /\ now >= m.leases[l].started
           /\ m.requests[l].status = "canceling"
           /\ Answer(u, "task_canceled")
           /\ Quietly(m)
        \/ /\ l \in Known(m) /\ Authorized(m, l, u)
           /\ now >= m.leases[l].started
           /\ m.requests[l].status # "canceling"
           /\ Answer(u, "ok")
           /\ Notifying(Renewed(m, l, now))

\* Mutant of ReleaseLease: the freed cards are not offered to the queue.
ReleaseLeaseUnscheduled(u, l, now) ==
    LET m == Maintain(tables, now)
    IN  \/ LeaseRefused(m, l, u, "ok")
        \/ /\ l \in Known(m) /\ Authorized(m, l, u)
           /\ now >= m.leases[l].started
           /\ Answer(u, "ok")
           /\ Notifying(ReleaseLeases(m, {l}))

\* DELETE /v1/leases/l: release_lease; http_api.py:256-263 answers 204 to a
\* lease that is gone as well.
ReleaseLease(u, l, now) ==
    LET m == Maintain(tables, now)
    IN  \/ LeaseRefused(m, l, u, "ok")
        \/ /\ l \in Known(m) /\ Authorized(m, l, u)
           /\ now >= m.leases[l].started
           /\ Answer(u, "ok")
           /\ Notifying(Schedule(ReleaseLeases(m, {l}), now))

\* DELETE /v1/tasks/r: request_task_cancel.  A queued task and a reservation
\* end at once; a command is only marked, and its own wrapper ends it.
CancelTask(u, r, now) ==
    LET m == Maintain(tables, now)
    IN  \/ Refused(m, r, u, "not_found")
        \/ /\ r \in Live(m) /\ Authorized(m, r, u)
           /\ \/ m.requests[r].status = "queued"
              \/ m.requests[r].reservation # None
           /\ Answer(u, "ok")
           /\ Notifying(Schedule(End(m, r), now))
        \/ /\ r \in Live(m) /\ Authorized(m, r, u)
           /\ m.requests[r].status # "queued"
           /\ m.requests[r].reservation = None
           /\ Answer(u, "ok")
           /\ Notifying([m EXCEPT !.requests[r].status = "canceling"])

\* GET /v1/status, and GET /v1/tasks with or without all=true: they reap and
\* schedule like every call, and wake nobody.
Status(u, now) ==
    /\ Answer(u, "ok")
    /\ Quietly(Maintain(tables, now))

Tasks(u, includeAll, now) ==
    \/ /\ includeAll /\ u # Root
       /\ Answer(u, "forbidden")
       /\ Quietly(tables)
    \/ /\ includeAll => u = Root
       /\ Answer(u, "ok")
       /\ Quietly(Maintain(tables, now))

\* close(), called once the server has stopped accepting: handlers that were
\* accepted before may still run.
Close ==
    /\ ~closed
    /\ closed' = TRUE
    /\ NotifyAll
    /\ reply' = NoReply
    /\ UNCHANGED <<tables, clock>>

-----------------------------------------------------------------------------
(* The reaper thread and time. *)

Deadlines(m) ==
    {m.leases[l].deadline : l \in DOMAIN m.leases}
        \cup {m.requests[r].queueDeadline : r \in Queued(m)}

Soonest(T) == CHOOSE t \in T : \A u \in T : t <= u

\* Mutant of ReaperAwake: the wait has no timeout.
ReaperAwakeIfNotified == reaper = "ready"

ReaperAwake ==
    \/ reaper = "ready"
    \/ reaper = "waiting" /\ wakeAt # None /\ wakeAt <= clock

\* One turn of _reaper_loop, from its wake-up to its next wait.
Reaper ==
    /\ ReaperAwake
    /\ reply' = NoReply
    /\ UNCHANGED <<closed, clock>>
    /\ \/ /\ closed
          /\ reaper' = "stopped"
          /\ wakeAt' = None
          /\ UNCHANGED tables
       \/ /\ ~closed
          /\ tables' = Maintain(tables, clock)
          /\ reaper' = "waiting"
          /\ wakeAt' = IF Deadlines(tables') = {} THEN None
                                                  ELSE Soonest(Deadlines(tables'))

Tick ==
    /\ clock < MaxClock
    /\ clock' = clock + 1
    /\ reply' = NoReply
    /\ UNCHANGED <<tables, closed, reaper, wakeAt>>

Call(u, now) ==
    \/ \E r \in RequestId, d \in Demands, res \in Reservations :
            CreateRequest(u, r, d, res, now)
    \/ \E r \in RequestId :
            \/ GetRequest(u, r, now)
            \/ CancelRequest(u, r, now)
            \/ RenewLease(u, r, now)
            \/ ReleaseLease(u, r, now)
            \/ CancelTask(u, r, now)
    \/ Status(u, now)
    \/ \E includeAll \in BOOLEAN : Tasks(u, includeAll, now)

Next ==
    \/ \E u \in Uid, now \in Now : Call(u, now)
    \/ Close
    \/ Reaper
    \/ Tick

Spec == Init /\ [][Next]_vars

-----------------------------------------------------------------------------
(* Correctness. *)

Demand == [cards : (SUBSET Card) \cup {None}, count : Nat \cup {None}]
Request == [uid : Uid, demand : Demand, reservation : Nat \cup {None},
            status : {"queued", "granted", "canceling"},
            queueDeadline : Nat \cup {None}]
Lease == [cards : SUBSET Card, started : Nat, deadline : Nat]
IsTable(f, K, V) == DOMAIN f \subseteq K /\ f \in [DOMAIN f -> V]
TablesOK(m) ==
    /\ m = [requests |-> m.requests, queue |-> m.queue,
            leases |-> m.leases, holders |-> m.holders]
    /\ IsTable(m.requests, RequestId, Request)
    /\ m.queue \in Seq(RequestId)
    /\ IsTable(m.leases, RequestId, Lease)
    /\ IsTable(m.holders, Card, RequestId)

\* Type correctness: the shapes of the four tables, of the reaper's state and
\* of the answers.
TypeOK ==
    /\ TablesOK(tables)
    /\ closed \in BOOLEAN
    /\ reaper \in {"ready", "waiting", "stopped"}
    /\ wakeAt \in Nat \cup {None}
    /\ clock \in Nat
    /\ reply \in [to : Uid \cup {None},
                  code : {"ok", "invalid_request", "forbidden", "not_found",
                          "task_canceled", "shutting_down", None}]

\* A card is held by a lease exactly when that lease lists it, and no two
\* leases list the same card: a card has one user at a time, and no card is
\* lost when its lease goes.
HoldersAgree(m) ==
    \A c \in Card, l \in DOMAIN m.leases :
        c \in m.leases[l].cards <=> c \in Held(m) /\ m.holders[c] = l
NoOrphanHolder(m) ==
    \A c \in Held(m) : m.holders[c] \in DOMAIN m.leases
HoldersMatchLeases == HoldersAgree(tables) /\ NoOrphanHolder(tables)

\* The request table, the queue and the lease table tell one story: a queued
\* request is in the queue once and has no lease, every other one has a lease
\* and is not in the queue.  The handlers index one table by what they read in
\* another, unguarded (manager.py:239, 324, 481, 497, 580, 583, 607, 683).
TasksMatchLeases(m) ==
    /\ Queued(m) = {r \in Live(m) : m.requests[r].status = "queued"}
    /\ DOMAIN m.leases = Live(m) \ Queued(m)
    /\ \A i, j \in DOMAIN m.queue : m.queue[i] = m.queue[j] => i = j
    /\ \A r \in Queued(m) : m.requests[r].queueDeadline # None
TablesAgree == TasksMatchLeases(tables)

\* A lease has all that its request asked for: the exact cards, or the count.
AllOrNone ==
    \A l \in DOMAIN tables.leases :
        LET d == tables.requests[l].demand
            got == tables.leases[l].cards
        IN  IF d.cards # None THEN got = d.cards
                              ELSE Cardinality(got) = d.count

\* No missed scheduling: whatever freed cards, no step leaves a head of the
\* queue that could be granted.  Every handler must schedule after it frees.
HeadBlocked ==
    tables.queue # <<>> =>
        ~Satisfiable(tables, tables.requests[Head(tables.queue)].demand)

\* A queue never waits on an idle machine: what validation lets in can be
\* served by the configured cards.
NoWaitOnIdleCards == Held(tables) = {} => tables.queue = <<>>

\* The reaper never oversleeps: while it waits, its timeout ends no later than
\* the first deadline, though status, tasks and failing calls change deadlines
\* without waking it.
ReaperInTime ==
    reaper = "waiting" =>
        \A t \in Deadlines(tables) : wakeAt # None /\ wakeAt <= t

\* A task leaves the tables only because its deadline has passed or because a
\* call its owner or the administrator made, and was granted, ended it.  A
\* stale clock reading never reaps early.
Overdue(r) ==
    IF r \in DOMAIN tables.leases
    THEN tables.leases[r].deadline <= clock
    ELSE tables.requests[r].queueDeadline <= clock
EndedRightly ==
    \A r \in Live(tables) \ Live(tables)' :
        \/ Overdue(r)
        \/ reply'.code = "ok" /\ reply'.to \in {Root, tables.requests[r].uid}
OnlyOwnerEnds == [][EndedRightly]_vars

\* Strict FIFO: a request is granted only if everything that came before it is
\* granted as well or gone in the same step, and tickets that wait keep their
\* order.  Whoever joins in the step comes after all that were queued: also a
\* newcomer that finds its own cards free waits behind a blocked head.
Newcomers == Live(tables') \ Live(tables)
CameBefore(a, b) ==
    \/ b \in Newcomers
    \/ b \in Queued(tables) /\ Position(tables.queue, a) < Position(tables.queue, b)
InOrder ==
    \A a \in Queued(tables), b \in Queued(tables) \cup Newcomers :
        CameBefore(a, b) /\ a \in Queued(tables') =>
            /\ b \notin DOMAIN tables'.leases
            /\ b \in Queued(tables') =>
                   Position(tables'.queue, a) < Position(tables'.queue, b)
StrictFIFO == [][InOrder]_vars

\* What nobody may extend: the deadline of a reservation, and of a lease whose
\* task is being canceled, never changes; a canceled task never runs again.
Fixed(l) ==
    \/ tables.requests[l].reservation # None
    \/ tables.requests[l].status = "canceling"
NoExtension ==
    \A l \in DOMAIN tables.leases \cap DOMAIN tables'.leases :
        /\ Fixed(l) => tables'.leases[l] = tables.leases[l]
        /\ tables.requests[l].status = "canceling" =>
               tables'.requests[l].status = "canceling"
FixedDeadlines == [][NoExtension]_vars

\* README.md:358-359: "heartbeat renewals continually move it forward".
RenewalMovesForward ==
    [][\A l \in DOMAIN tables.leases \cap DOMAIN tables'.leases :
            tables'.leases[l].deadline >= tables.leases[l].deadline]_vars

\* A client that disappears loses its cards: a lease whose deadline has passed
\* goes, unless it is renewed after all or the daemon is shutting down.
Lapsed(l) == l \in DOMAIN tables.leases /\ tables.leases[l].deadline <= clock
LapsedLeasesReclaimed ==
    \A l \in RequestId : Lapsed(l) ~> ~Lapsed(l) \/ closed

=============================================================================
