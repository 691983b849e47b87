------------------------------- MODULE Wrapper -------------------------------
(***************************************************************************)
(* The clients of src/gpuctl/client.py at work with the daemon of          *)
(* LeaseManager: the command wrapper "gpuctl run" (_acquire, _execute,     *)
(* _terminate_process, LeaseHeartbeat) and "gpuctl grab" (_acquire, _grab).*)
(* A call and its answer are one step, unless the transport fails: then    *)
(* the call may not have arrived, or its answer may be lost, or the call is *)
(* still in the daemon and takes effect after the client has given up on it.*)
(* What may take time in a call is its wait for the daemon's lock: the      *)
(* handler works with the reading it took before (now), which is also when  *)
(* the call was made.                                                       *)
(*                                                                         *)
(* Seconds are ticks.  What takes time is what the code waits for: the     *)
(* queue, the command, SIGTERM before SIGKILL; and, up to StartStall, the   *)
(* start of a command.  The clock waits for every other step of a wrapper  *)
(* that is due (see Due).                                                  *)
(***************************************************************************)
EXTENDS LeaseManager

CONSTANTS
    Wrappers,       \* the gpuctl processes; each runs once
    Grabs,          \* those of them that run gpuctl grab
    GrabFor,        \* --for: the length of their reservations
    Owner,          \* Owner[w]: the user who runs w
    Margin,         \* _with_safety_margin: stop this long before the deadline
    KillAfter,      \* --kill-after: SIGKILL this long after SIGTERM
    StartStall,     \* bound: from the renewal before Popen to the heartbeat's start
    Family,         \* the processes of a command's group, "leader" among them
    Faults          \* may the transport fail?

ASSUME WrapperAssumption ==
    /\ None \notin RequestId
    /\ Owner \in [Wrappers -> Uid]
    /\ Grabs \subseteq Wrappers /\ GrabFor \in Nat \ {0}
    /\ {None, GrabFor} \subseteq Reservations
    /\ Margin \in Nat /\ KillAfter \in Nat /\ Margin < LeaseTTL
    /\ StartStall \in Nat
    /\ "leader" \in Family
    /\ Faults \in BOOLEAN

VARIABLE client     \* client[w]: the state of process w

wvars == <<vars, client>>

\* phase: where _acquire and _execute are.
\* id, cards: what the wrapper knows of its request, and gave to the command.
\* alive: the processes of the command's group that run; the wrapper's child is
\* their leader.
\* beat: the heartbeat thread, "off", "starting", "healthy", or why it failed.
\* heard: the daemon's reading in the renewal the command is started with.
\* safeUntil: its safe_deadline.  killAt: when the wait after SIGTERM ends.
\* late: the clock reading of a renewal that timed out inside the daemon.
NewClient == [phase |-> "start", id |-> None, cards |-> {}, alive |-> {},
              beat |-> "off", heard |-> None, safeUntil |-> None, killAt |-> None,
              late |-> None]

WInit == Init /\ client = [w \in Wrappers |-> NewClient]

In(w, phase) == client[w].phase = phase
Becomes(w, c) == client' = [client EXCEPT ![w] = c]
Moves(w, phase) == Becomes(w, [client[w] EXCEPT !.phase = phase])

\* The call fails at the client: it never arrived, or its answer was lost.
\* (Done is the daemon's step when the call did arrive.)
NotArrived == Faults /\ UNCHANGED vars
AnswerLost == Faults

\* The last call a client makes: it knows what came of it, or it does not.
LastCall(w, call) ==
    \/ call /\ Moves(w, "over")
    \/ call /\ AnswerLost /\ Moves(w, "unsure")
    \/ NotArrived /\ Moves(w, "unsure")

-----------------------------------------------------------------------------
(* _acquire *)

\* What the client makes of the state of its request r in an answer.
AfterState(w, r) ==
    LET c == [client[w] EXCEPT !.id = r]
    IN  CASE tables'.requests[r].status = "queued" ->
                 Becomes(w, [c EXCEPT !.phase = "waiting"])
          [] tables'.requests[r].status = "granted" ->
                 Becomes(w, [c EXCEPT !.phase = "granted",
                                      !.cards = tables'.leases[r].cards])
          [] OTHER -> Becomes(w, [c EXCEPT !.phase = "withdrawing"])

\* reservation_seconds: grab alone asks for a fixed length.
Length(w) == IF w \in Grabs THEN GrabFor ELSE None

Unclaimed(r) == \A v \in Wrappers : client[v].id # r

\* create_request is called outside the try: a failure leaves nothing to
\* cancel, and a ticket the daemon did make is not known to anybody.
Acquire(w) ==
    /\ In(w, "start")
    /\ \/ \E r \in RequestId, d \in Demands, now \in Now :
             /\ Unclaimed(r)
             /\ CreateRequest(Owner[w], r, d, Length(w), now)
             /\ \/ reply'.code = "ok" /\ AfterState(w, r)
                \/ reply'.code # "ok" /\ Moves(w, "over")
                \/ AnswerLost /\ Moves(w, "unsure")
       \/ NotArrived /\ Moves(w, "unsure")

\* One turn of the polling loop; a transport error is tried again.
Poll(w) ==
    /\ In(w, "waiting")
    /\ \E now \in Now : GetRequest(Owner[w], client[w].id, now)
    /\ \/ reply'.code = "ok" /\ AfterState(w, client[w].id)
       \/ reply'.code # "ok" /\ Moves(w, "withdrawing")
       \/ AnswerLost /\ UNCHANGED client

\* A signal, --wait-timeout, or a daemon out of reach for a whole queue TTL.
GiveUp(w) ==
    /\ In(w, "waiting")
    /\ Moves(w, "withdrawing")
    /\ UNCHANGED vars

\* The finally clause: cancel_request, whatever comes of it.
Withdraw(w) ==
    /\ In(w, "withdrawing")
    /\ \E now \in Now : LastCall(w, CancelRequest(Owner[w], client[w].id, now))

-----------------------------------------------------------------------------
(* _grab *)

\* Mutant of InterruptedEarly: grab just leaves, its cards stay reserved.
InterruptedLeaves(w) ==
    /\ In(w, "granted")
    /\ Moves(w, IF w \in Grabs THEN "over" ELSE "ending")
    /\ UNCHANGED vars

\* A signal came while the lease was on its way: grab cancels its reservation,
\* the wrapper releases its lease.
InterruptedEarly(w) ==
    /\ In(w, "granted")
    /\ Moves(w, IF w \in Grabs THEN "undoing" ELSE "ending")
    /\ UNCHANGED vars

\* cancel_task, which may fail: then the reservation stands and is not reported.
Undo(w) ==
    /\ In(w, "undoing")
    /\ \E now \in Now : LastCall(w, CancelTask(Owner[w], client[w].id, now))

\* The user is told the task, its cards and the end of the reservation.
Report(w) ==
    /\ In(w, "granted") /\ w \in Grabs
    /\ Moves(w, "reserved")
    /\ UNCHANGED vars

-----------------------------------------------------------------------------
(* _execute *)

\* The lease is renewed once before the command starts.  The answer says how
\* long the lease still lasts, from the daemon's reading of the clock.
Confirm(w) ==
    /\ In(w, "granted") /\ w \notin Grabs
    /\ \/ \E now \in Now :
             /\ RenewLease(Owner[w], client[w].id, now)
             /\ \/ /\ reply'.code = "ok" /\ clock - now <= StartStall
                   /\ Becomes(w, [client[w] EXCEPT !.phase = "confirmed",
                                                   !.heard = now])
                \/ reply'.code # "ok" /\ Moves(w, "ending")
                \/ AnswerLost /\ Moves(w, "ending")
       \/ NotArrived /\ Moves(w, "ending")

\* Popen.
StartCommand(w) ==
    /\ In(w, "confirmed")
    /\ \/ Becomes(w, [client[w] EXCEPT !.phase = "running", !.alive = Family,
                                       !.beat = "starting"])
       \/ Becomes(w, [client[w] EXCEPT !.phase = "ending",      \* not found, or
                                       !.heard = None])         \* not runnable
    /\ UNCHANGED vars

\* safe_deadline, a margin before the lease of a renewal of that time ends.
SafeUntil(started) == started + LeaseTTL - Margin

\* Mutant of HeartbeatStarts: the first deadline has no margin.
HeartbeatStartsNoMargin(w) ==
    /\ client[w].beat = "starting"
    /\ Becomes(w, [client[w] EXCEPT !.beat = "healthy", !.heard = None,
                                    !.safeUntil = clock + LeaseTTL])
    /\ UNCHANGED vars

\* The heartbeat's thread runs.  It counts the remaining time from now
\* (client.py:106), not from the renewal that said how much remained.
HeartbeatStarts(w) ==
    /\ client[w].beat = "starting"
    /\ Becomes(w, [client[w] EXCEPT !.beat = "healthy", !.heard = None,
                                    !.safeUntil = SafeUntil(clock)])
    /\ UNCHANGED vars

\* Mutants of Heartbeat: every answer is noted as a failure, or none is.
HeartbeatTakesOkForFailure(w) ==
    /\ client[w].beat = "healthy"
    /\ clock < client[w].safeUntil
    /\ \E now \in Now : RenewLease(Owner[w], client[w].id, now)
    /\ Becomes(w, [client[w] EXCEPT !.beat = reply'.code])
HeartbeatRetriesAll(w) ==
    /\ client[w].beat = "healthy"
    /\ clock < client[w].safeUntil
    /\ \E now \in Now :
          /\ RenewLease(Owner[w], client[w].id, now)
          /\ \/ /\ reply'.code = "ok"
                /\ Becomes(w, [client[w] EXCEPT !.safeUntil = SafeUntil(now)])
             \/ reply'.code # "ok" /\ UNCHANGED client

\* LeaseHeartbeat._run: one renewal.  The deadline counts from when the call was
\* made, which is after the thread started and after every earlier call of it.
\* A 4xx answer fails at once, a transport error is tried again until
\* safe_deadline.
Heartbeat(w) ==
    /\ client[w].beat = "healthy"
    /\ clock < client[w].safeUntil
    /\ \/ \E now \in Now :
             /\ client[w].safeUntil <= SafeUntil(now)
             /\ RenewLease(Owner[w], client[w].id, now)
             /\ \/ /\ reply'.code = "ok"
                   /\ Becomes(w, [client[w] EXCEPT !.safeUntil = SafeUntil(now)])
                \/ /\ reply'.code # "ok"
                   /\ Becomes(w, [client[w] EXCEPT !.beat = reply'.code])
                \/ AnswerLost /\ UNCHANGED client
       \/ /\ NotArrived
          /\ client[w].late = None
          /\ Becomes(w, [client[w] EXCEPT !.late = clock])

HeartbeatExpires(w) ==
    /\ client[w].beat = "healthy"
    /\ clock >= client[w].safeUntil
    /\ Becomes(w, [client[w] EXCEPT !.beat = "expired"])
    /\ UNCHANGED vars

\* The daemon gets to a renewal whose client has long stopped waiting.
LateRenewal(w) ==
    /\ client[w].late # None
    /\ clock - client[w].late <= MaxStall
    /\ RenewLease(Owner[w], client[w].id, client[w].late)
    /\ Becomes(w, [client[w] EXCEPT !.late = None])

Leads(w) == "leader" \in client[w].alive

\* A process of the command ends: by itself, by a signal passed on, on SIGTERM.
Exits(w, p) ==
    /\ p \in client[w].alive
    /\ Becomes(w, [client[w] EXCEPT !.alive = @ \ {p}])
    /\ UNCHANGED vars

\* The main loop sees the heartbeat's failure and sends SIGTERM.
Terminate(w) ==
    /\ In(w, "running")
    /\ Leads(w)
    /\ client[w].beat \notin {"off", "starting", "healthy"}
    /\ Becomes(w, [client[w] EXCEPT !.phase = "stopping",
                                    !.killAt = clock + KillAfter])
    /\ UNCHANGED vars

\* SIGKILL to the group, only if its leader outlived the wait.
Kill(w) ==
    /\ In(w, "stopping")
    /\ Leads(w)
    /\ clock >= client[w].killAt
    /\ Becomes(w, [client[w] EXCEPT !.alive = {}])
    /\ UNCHANGED vars

\* The main loop leaves: the heartbeat is stopped before the release.
CommandGone(w) ==
    /\ client[w].phase \in {"running", "stopping"}
    /\ ~Leads(w)
    /\ Becomes(w, [client[w] EXCEPT !.phase = "ending", !.beat = "off",
                                    !.heard = None, !.safeUntil = None,
                                    !.killAt = None])
    /\ UNCHANGED vars

Release(w) ==
    /\ In(w, "ending")
    /\ \E now \in Now : LastCall(w, ReleaseLease(Owner[w], client[w].id, now))

\* SIGKILL of the wrapper: its threads stop, its command runs on detached.
Crash(w) ==
    /\ client[w].phase \notin {"over", "unsure", "reserved", "crashed"}
    /\ Becomes(w, [client[w] EXCEPT !.phase = "crashed", !.beat = "off",
                                    !.heard = None, !.safeUntil = None,
                                    !.killAt = None])
    /\ UNCHANGED vars

\* The steps of the two threads of a wrapper that nothing holds up: a call they
\* make is answered or fails, as every call has a timeout (api_client.py:121-124).
MainThread(w) ==
    \/ Poll(w) \/ Withdraw(w) \/ Undo(w) \/ Report(w)
    \/ Confirm(w) \/ StartCommand(w)
    \/ Terminate(w) \/ Kill(w) \/ CommandGone(w) \/ Release(w)
HeartbeatThread(w) == HeartbeatStarts(w) \/ Heartbeat(w) \/ HeartbeatExpires(w)

WrapperStep(w) ==
    \/ Acquire(w) \/ GiveUp(w) \/ InterruptedEarly(w)
    \/ MainThread(w) \/ HeartbeatThread(w)
    \/ \E p \in Family : Exits(w, p)

-----------------------------------------------------------------------------
(* The daemon, other users, and time *)

\* gpuctl cancel, by the owner or the administrator.
Cancel ==
    /\ \E u \in Uid, w \in Wrappers, now \in Now :
          client[w].id # None /\ CancelTask(u, client[w].id, now)
    /\ UNCHANGED client

\* What the wrapper does without waiting: the clock does not pass it by.  The
\* start of the command and of the heartbeat's thread may take StartStall.
Due(w) ==
    \/ client[w].heard # None /\ clock - client[w].heard >= StartStall
    \/ client[w].beat = "healthy" /\ clock >= client[w].safeUntil
    \/ In(w, "running") /\ client[w].beat \notin {"off", "starting", "healthy"}
    \/ In(w, "stopping") /\ Leads(w) /\ clock >= client[w].killAt

Time == Tick /\ (\A w \in Wrappers : ~Due(w)) /\ UNCHANGED client

WNext ==
    \/ \E w \in Wrappers : WrapperStep(w) \/ LateRenewal(w) \/ Crash(w)
    \/ Cancel
    \/ Reaper /\ UNCHANGED client
    \/ Time

WSpec == WInit /\ [][WNext]_wvars

-----------------------------------------------------------------------------
(* Correctness. *)

Attached(w) == client[w].phase # "crashed"
Holds(w) == /\ client[w].id \in DOMAIN tables.leases
            /\ tables.leases[client[w].id].cards = client[w].cards

\* Type correctness of the wrappers' part of the state.
ClientTypeOK ==
    client \in [Wrappers ->
        [phase : {"start", "waiting", "withdrawing", "granted", "confirmed",
                  "running", "stopping", "ending", "undoing",
                  "over", "unsure", "reserved", "crashed"},
         id : RequestId \cup {None}, cards : SUBSET Card, alive : SUBSET Family,
         beat : {"off", "starting", "healthy", "expired", "not_found",
                 "forbidden", "task_canceled"},
         heard : Nat \cup {None}, safeUntil : Nat \cup {None},
         killAt : Nat \cup {None}, late : Nat \cup {None}]]

\* Exclusive use: while a wrapper's command runs, whether its heartbeats get
\* through or not, the daemon still has its cards leased to it, so that nobody
\* else is given them.  This is what the margin of the heartbeat is for: it has
\* to cover the time the command may take to die, together with the time it took
\* to start or the age a delayed renewal may have when it takes effect.
HeldWhileRunning == \A w \in Wrappers : Attached(w) /\ Leads(w) => Holds(w)

\* A client that knows how its last call ended leaves nothing behind in the
\* daemon, neither a ticket nor a lease: not a wrapper that gave up or was
\* interrupted, whatever was granted to it meanwhile, and not an interrupted
\* grab, whose reservation no heartbeat would ever end (client.py:622-625).
NothingLeftBehind ==
    \A w \in Wrappers : In(w, "over") =>
        client[w].id \notin Live(tables) \cup DOMAIN tables.leases

\* A canceled task does not run on: its wrapper learns of it and tells the
\* command to stop, or gives up the cards.
Canceled(w) ==
    client[w].id \in Live(tables) /\ tables.requests[client[w].id].status = "canceling"
CanceledStops ==
    \A w \in Wrappers :
        Canceled(w) ~> client[w].phase \in {"stopping", "over", "unsure", "crashed"}

\* Nobody goes on without a lease: when the daemon no longer knows the lease of
\* a running command (it expired, or a new daemon was started), the wrapper finds
\* out and tells the command to stop.
LostLeaseStops ==
    \A w \in Wrappers : In(w, "running") /\ ~Holds(w) ~> ~In(w, "running")

\* README.md:436-438: "A canceled running task continues holding its cards until
\* the wrapper confirms that the command has stopped and releases the lease."
CanceledHolds ==
    \A w \in Wrappers :
        In(w, "stopping") /\ client[w].beat = "task_canceled" /\ Leads(w) => Holds(w)

\* README.md:341-343: the wrapper "terminates the entire child process group and
\* releases the cards".
WholeGroupTerminated ==
    [][\A w \in Wrappers :
          In(w, "stopping") /\ client'[w].phase = "ending" => client'[w].alive = {}]_wvars

\* README.md:369-371, of grab: "It then prints the task ID, allocated cards, and
\* fixed end time before returning".  A grab that has returned without printing
\* has reserved nothing.
GrabTellsOfReservation ==
    \A w \in Grabs : client[w].phase \in {"over", "unsure"} =>
        client[w].id \notin DOMAIN tables.leases
=============================================================================
