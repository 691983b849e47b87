# A verification development of gpuctl

gpuctl shares the GPU cards of one machine among its users. A daemon, `gpuctld`,
keeps a strict first-come-first-served queue and hands out *leases* on cards; a
wrapper, `gpuctl run`, waits for a lease, runs a command on its cards, renews the
lease while the command runs, and gives it back; `gpuctl grab` waits for a lease
and leaves it reserved. This directory holds TLA+ modules that model them and
how they interact, the life of the daemon's socket path, the installer that
restarts the daemon, and the skill installer; the TLC configurations that check
them; and TLAPS proofs.

Paths below are relative to the repository; `manager.py`, `client.py`,
`http_api.py`, `api_client.py`, `server.py` and `skill_installer.py` are in
`src/gpuctl/`.

## 1. Inventory

| Component | State it keeps | Operations | Made correct by |
|---|---|---|---|
| Lease manager (`manager.py`) | four tables under one lock: requests, queue, leases, holders; `_closed` | `create_request`, `get_request`, `cancel_request`, `renew_lease`, `release_lease`, `request_task_cancel`, `status`, `tasks`, `close` | the tables agree; a card has one user; strict order; nothing in part; nothing ends early or at the hands of strangers |
| Reaper (thread of the manager) | a timed wait | expire, schedule, sleep until the soonest deadline | it never oversleeps; it gets cards back with nobody's help |
| HTTP handling (`http_api.py` 123-324) | none | dispatch, who the caller is (peer credentials), exceptions to status codes | every failure reaches the client as the code the client acts on |
| Command wrapper (`client.py` 352-597) | what it knows of its request; the child process group; the heartbeat thread and its safe deadline | acquire, poll, withdraw, confirm, start, heartbeat, terminate, release | the command runs only while the lease holds; cancellation and loss of the lease stop it |
| Reservation client (`client.py` 600-642) | as the wrapper up to the grant | grab: acquire and leave | an interrupted grab leaves no reservation behind |
| Transport (`api_client.py`) | none | one connection and one timeout for each call | - |
| Daemon process, socket path (`server.py`, `http_api.py` 42-120) | the path and the inode of the socket | probe, unlink, bind, remove on shutdown | one live daemon for each path |
| Signals of the wrapper (`client.py` 34-66, 415, 545-571) | the queue of signals, a `threading.Event` with its lock | handler, pop, clear, wait | every signal is acted on, soon, and the loop that looks for cancellations goes on |
| Installer (`install.sh`) | none that outlives it | check that the daemon is idle, install, restart, wait for the new daemon | running tasks survive |
| Skill installer (`skill_installer.py`) | one file for each agent | look at all, refuse, write through temporary files | files stay whole; a user's text is kept |
| Service unit (`gpuctld.service`) | none | start, stop, restart | it keeps starts and stops apart |
| Command line, durations, tables | none | parse, print | - |

How they interact: the wrapper calls the daemon over a Unix socket, one thread
of the daemon for each connection. All handlers and the reaper share the tables
under one condition variable. In the wrapper, the main thread and the heartbeat
thread share the failure queue, and both call the daemon. The child is watched
by the main thread only.

What is hard:

- *Time read before the lock.* A handler reads the clock and then waits for the
  lock. It works with a reading that may be older than readings already acted
  on.
- *Two clocks for one lease.* The daemon ends a lease by its deadline; the wrapper
  decides by its own safe deadline that the lease can no longer be trusted. The
  two move apart when renewals are lost, late or answered into the void.
- *A head of the queue that blocks.* Whatever frees cards has to offer them, and
  nobody may pass the head.
- *Sleeping until a deadline* that other threads move without always notifying.
- *Restart.* The daemon's tables are in memory only.
- *A path that several processes look at, remove and bind*, in steps that others
  come between, with inode numbers that are used again.
- *Checks that are acted on later*: the installer's idle check, the skill
  installer's comparison.
- *Signal handlers* that interrupt the code whose lock they take.

`PROJECT.json` lists the hazards one by one, each at its line.

## 2. Modules

| Module | What it is |
|---|---|
| `GpuPool` | abstract: a pool of cards and one line of members. What the daemon promises. |
| `LeaseManager` | the daemon: every handler, the reaper, close, the clock |
| `LeaseManagerPool` | the refinement mapping from `LeaseManager` to `GpuPool` |
| `LeaseManagerProofs`, `TaskProofs`, `QueueProofs` | theorems about `LeaseManager` |
| `PoolProofs` | `LeaseManager` implements `GpuPool`, proved |
| `Wrapper` | `gpuctl run` and `gpuctl grab`, any number of them, at work with the daemon of `LeaseManager` |
| `Installer` | `install.sh` beside `Wrapper`: the composition of installer, clients and daemon |
| `WrapperProofs` | theorems about `Wrapper` and `Installer` |
| `Signals` | the signals of one wrapper, at the grain of its locks |
| `SignalsProofs` | theorems about `Signals` |
| `SocketPath` | daemon processes that start, stop and are killed on one socket path |
| `SocketPathProofs` | theorems about `SocketPath` |
| `SkillInstaller` | runs of `gpuctl install-skill` beside a user who edits |
| `SkillInstallerProofs` | theorems about `SkillInstaller` |
| `MC*` | small instances for TLC |

### LeaseManager

`tables` is a record of the four tables; a Python dictionary is a function on
the keys it holds. A handler runs under the lock from its first read to its
answer, so it is one action, named as in the code (`CreateRequest`, ...,
`CancelTask` for `request_task_cancel`). Each begins with `Maintain` where the
code calls `_maintain_locked`, ends with `Schedule` where the code calls
`_schedule_locked`, and wakes the reaper (`Notifying`) or not (`Quietly`) as
the code does. `reply` holds the answer, as `http_api.py` 160-181 maps it.

- `now`: a handler may work with any reading in `Now`, that is at most `MaxStall`
  older than the clock. This allows a little more than the code: a caller that
  learned of something only later could not have read the clock before. Where
  that would matter, for calls about a lease, the guard `now >= started` says it.
- A lease id is a 256-bit random token drawn for each grant, and a request is
  granted once: the lease of request `r` is named `r`. `Known` keeps a call from
  naming a lease which that very call has granted.
- A request id may be drawn again once the request is gone, as in the code.
- The ticket deadline of a granted request is never read again, and the model
  forgets it.
- `closed` is final. `Close` models `close()` and not the end of the process:
  handlers already accepted may still run, as the server does not wait for them.
- Not modelled: user names, commands, pids, wall-clock times and the snapshots,
  which only go into answers.

### GpuPool and the mapping

The pool knows only who waits, what each wants, and who has what. One step lets
some members go, lets at most one newcomer join at the end, and serves the front
of the line as far as it goes. `LeaseManagerPool` maps `line` to the queue, `want`
to the demands of the live requests, `held` to the cards of the leases, and states
`Pool!Spec` as the property `ImplementsPool`. On the pool, where no clock bounds
the behaviour, `NoStarvation` is checked under the assumption that each member
that was served leaves in the end.

### Wrapper

One record per client: the phase of `_acquire`, `_execute` or `_grab` it is in, what it knows of
its request, which processes of the command's group are alive, the heartbeat's state and the
times it watches. A call to the daemon and its answer are one step. When the transport may fail
(`Faults`), the call may never arrive (`NotArrived`), its answer may be lost (`AnswerLost`), or
it may still be inside the daemon when the client gives up and be applied later with its old
reading of the clock (`LateRenewal`). What takes time in a call is its wait for the daemon's
lock, so every call works with a reading in `Now`. A reading may be older than the client's own
call before it, which allows more than the code; for the heartbeat, whose deadlines it would
confuse, a guard says that the readings of its calls do not go back. A client whose last call
failed does not know what came of it and ends in phase "unsure"; one that was answered ends in
"over".

- `Grabs` are the processes that run `gpuctl grab`: the same `_acquire`, a fixed
  length, and then `Report`, or `Undo` if a signal came first.
- Seconds are ticks. A step the wrapper takes without waiting is *due* (`Due`),
  and the clock does not pass it. This is an assumption on the scheduling of the
  wrapper's process: that it is not stopped for a whole tick between two
  statements. One exception is made where it matters: from the renewal before
  `Popen` to the first statement of the heartbeat's thread, up to `StartStall`
  ticks may go by. The heartbeat counts the remaining time from its own start
  (`client.py:106`) and not from that renewal, so the margin has to cover the stall.
- `Margin` is the `margin` of `_with_safety_margin`, `KillAfter` is
  `--kill-after`. For a command's lease, `remaining_seconds` in the answer to a
  renewal is the whole TTL.
- A wrapper killed by SIGKILL (`Crash`) leaves its command running; the code can
  do nothing about that and no property speaks of it.

### Installer

`installer` is where `install.sh` has got to: the idle check (`CheckIdle`, lines
182-196), the installation, the restart (`RestartDaemon`), and the loop that waits
for the new daemon (`AwaitReady`), in which a call that fails is made again until the
installer loses patience. A restart that fails (226-229), after which no daemon
answers anybody, is not modelled. The clients of `Wrapper` carry on meanwhile. The
restarted daemon has empty tables. `forced` is `--force-restart`; it is a variable
that never changes, so that one run covers both. The check is of the tables as
they are at that moment; the restart comes later, and `seen` remembers who had a
request when it looked.

### SocketPath

Each system call that `server.py` and `http_api.py` (42-120) make on the path is an
action of its own, so that those of other processes come between. Inode numbers
are drawn from those no open socket uses, and so may be used again. A process may
be killed before any call. `apart` says what whoever starts and stops
daemons sees to: nothing (two terminals), that starts do not overlap, or that
starts and stops do not (systemd runs one process of the unit at a time). The
properties that need it say so in front of `=>`. The daemons run as one user;
`elders` remembers who was serving when a start or a stop began. What is at the path
and is no socket (`Foreign`) was there from the beginning: nobody else writes into that
directory, and so none appears between a daemon's calls. Closing a socket at exit is the
operating system's (`Exit`, external).

### Signals

One wrapper at the grain at which a signal handler can make a difference: the
tests and updates of the deque in `pop`, and the lock that `threading.Event` takes in
`set`, `clear` and `wait`. Handlers run in the main thread on top of what they
interrupt, and nest. `AnyMoment` says whether a signal may come while the lock is
taken. Python does deliver one there: since `Event` is written in Python, its
`with self._cond:` body is a sequence of instructions like any other. The wrapper begins with
a request that waits or with one that was granted at once.

### SkillInstaller

A run looks at the files of all selected agents, plans what to write, and writes
it. Every call may fail, a run may be killed, other runs of the same or another
version may be at work, and a user may write, remove or replace any file at any
time. Texts are members of `Package` and `Edit`. `late` remembers what others changed
after a run looked or wrote; nothing in the code can know it.

## 3. Runs

| Run | Configuration | Checks | Instance |
|---|---|---|---|
| `pool` | `GpuPool.cfg` | `NoStarvation` | 2 cards, 3 members, demands for one named card, any card, both cards |
| `owners` | `LeaseManagerOwners.cfg` | `TypeOK`, `OnlyOwnerEnds`, `FixedDeadlines` | 2 users, 2 requests, reservations of 0 and 2, unknown cards; clock to 3 |
| `queue` | `LeaseManagerQueue.cfg` | `HoldersMatchLeases`, `TablesAgree`, `AllOrNone`, `HeadBlocked`, `NoWaitOnIdleCards`, `ReaperInTime`, `StrictFIFO`, `ImplementsPool` | 2 cards, 3 requests, exact, counted and invalid demands; both TTLs 2, clock to 2 |
| `wrapper_holds` | `WrapperHolds.cfg` | `ClientTypeOK`, `HeldWhileRunning`, `NothingLeftBehind` | a wrapper and a grab, 1 card, faults, an administrator who cancels; TTL 4, margin 3, clock to 6 |
| `installer_stops` | `InstallerStops.cfg` | `CanceledStops`, `LostLeaseStops`, `LapsedLeasesReclaimed`, `OldCommandsSpared` | 1 wrapper, the installer, forced or not, faults, cancellation; clock to 3 |
| `socket` | `SocketPath.cfg` | `TypeOK`, `ServingReachable`, `StartSparesServing`, `StopSparesServing`, `StartRecovers` | 3 processes, 3 inode numbers, all three values of `apart` |
| `skill` | `SkillInstaller.cfg` | `WholeFiles`, `RefusedInWhole`, `DoneIsInstalled`, `OnlyLateEditsLost` | 2 runs, 2 agents, 2 versions, 1 text of the user's |
| `signals` | `Signals.cfg` | `ActedOnAfterOnePoll`, `SignalsActedOn`, `CanceledTerminates` | 3 signals, none while the lock is taken |

What the runs show: the daemon keeps its tables together, serves in strict order
and is a `GpuPool`; a command holds its cards as long as it runs; clients that
know how they ended leave nothing behind; cancellation and loss of the lease get
through; a restart that is not forced spares what the installer could see; whoever
serves on the path is reached, and kills do not keep a daemon from starting;
skill files are never torn; and signals are not lost.

Four runs are expected to end in a violation. Each checks what the repository's
documentation says, and TLC shows a behaviour of the code that does otherwise:

| Run | What is said | What the run shows |
|---|---|---|
| `cancel_holds` | README.md:436-438, a canceled running task keeps its cards until its wrapper "confirms that the command has stopped and releases the lease" | with `--lease-ttl 3`, which the daemon accepts, and the default `--kill-after` of 5s, the lease runs out while the wrapper waits for the command: a canceling lease is not renewed |
| `group` | README.md:341-343, the wrapper "terminates the entire child process group and releases the cards" | the leader exits on SIGTERM, a helper does not, and SIGKILL is never sent (`client.py` 454-461) |
| `restart` | README.md:75-77, of `--force-restart`, "Already-running workloads are not killed and would continue without tracked leases" | the new daemon answers 404 to the heartbeat, which is a failure at once, and the wrapper terminates the command |
| `signals_stuck` | README.md:341-342, after `gpuctl cancel` the wrapper "then terminates the entire child process group" | one signal comes while the main thread holds the event's lock in `clear` or `wait`; its handler calls `event.set()` (`client.py:45`) and waits for ever for the lock of the code it interrupted. The heartbeat thread keeps the lease; the main thread never looks again |

Four more sentences of the documentation are stated as definitions and left out of the
runs, which keep to the commands at work and their cards. The code does otherwise, and
naming one in the configuration given shows it:

| Definition | Configuration | What happens |
|---|---|---|
| `LeaseManager.RenewalMovesForward` (README.md:358-359) | `LeaseManagerQueue.cfg` | two renewals overlap; the one that read the clock first gets the lock last and moves the deadline back (`manager.py` 233, 246) |
| `Wrapper.GrabTellsOfReservation` (README.md:369-371) | `WrapperHolds.cfg` | a grab is interrupted while its lease is granted, its `cancel_task` fails, and it returns with nothing printed and the cards reserved (`client.py:622-625`) |
| `Installer.RestartsOnlyIdle` (README.md:73) | `InstallerStops.cfg` | a task starts between the check and the restart, and nobody forced it (`install.sh` 182-199, 226) |
| `SkillInstaller.ModifiedKept` (README.md:195) | `SkillInstaller.cfg` | a user writes a skill file after the run has looked at it, and the run moves its own over it (`skill_installer.py` 63-83, 106) |

Some properties leave out what the code cannot keep, and the hazards of `PROJECT.json`
say so where it bites. `NothingLeftBehind` is about clients whose last call was
answered: an interrupted grab whose `cancel_task` fails has no second try.
`OldCommandsSpared` is about the clients that had a request when the installer looked;
those that come later lose their leases (`RestartsOnlyIdle`). `OnlyLateEditsLost` is
about what was there at the look; what comes later is overwritten (`ModifiedKept`).
`ServingReachable` and `StartRecovers` are about starts and stops that do not overlap,
`StopSparesServing` about starts that do not; two daemons started at once on a stale
path, or one that starts while another stops, can take the path from each other, and
nothing in the code prevents it (`http_api.py` 64, 102, 116). `ServingReachable` and
`StopSparesServing` fail in `SocketPath.cfg` without the condition in front of them.

Bounds and why they are enough. Two cards are the least for which a demand can be met in
part, and for which a small demand could pass a large one at the head. Three requests
are the least for which one holds, one blocks and one might pass. TTLs of 1 or 2 ticks
with a clock to 2 or 3 let every deadline be met exactly, pass and be moved. In `queue`
both TTLs are 2: a lease may expire while a ticket waits that polling has renewed, and a
ticket may lapse while a lease that was renewed stays. `MaxStall = 1` gives every
handler a reading from before the last tick, which is what an overtaken handler has. In
`wrapper_holds` the TTL, the margin and `KillAfter + MaxStall` differ by one tick each,
so that an off-by-one in any of them would show. In `installer_stops`, whose properties
are about what follows in the end, the numbers are the least with which a lease can be
renewed, be lost and lapse: TTL 2, margin 1, SIGKILL at once. With a second wrapper, so
that a task that waits is among those the installer may see, `OldCommandsSpared` holds
as well (1.4 million states, without the other user), and it is proved for any number of
them. Three processes on a path are one that serves, one that displaces it and one that
is hit; two skill runs of two versions are what an upgrade beside an old copy is; three
signals are one that is handled, one that interrupts its handler, and one that comes
after. `MaxClock` bounds the clock and is the only bound on the behaviours of the
daemon; request ids can be drawn again, so it does not bound calls.

`wrapper_holds` assumes `KillAfter + MaxStall < Margin` and `KillAfter + StartStall <
Margin`. The code does not enforce it: the margin is at most 2 seconds and
`--kill-after` is 5 by default. With these numbers a command that ignores SIGTERM
can outlive its lease when the daemon is out of reach, which README.md:439-440
admits of detached processes; the property is what holds for commands that die
on SIGTERM within the margin.

Deadlock is checked in the daemon's runs, where the reaper and the calls never
all stop. It is not checked in the others: there each process runs once, or the
clock ends.

Fairness. `LeaseManager`, `Wrapper`, `SocketPath` and `SkillInstaller` state none; they
are checked for safety. `IFairSpec` (of `Installer`) assumes weak fairness of
`Reaper`, whose thread is scheduled and gets the lock, which handlers hold for a bounded
time; and of those steps of each wrapper's two threads that get on
(`MainThreadMoves`, `HeartbeatThreadMoves`): both run loops whose waits have timeouts
(`client.py` 120, 415, 571), each call has one (`api_client.py` 121-124), and a call
that is repeated is answered in the end. Were every answer lost for ever,
the main thread would poll for ever. That a command exits, that a user cancels, that a
wrapper gives up, that the clock goes on or the installer comes is never assumed.
`FairSpec` of `Signals` assumes that the main thread runs on and that a lock that is free
is got; not that signals come or the command ends. `FairSpec` of `GpuPool` assumes
that each member that was served leaves in the end, as a pool with no clock must.

## 4. Proofs

### The daemon

`LeaseManagerProofs`, `TaskProofs`, `QueueProofs` and `PoolProofs` prove, for every set of cards,
users, requests and demands, every pair of TTLs and every age of a handler's clock reading:

| Theorem | Statement |
|---|---|
| `TypeCorrect` | `Spec => []TypeOK` |
| `OneHolderPerCard` | `Spec => []HoldersMatchLeases` |
| `TablesConsistent` | `Spec => []TablesAgree` |
| `NoMissedScheduling` | `Spec => []HeadBlocked` |
| `NeverOversleeps` | `Spec => []ReaperInTime` |
| `NoIdleWait` | `Spec => []NoWaitOnIdleCards` |
| `OwnersEndTasks` | `Spec => OnlyOwnerEnds` |
| `DeadlinesStand` | `Spec => FixedDeadlines` |
| `GrantsAreWhole` | `Spec => []AllOrNone` |
| `ServedInOrder` | `Spec => StrictFIFO` |
| `ServesLikeAPool` | `Spec => ImplementsPool` |

Assumptions: those of `LeaseManager`. `CardAssumption` is what the constructor
checks (`manager.py` 94-98), `TimeAssumption` likewise (99-102), `InputAssumption` says that
inputs are what JSON can carry, valid or not, and that the administrator is a user.

The argument. `HoldersMatchLeases` alone is not inductive: a grant to a request that
already has a lease would overwrite that lease and lose its cards. It cannot
happen because a queued request has no lease, which is part of `TablesAgree`; and
that in turn needs the types. Nor is `ReaperInTime` inductive alone. A call that
wakes nobody may grant a lease with an old clock reading, and so with a deadline
below the one the reaper sleeps to, unless something had expired by that reading:
then the reaper's sleep was over by it. If nothing had expired, nothing is granted,
because the head was blocked before: that is `HeadBlocked`. So the five properties
are proved together, as the inductive invariant

    Inv == TypeOK /\ HoldersMatchLeases /\ TablesAgree /\ HeadBlocked /\ ReaperInTime

In terms of the tables alone the first three are `Sound`, the fourth `Blocked`. A lemma
for each operation on tables says what it keeps: `ReleaseSound`, `DropTicketsSound`,
`GrantHeadSound` (one turn of the loop), `ScheduleSound` (the loop ends with a blocked
head, and does nothing to tables whose head is blocked), `MaintainSound`, `EndSound`,
`JoinSound`, `RequestChangedSound`, `RenewedSound`. Then there is one lemma for each
handler and one for the reaper, and `NextInv` puts them together.

`Drop` and `Schedule` are computed by recursive functions. That these functions exist
(`KeptExists`, `TurnsExist`) and what they compute is proved without an induction
theorem, from the least number at which the claim fails (`LeastElement`, itself from
the library's fact that strict inclusion is well founded on finite sets).

`TaskProofs` follows tasks from one state to the next. `Carries(m, n)` says that from
tables `m` to tables `n` tasks only ended or were granted, and that a lease which was there
stayed as it was or went with its task; `Schedule` and `Maintain` are shown to do no more,
and `Maintain` to end only what is due at the reading it was given, which is never ahead
of the clock. `Evolves` adds what a call itself does: who may end a task, and which
lease may be moved. One lemma per call ends in `StepsEvolve`, from which the two action
properties are read off. `NoIdleWait` needs one more invariant, that the demands in the
tables are those that validation let in, and the cardinality of the cards (`CardsCounted`).

`QueueProofs` needs two more facts. A grant takes the first n free cards: the free cards,
each numbered by how many free cards come up to it, are counted without gaps and without
doubles, so those numbered 1 to n are n cards. That every lease has the size its request
asked for (`Whole`) is then kept by each call. And `Serves` says of a step of the tables that
leases stay whole, that whoever is still queued has nobody behind it who was granted, and that
the newcomer of a call, if any, is behind all others (`NewBehind`): it holds of one turn of the
loop, and composes, so it holds of every call. `StrictFIFO` counts a newcomer that is granted at
once among those that came later: it must not pass a ticket that still waits.

`PoolProofs` is the step simulation. `Follows` says of a call that who stays keeps his demand
and his cards (`Stays`), and that at most one task is new, behind all others in the queue
(`Joins`). The pool's step is then given by name: `gone` are those who were live before and are
not after, `arrival` is the newcomer, if any, and what is served is the front of that line up to
the queue that is left, which is the end of the line (`EndOfSequence`, `LineJoined`,
`FrontServed`). What is left to show is that the cards served were free (`UsedAreHeld`), that no
two leases share one (`CardsApart`), that their number is the number wanted (`Whole`), and that
service stopped where the pool would: at a head that cannot be served (`BlockedIsUnservable`,
from `HeadBlocked`). So `Inv` and `Whole` are the invariant under which the mapping holds.
`Staying` of `GpuPool` is a recursive function because it is then the same as `Drop` of the
daemon, and nothing need be proved by induction to see it.

### The socket path

`SocketPathProofs` proves, for any number of daemon processes and inode numbers and all
values of `apart`:

| Theorem | Statement | Invariant |
|---|---|---|
| `SocketTypeCorrect` | `Spec => []TypeOK` | itself |
| `ServersReachable` | `Spec => []ServingReachable` | `ApartInv` |
| `StartsRecover` | `Spec => StartRecovers` | `ApartInv` |
| `StartsSpareServing` | `Spec => StartSparesServing` | `SparingInv` |
| `StopsSpareServing` | `Spec => StopSparesServing` | `StopInv` |

`ApartInv`: at most one process is at work on the path, and each of its calls finds the
path as the call before left it. `SparingInv` assumes nothing of starts and stops: an elder,
that is a daemon which was serving before the start, never comes to serve or to bind again, so a
path that refused a connection cannot be made an elder's after the probe. `StopInv` adds what
the inode test relies on: two open sockets have different numbers, and, as long as starts
do not overlap, what `Stat` records is the own socket's number.

### The skill installer

`SkillInstallerProofs` proves, for any number of runs, agents, versions and texts,
`SkillFilesWhole` (`WholeFiles`), `RefusalsWhole` (`RefusedInWhole`), `SuccessInstalls`
(`DoneIsInstalled`) and `EditsSeenAreKept` (`OnlyLateEditsLost`). The invariant `IInv` adds to
the types, for each run: what is moved to a destination is the whole text; nothing is written
before all has been looked at; every selected agent is still to be looked at, or planned, or has
the text, or was changed by others; and without `--force` a file is planned only where there was
none.

### The clients and the installer

`WrapperProofs` proves, for any number of wrappers and grabs, all their processes, cards and
times, with or without transport faults:

| Theorem | Statement |
|---|---|
| `ClientsTyped` | `WSpec => []ClientTypeOK` |
| `NobodyLeavesBehind` | `WSpec => []NothingLeftBehind` |
| `CommandsKeepCards` | `MarginCovers /\ WSpec => []HeldWhileRunning` |
| `CanceledKeepCards` | `MarginCovers /\ WSpec => []CanceledHolds` |
| `CommandsDoNotMeet` | `MarginCovers /\ WSpec => []CommandsApart` |
| `InstallerSparesCommands` | `MarginCovers /\ ISpec => OldCommandsSpared` |
| `RestartsAreSound` | `ISpec => [](TypeOK /\ HoldersMatchLeases /\ TablesAgree /\ HeadBlocked /\ ReaperInTime)` |
| `RestartsLeaveNothing` | `ISpec => [](ClientTypeOK /\ NothingLeftBehind)` |

`MarginCovers` is the condition of section 3, `KillAfter + MaxStall < Margin` and
`KillAfter + StartStall < Margin`. It is a hypothesis of the theorems that need it and no
assumption of the model: without it the property is false. `WrapperAssumption` is assumed
besides: owners are users, `None` is no request id, the lengths that clients ask for are
among the inputs of the daemon, and the margin is less than the TTL, as `_with_safety_margin`
sees to.

The argument has two halves. The first is what one call does to everybody else. `Spares`
says that from tables to tables no task is new but the named ones, that outside a
named set tasks end only when they are due, and that leases stay as they are; `Persists`
says that who stays keeps his owner, his length and his cards. Both come from `Carries`, `Evolves`
and `Follows` of the daemon's proofs. For each call there is a lemma about what it does for
its caller: `CancelRequestOutcome`, for instance, that a request canceled by its owner is gone
when the call is answered, whatever maintenance did before.

The second half is the invariant. None of the properties is inductive. That a client which is
"over" has nothing left needs that the request is the client's own, or the daemon would have
refused to end it (`Ours`, `Distinct`), and that a client which releases a lease, or undoes a
reservation, is past the queue and of the right kind (`Informed`, `Orderly`). That a command
keeps its lease needs, for each way the client may stand, how long the lease lasts by what
the client goes by:

    TimedStart     the renewal before Popen:   until heard + LeaseTTL
    TimedBeat      a healthy heartbeat:        beyond safeUntil + KillAfter
    TimedFailure   a failed one, not yet seen: beyond clock + KillAfter
    TimedStop      SIGTERM sent:               beyond killAt

Each gives the next one when the client moves. The first gives the second because of
`KillAfter + StartStall < Margin`. The second survives a renewal that is applied late, and so moves
the deadline back, because of `KillAfter + MaxStall < Margin`. The clock preserves all four,
since it does not pass a client by whose turn it is (`Due`). A cancellation preserves them,
since the lease of a canceled command stays as it is until its deadline. `WInv` is the conjunction,
with the daemon's `Inv`; there is one lemma for each action of a client (`...Sane`), and
`ClientSteps` adds that all other clients keep what they had.

The installer's theorem adds that a request which is gone stays gone (`GoneStaysGone`): no
client's request changes, and who asks anew is given an id that no client has. So whatever the
idle check did not find, of those who had a request then, is not there at the
restart either, and `HeldWhileRunning` says that no command runs without a lease.

The restart takes the leases away, so what is said of their time cannot outlive it. All else
does: `WInv` has a parameter, and `IInv` says `WInv(TRUE)` until the restart and `WInv(FALSE)`,
which leaves out the four parts above, for good. `RestartSane` is the step between them: no
client has a task in the empty tables. Hence the last two theorems, in which clients of the old
daemon go on to poll, renew, release and cancel at the new one.

### Signals

`SignalsProofs` proves, for any number of signals:

| Theorem | Statement |
|---|---|
| `OnePollAtMost` | `Spec => []ActedOnAfterOnePoll` |
| `StuckForGood` | `Spec => [](InTop("set") /\ locked => [](locked /\ handlers # <<>> /\ stage # "over"))` |

The first holds wherever signals arrive, also while the lock is taken. Its invariant, `Polled`,
says at which statements of the main loop a poll may have been made with a signal
pending. The second says that what `signals_stuck` shows is no delay: a handler that comes to set
the event while the lock is taken never gets on, and neither does the main thread below it. The
owner of the lock is the main thread or a handler further down (`LockOwned`), and none of these
moves before the handlers above have returned; handlers that nest later find the same lock
taken (`Stuck`). Whether signals may come at such a moment is `AnyMoment`, of which neither
theorem assumes anything; where they may not, the second says nothing.

### Only model-checked

What holds under fairness, which is beyond the prover: `NoStarvation`, `CanceledStops`,
`LostLeaseStops`, `LapsedLeasesReclaimed`, `SignalsActedOn`, `CanceledTerminates`. Every other
property of the passing runs is proved as well.

## 5. Plan

Done, in this order: `LeaseManager` (the core), `GpuPool` and the refinement, `Wrapper`
with grab and with a slow start of the command, `SocketPath`, `Installer`, `SkillInstaller`,
`Signals`, and the theorems above.

Every safety and action property of the passing runs has its theorem. Left: the conditions under
which the refuted sentences of the documentation do hold. `CanceledKeepCards` gives that of
`cancel_holds`, and `CanceledTerminates` in `signals` that of `signals_stuck`;
`RestartsOnlyIdle` and `ModifiedKept` hold when nothing comes between the look and the deed; the
restart (`RestartKillsNobody`) holds of commands that end before their next heartbeat, and the
process group of commands that have no second process.

## 6. Not modelled

- Parsing of arguments, durations, JSON and HTTP headers, and the layout of output:
  functions of their input without state that other parts read back. The dispatch of
  `http_api.py`, the caller's identity and the code each exception becomes are in the
  actions of `LeaseManager`.
- The connections themselves (`api_client.py`): what they do to a call is the faults of
  `Wrapper`.
- What `install.sh` does besides the check and the restart: building, `pip`, links, the
  unit and its configuration file. They touch no task.
- The service unit: what it keeps apart is `apart` in `SocketPath`.
- Operating-system failures of the daemon itself (out of memory, threads that cannot
  be started).
