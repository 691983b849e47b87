------------------------------ MODULE Signals ------------------------------
(***************************************************************************)
(* How "gpuctl run" takes its signals (SignalState of src/gpuctl/client.py, *)
(* the polling loop of _acquire and the loop of _execute).  Python runs a  *)
(* signal's handler in the main thread, between two steps of whatever that *)
(* is doing; it does not go on before the handler has returned.            *)
(*                                                                         *)
(* event is a threading.Event: a flag, and a lock that is taken to set,    *)
(* clear and test it, and that its own holder cannot take a second time.   *)
(* The main thread's steps are those between which a handler makes a       *)
(* difference; the wrapper's calls to the daemon are steps of Wrapper.     *)
(***************************************************************************)
EXTENDS Naturals, Sequences

CONSTANTS
    MaxSignals,     \* bound: the signals that arrive
    AnyMoment       \* may they arrive while the lock of event is taken?

ASSUME SignalsAssumption == MaxSignals \in Nat /\ AnyMoment \in BOOLEAN

VARIABLES
    stage,      \* "queued" in _acquire, "granted" and "running" in _execute, "over"
    pc,         \* what the main thread does next
    got,        \* does the pop that is under way return a signal?
    handlers,   \* the handlers that interrupt it, the innermost last
    pending,    \* how many signals are in _pending
    flag,       \* event's flag
    locked,     \* is event's lock taken?
    arrived,    \* how many signals have arrived
    child,      \* the command: "none", "alive", "gone"
    beat,       \* has the heartbeat failed, as it does when the task is canceled?
    polls       \* history: get_request calls since a signal is pending, up to 2

mvars == <<stage, pc, got>>
evars == <<flag, locked>>
vars == <<mvars, handlers, pending, evars, arrived, child, beat, polls>>

\* create_request has been answered: queued, or granted at once.
Init ==
    /\ stage \in {"queued", "granted"} /\ pc = "pop" /\ got = FALSE
    /\ handlers = <<>> /\ pending = 0
    /\ flag = FALSE /\ locked = FALSE
    /\ arrived = 0 /\ child = "none" /\ beat = "healthy" /\ polls = 0

At(step) == pc = step /\ handlers = <<>>
Goes(step) == pc' = step /\ UNCHANGED stage
Enters(s, step) == stage' = s /\ pc' = step

-----------------------------------------------------------------------------
(* pop *)

\* Mutant of Pop: the flag is asked, not the queue.
PopAsksFlag ==
    /\ At("pop")
    /\ Goes(IF flag THEN "popleft" ELSE "clear")
    /\ got' = FALSE
    /\ UNCHANGED <<handlers, pending, evars, arrived, child, beat, polls>>

Pop ==
    /\ At("pop")
    /\ Goes(IF pending = 0 THEN "clear" ELSE "popleft")
    /\ got' = FALSE
    /\ UNCHANGED <<handlers, pending, evars, arrived, child, beat, polls>>

PopLeft ==
    /\ At("popleft")
    /\ pending' = pending - 1
    /\ polls' = 0
    /\ got' = TRUE
    /\ Goes("empty")
    /\ UNCHANGED <<handlers, evars, arrived, child, beat>>

Empty ==
    /\ At("empty")
    /\ Goes(IF pending = 0 THEN "clear" ELSE "popped")
    /\ UNCHANGED <<got, handlers, pending, evars, arrived, child, beat, polls>>

\* event.clear(), though a signal may be pending by now.
Clear ==
    /\ \/ At("clear") /\ ~locked /\ locked' = TRUE /\ Goes("cleared") /\ UNCHANGED flag
       \/ At("cleared") /\ flag' = FALSE /\ Goes("unlock") /\ UNCHANGED locked
       \/ At("unlock") /\ locked' = FALSE /\ Goes("popped") /\ UNCHANGED flag
    /\ UNCHANGED <<got, handlers, pending, arrived, child, beat, polls>>

\* What the caller makes of the result: _acquire gives up; _execute releases the
\* lease before it has started the command, and passes the signal on after that.
Popped ==
    /\ At("popped")
    /\ CASE stage = "running" -> Goes("child_wait") /\ UNCHANGED child
         [] stage # "running" /\ got -> Enters("over", "end") /\ UNCHANGED child
         [] stage = "queued" /\ ~got -> Goes("wait") /\ UNCHANGED child
         [] stage = "granted" /\ ~got ->
                \/ Enters("running", "child") /\ child' = "alive"
                \/ Enters("over", "end") /\ UNCHANGED child     \* no lease, no Popen
    /\ UNCHANGED <<got, handlers, pending, evars, arrived, beat, polls>>

-----------------------------------------------------------------------------
(* The polling loop *)

\* Mutant of Blocked: the wait has no timeout.
BlockedForever ==
    /\ At("blocked") /\ flag /\ ~locked
    /\ locked' = TRUE /\ Goes("wait_unlock")
    /\ UNCHANGED <<got, handlers, pending, flag, arrived, child, beat, polls>>

\* event.wait sleeps with the lock released, until the flag is set or wait_for
\* is over.
Blocked ==
    /\ At("blocked") /\ ~locked
    /\ locked' = TRUE
    /\ Goes(IF flag THEN "wait_unlock" ELSE "timed_out")
    /\ UNCHANGED <<got, handlers, pending, flag, arrived, child, beat, polls>>

Wait ==
    /\ \/ At("wait") /\ ~locked /\ locked' = TRUE /\ Goes("wait_test")
       \/ /\ At("wait_test")
          /\ IF flag THEN Goes("wait_unlock") /\ UNCHANGED locked
                     ELSE Goes("blocked") /\ locked' = FALSE
       \/ At("wait_unlock") /\ locked' = FALSE /\ Goes("pop")
       \/ At("timed_out") /\ locked' = FALSE /\ Goes("poll")
    /\ UNCHANGED <<got, handlers, pending, flag, arrived, child, beat, polls>>

\* get_request: still queued or out of reach, granted, or the end.
Poll ==
    /\ At("poll")
    /\ \/ Goes("pop")
       \/ Enters("granted", "pop")
       \/ Enters("over", "end")
    /\ polls' = IF pending > 0 /\ polls < 2 THEN polls + 1 ELSE polls
    /\ UNCHANGED <<got, handlers, pending, evars, arrived, child, beat>>

-----------------------------------------------------------------------------
(* The loop of _execute *)

\* The command has ended, or its heartbeat failed and _terminate_process ends it;
\* else the next signal is looked for.
Child ==
    /\ At("child")
    /\ CASE child = "gone" -> Enters("over", "end") /\ UNCHANGED child
         [] child # "gone" /\ beat = "failed" ->
                Enters("over", "end") /\ child' = "gone"
         [] OTHER -> Goes("pop") /\ UNCHANGED child
    /\ UNCHANGED <<got, handlers, pending, evars, arrived, beat, polls>>

\* Mutant of ChildWait: until the command ends.
ChildWaitForever ==
    /\ At("child_wait") /\ child = "gone"
    /\ Goes("child")
    /\ UNCHANGED <<got, handlers, pending, evars, arrived, child, beat, polls>>

\* process.wait, for a tenth of a second at most.
ChildWait ==
    /\ At("child_wait")
    /\ Goes("child")
    /\ UNCHANGED <<got, handlers, pending, evars, arrived, child, beat, polls>>

-----------------------------------------------------------------------------
(* The handler *)

Top == handlers[Len(handlers)]
Below == SubSeq(handlers, 1, Len(handlers) - 1)
InTop(step) == handlers # <<>> /\ Top = step

\* A signal interrupts the main thread, or a handler.
Arrives ==
    /\ stage # "over"
    /\ arrived < MaxSignals
    /\ AnyMoment \/ ~locked
    /\ arrived' = arrived + 1
    /\ handlers' = Append(handlers, "append")
    /\ UNCHANGED <<mvars, pending, evars, child, beat, polls>>

\* _pending.append and event.set(), which waits for the lock, also when what it
\* has interrupted holds it.
Handle ==
    /\ \/ /\ InTop("append")
          /\ pending' = pending + 1
          /\ handlers' = Append(Below, "set")
          /\ UNCHANGED evars
       \/ /\ InTop("set") /\ ~locked
          /\ locked' = TRUE
          /\ handlers' = Append(Below, "setting")
          /\ UNCHANGED <<flag, pending>>
       \/ /\ InTop("setting")
          /\ flag' = TRUE
          /\ handlers' = Append(Below, "unlock")
          /\ UNCHANGED <<locked, pending>>
       \/ /\ InTop("unlock")
          /\ locked' = FALSE
          /\ handlers' = Below
          /\ UNCHANGED <<flag, pending>>
    /\ UNCHANGED <<mvars, arrived, child, beat, polls>>

CommandExits ==
    /\ child = "alive"
    /\ child' = "gone"
    /\ UNCHANGED <<mvars, handlers, pending, evars, arrived, beat, polls>>

\* A renewal is answered with task_canceled, or the lease is lost.
BeatFails ==
    /\ stage = "running" /\ beat = "healthy"
    /\ beat' = "failed"
    /\ UNCHANGED <<mvars, handlers, pending, evars, arrived, child, polls>>

MainThread ==
    \/ Pop \/ PopLeft \/ Empty \/ Clear \/ Popped
    \/ Wait \/ Blocked \/ Poll \/ Child \/ ChildWait
    \/ Handle

Next == MainThread \/ Arrives \/ CommandExits \/ BeatFails

Spec == Init /\ [][Next]_vars

\* The main thread runs on, its waits end, and a lock that is free is got.
FairSpec == Spec /\ WF_vars(MainThread)

-----------------------------------------------------------------------------
(* Correctness. *)

\* A signal that comes between the test of the queue and the clearing of the
\* flag does not end the wait, but it is not forgotten: the polling loop asks
\* the daemon once at the most before it acts on it.
ActedOnAfterOnePoll == polls < 2

\* Every signal is acted on, by giving up, by releasing the lease, or by passing
\* it on to the command, unless the wrapper is at its end anyway.
SignalsActedOn == pending > 0 ~> pending = 0 \/ stage = "over"

\* README.md:341-342, of the cancellation of a running task: the wrapper "then
\* terminates the entire child process group and releases the cards".
CanceledTerminates == beat = "failed" ~> stage = "over"
=============================================================================
