---------------------------- MODULE SignalsProofs ----------------------------
(***************************************************************************)
(* Proofs about how a wrapper takes its signals, for any number of them.   *)
(***************************************************************************)
EXTENDS Signals, TLAPS

-----------------------------------------------------------------------------
(* Where the main thread is. *)

Staged ==
    /\ stage \in {"queued", "granted", "running", "over"}
    /\ got \in BOOLEAN
    /\ stage = "over" => pc = "end"

LEMMA AlwaysStaged ==
    /\ Init => Staged
    /\ Staged /\ [Next]_vars => Staged'
<1>1. Init => Staged
  BY DEF Init, Staged
<1>2. Staged /\ [Next]_vars => Staged'
  <2> SUFFICES ASSUME Staged, [Next]_vars
               PROVE  Staged'
    OBVIOUS
  <2> USE DEF Staged, At, Goes, Enters
  <2>1. CASE Pop \/ PopLeft \/ Empty \/ Clear
    BY <2>1 DEF Pop, PopLeft, Empty, Clear
  <2>2. CASE Popped
    <3>1. stage # "over" /\ got' = got
      BY <2>2 DEF Popped
    <3>2. \/ stage' = stage
          \/ stage' \in {"running", "over"} /\ (stage' = "over" => pc' = "end")
      BY <2>2, <3>1 DEF Popped
    <3>3. QED
      BY <3>1, <3>2
  <2>3. CASE Wait \/ Blocked \/ Poll
    BY <2>3 DEF Wait, Blocked, Poll
  <2>4. CASE Child \/ ChildWait
    BY <2>4 DEF Child, ChildWait
  <2>5. CASE Handle \/ Arrives \/ CommandExits \/ BeatFails \/ UNCHANGED vars
    BY <2>5 DEF Handle, Arrives, CommandExits, BeatFails, mvars, vars
  <2>6. QED
    BY <2>1, <2>2, <2>3, <2>4, <2>5 DEF Next, MainThread
<1>3. QED
  BY <1>1, <1>2

\* What the main thread does with a result of pop, and that it has no lock then.
LEMMA PoppedGoes ==
    ASSUME Staged, Popped
    PROVE  /\ pc = "popped" /\ pc' \in {"child_wait", "end", "wait", "child"}
           /\ UNCHANGED <<handlers, pending, locked, polls>> /\ handlers = <<>>
<1>1. pc = "popped" /\ stage # "over" /\ handlers = <<>>
  BY DEF Popped, At, Staged
<1>2. QED
  BY <1>1 DEF Popped, Staged, Goes, Enters, evars

-----------------------------------------------------------------------------
(* One poll. *)

\* A poll that was made with a signal pending is followed by the pop that takes
\* it, whatever else arrives: pending falls in PopLeft only.
Polled ==
    /\ pending \in Nat /\ polls \in {0, 1}
    /\ pc = "popleft" => pending > 0
    /\ polls = 1 => pending > 0 /\ pc \in {"pop", "popleft", "end"}

\* A signal that comes before the flag is cleared is acted on after one more poll
\* of the daemon at the most, for any number of signals and wherever they arrive.
THEOREM OnePollAtMost == Spec => []ActedOnAfterOnePoll
<1>1. Init => Polled
  BY DEF Init, Polled
<1>2. Staged /\ Polled /\ [Next]_vars => Polled'
  <2> SUFFICES ASSUME Staged, Polled, [Next]_vars
               PROVE  Polled'
    OBVIOUS
  <2> USE DEF Polled
  <2>1. CASE Pop
    BY <2>1 DEF Pop, At, Goes
  <2>2. CASE PopLeft
    BY <2>2 DEF PopLeft, At, Goes
  <2>3. CASE Empty
    BY <2>3 DEF Empty, At, Goes
  <2>4. CASE Clear
    BY <2>4 DEF Clear, At, Goes
  <2>5. CASE Popped
    BY <2>5, PoppedGoes
  <2>6. CASE Wait \/ Blocked
    BY <2>6 DEF Wait, Blocked, At, Goes
  <2>7. CASE Poll
    BY <2>7 DEF Poll, At, Goes, Enters
  <2>8. CASE Child \/ ChildWait
    BY <2>8 DEF Child, ChildWait, At, Goes, Enters
  <2>9. CASE Handle
    BY <2>9 DEF Handle, mvars
  <2>10. CASE Arrives \/ CommandExits \/ BeatFails \/ UNCHANGED vars
    BY <2>10 DEF Arrives, CommandExits, BeatFails, mvars, vars
  <2>11. QED
    BY <2>1, <2>2, <2>3, <2>4, <2>5, <2>6, <2>7, <2>8, <2>9, <2>10 DEF Next, MainThread
<1>3. Polled => ActedOnAfterOnePoll
  BY DEF Polled, ActedOnAfterOnePoll
<1>4. QED
  BY <1>1, <1>2, <1>3, AlwaysStaged, PTL DEF Spec

-----------------------------------------------------------------------------
(* The lock of event. *)

\* The main thread has it in clear and wait, a handler in set.
Holding == {"cleared", "unlock", "wait_test", "wait_unlock", "timed_out"}
Has == {"setting", "unlock"}
HandlerSteps == {"append", "set"} \cup Has

\* The lock is taken exactly when the main thread or one of the handlers has it,
\* and no two of them have; and signals do not come when all is over.
LockOwned ==
    /\ handlers \in Seq(HandlerSteps)
    /\ locked <=> \/ pc \in Holding
                  \/ \E i \in DOMAIN handlers : handlers[i] \in Has
    /\ \A i \in DOMAIN handlers : handlers[i] \in Has => pc \notin Holding
    /\ \A i, j \in DOMAIN handlers :
           handlers[i] \in Has /\ handlers[j] \in Has => i = j
    /\ handlers # <<>> => stage # "over"

LEMMA TopAndBelow ==
    ASSUME LockOwned, handlers # <<>>
    PROVE  /\ Len(handlers) \in Nat \ {0} /\ DOMAIN handlers = 1 .. Len(handlers)
           /\ Top = handlers[Len(handlers)] /\ Len(Below) = Len(handlers) - 1
           /\ Below \in Seq(HandlerSteps)
           /\ \A i \in 1 .. Len(handlers) - 1 : Below[i] = handlers[i]
<1>1. /\ Len(handlers) \in Nat \ {0} /\ DOMAIN handlers = 1 .. Len(handlers)
      /\ handlers \in Seq(HandlerSteps)
  BY DEF LockOwned
<1>2. Below = [i \in 1 .. Len(handlers) - 1 |-> handlers[i]]
  BY <1>1 DEF Below
<1>3. QED
  BY <1>1, <1>2 DEF Top

LEMMA AlwaysOwned ==
    /\ Init => LockOwned
    /\ Staged /\ LockOwned /\ [Next]_vars => LockOwned'
<1>1. Init => LockOwned
  BY DEF Init, LockOwned, Holding
<1>2. Staged /\ LockOwned /\ [Next]_vars => LockOwned'
  <2> SUFFICES ASSUME Staged, LockOwned, [Next]_vars
               PROVE  LockOwned'
    OBVIOUS
  <2>0. Staged'
    BY AlwaysStaged
  <2> USE <2>0 DEF LockOwned, Holding, Has
  <2>1. CASE Pop \/ PopLeft \/ Empty
    BY <2>1 DEF Pop, PopLeft, Empty, At, Goes, evars
  <2>2. CASE Clear
    BY <2>2 DEF Clear, At, Goes
  <2>3. CASE Popped
    BY <2>3, PoppedGoes
  <2>4. CASE Wait
    BY <2>4 DEF Wait, At, Goes
  <2>5. CASE Blocked
    BY <2>5 DEF Blocked, At, Goes
  <2>6. CASE Poll \/ Child \/ ChildWait
    BY <2>6 DEF Poll, Child, ChildWait, At, Goes, Enters, evars
  <2>7. CASE Handle
    <3> DEFINE n == Len(handlers)
    <3>1. handlers # <<>> /\ pc' = pc /\ stage' = stage
      BY <2>7 DEF Handle, mvars, InTop
    <3>2. /\ n \in Nat \ {0} /\ DOMAIN handlers = 1 .. n
          /\ Top = handlers[n] /\ Len(Below) = n - 1 /\ Below \in Seq(HandlerSteps)
          /\ \A i \in 1 .. n - 1 : Below[i] = handlers[i]
      BY <3>1, TopAndBelow
    <3> HIDE DEF n
    <3>3. ASSUME NEW step \in HandlerSteps, handlers' = Append(Below, step)
          PROVE  /\ handlers' \in Seq(HandlerSteps) /\ DOMAIN handlers' = 1 .. n
                 /\ handlers'[n] = step
                 /\ \A i \in 1 .. n - 1 : handlers'[i] = handlers[i]
      BY <3>2, <3>3
    <3>d. \A i \in 1 .. n : i = n \/ i \in 1 .. n - 1
      BY <3>2
    <3>o. /\ locked <=> pc \in Holding \/ \E i \in 1 .. n : handlers[i] \in Has
          /\ \A i \in 1 .. n : handlers[i] \in Has => pc \notin Holding
          /\ \A i, j \in 1 .. n :
                 handlers[i] \in Has /\ handlers[j] \in Has => i = j
          /\ n \in 1 .. n /\ stage # "over" /\ n \notin 1 .. n - 1 /\ 1 .. n - 1 \subseteq 1 .. n
      BY <3>1, <3>2
    <3>4. CASE InTop("append") /\ handlers' = Append(Below, "set") /\ locked' = locked
      <4>1. /\ handlers' \in Seq(HandlerSteps) /\ DOMAIN handlers' = 1 .. n
            /\ handlers'[n] = "set"
            /\ \A i \in 1 .. n - 1 : handlers'[i] = handlers[i]
        BY <3>3, <3>4 DEF HandlerSteps
      <4>2. handlers[n] = "append" /\ locked' = locked
        BY <3>2, <3>4 DEF InTop
      <4>3. QED
        BY <3>1, <3>d, <3>o, <4>1, <4>2
    <3>5. CASE InTop("set") /\ ~locked /\ handlers' = Append(Below, "setting") /\ locked'
      <4>1. /\ handlers' \in Seq(HandlerSteps) /\ DOMAIN handlers' = 1 .. n
            /\ handlers'[n] = "setting"
            /\ \A i \in 1 .. n - 1 : handlers'[i] = handlers[i]
        BY <3>3, <3>5 DEF HandlerSteps
      <4>2. handlers[n] = "set" /\ ~locked /\ locked'
        BY <3>2, <3>5 DEF InTop
      <4>3. QED
        BY <3>1, <3>d, <3>o, <4>1, <4>2
    <3>6. CASE InTop("setting") /\ handlers' = Append(Below, "unlock") /\ locked' = locked
      <4>1. /\ handlers' \in Seq(HandlerSteps) /\ DOMAIN handlers' = 1 .. n
            /\ handlers'[n] = "unlock"
            /\ \A i \in 1 .. n - 1 : handlers'[i] = handlers[i]
        BY <3>3, <3>6 DEF HandlerSteps
      <4>2. handlers[n] = "setting" /\ locked' = locked
        BY <3>2, <3>6 DEF InTop
      <4>3. QED
        BY <3>1, <3>d, <3>o, <4>1, <4>2
    <3>7. CASE InTop("unlock") /\ handlers' = Below /\ ~locked'
      <4>1. /\ DOMAIN handlers' = 1 .. n - 1 /\ handlers' \in Seq(HandlerSteps)
            /\ \A i \in 1 .. n - 1 : handlers'[i] = handlers[i]
        BY <3>2, <3>7
      <4>2. handlers[n] = "unlock" /\ ~locked'
        BY <3>2, <3>7 DEF InTop
      <4>3. QED
        BY <3>1, <3>d, <3>o, <4>1, <4>2
    <3>8. QED
      BY <2>7, <3>4, <3>5, <3>6, <3>7 DEF Handle, evars
  <2>8. CASE Arrives
    <3>1. /\ handlers' = Append(handlers, "append") /\ stage # "over"
          /\ pc' = pc /\ locked' = locked /\ stage' = stage
      BY <2>8 DEF Arrives, mvars, evars
    <3>2. /\ handlers' \in Seq(HandlerSteps) /\ Len(handlers) \in Nat
          /\ DOMAIN handlers = 1 .. Len(handlers) /\ DOMAIN handlers' = 1 .. Len(handlers) + 1
          /\ handlers'[Len(handlers) + 1] = "append"
          /\ \A i \in 1 .. Len(handlers) : handlers'[i] = handlers[i]
      BY <3>1 DEF HandlerSteps
    <3>3. QED
      BY <3>1, <3>2
  <2>9. CASE CommandExits \/ BeatFails \/ UNCHANGED vars
    BY <2>9 DEF CommandExits, BeatFails, mvars, evars, vars
  <2>10. QED
    BY <2>1, <2>2, <2>3, <2>4, <2>5, <2>6, <2>7, <2>8, <2>9 DEF Next, MainThread
<1>3. QED
  BY <1>1, <1>2

\* A handler waits for the lock, and who has it is what was interrupted.
Stuck ==
    \E i \in DOMAIN handlers :
        /\ handlers[i] = "set"
        /\ pc \in Holding \/ \E j \in 1 .. i - 1 : handlers[j] \in Has

\* Only what it has interrupted can have the lock that a handler waits for, be it
\* the main thread or another handler; and then the handler never returns: the
\* lock stays taken, and the wrapper neither looks at its command or at its
\* heartbeat again nor comes to its end, whatever signals come later.
THEOREM StuckForGood ==
    Spec => [](InTop("set") /\ locked => [](locked /\ handlers # <<>> /\ stage # "over"))
<1> DEFINE Meets == InTop("set") /\ locked
           Hangs == locked /\ handlers # <<>> /\ stage # "over"
<1>1. LockOwned /\ Meets => Stuck
  <2> SUFFICES ASSUME LockOwned, Meets
               PROVE  Stuck
    OBVIOUS
  <2>1. /\ Len(handlers) \in DOMAIN handlers /\ DOMAIN handlers = 1 .. Len(handlers)
        /\ handlers[Len(handlers)] = "set" /\ Len(handlers) \in Nat
    BY TopAndBelow DEF InTop
  <2>2. QED
    BY <2>1 DEF LockOwned, Stuck, Has
<1>2. LockOwned /\ Stuck => Hangs
  <2> SUFFICES ASSUME LockOwned, Stuck
               PROVE  Hangs
    OBVIOUS
  <2>1. DOMAIN handlers = 1 .. Len(handlers) /\ Len(handlers) \in Nat
    BY DEF LockOwned
  <2>2. PICK i \in DOMAIN handlers :
            pc \in Holding \/ \E j \in 1 .. i - 1 : handlers[j] \in Has
    BY DEF Stuck
  <2>3. handlers # <<>>
    BY <2>2
  <2>4. QED
    BY <2>1, <2>2, <2>3 DEF LockOwned
<1>3. LockOwned /\ Stuck /\ [Next]_vars => Stuck'
  <2> SUFFICES ASSUME LockOwned, Stuck, [Next]_vars
               PROVE  Stuck'
    OBVIOUS
  <2>1. locked /\ handlers # <<>>
    BY <1>2
  <2>2. PICK i \in DOMAIN handlers :
            /\ handlers[i] = "set"
            /\ pc \in Holding \/ \E j \in 1 .. i - 1 : handlers[j] \in Has
    BY DEF Stuck
  <2> DEFINE n == Len(handlers)
  <2>3. /\ n \in Nat \ {0} /\ DOMAIN handlers = 1 .. n
        /\ Top = handlers[n] /\ Len(Below) = n - 1 /\ Below \in Seq(HandlerSteps)
        /\ \A k \in 1 .. n - 1 : Below[k] = handlers[k]
    BY <2>1, TopAndBelow
  <2>4. /\ ~(Pop \/ PopLeft \/ Empty \/ Clear \/ Popped)
        /\ ~(Wait \/ Blocked \/ Poll \/ Child \/ ChildWait)
    BY <2>1 DEF Pop, PopLeft, Empty, Clear, Popped, Wait, Blocked, Poll, Child,
                ChildWait, At
  <2>5. CASE Handle
    <3>1. pc' = pc /\ i # n
      BY <2>1, <2>2, <2>3, <2>5 DEF Handle, mvars, InTop
    <3>2. \/ handlers' = Below
          \/ \E step \in HandlerSteps : handlers' = Append(Below, step)
      BY <2>5 DEF Handle, HandlerSteps, Has
    <3>3. /\ 1 .. n - 1 \subseteq DOMAIN handlers'
          /\ \A k \in 1 .. n - 1 : handlers'[k] = handlers[k]
      BY <2>3, <3>2
    <3>4. i \in 1 .. n - 1 /\ 1 .. i - 1 \subseteq 1 .. n - 1
      BY <2>2, <2>3, <3>1
    <3> HIDE DEF n
    <3>5. QED
      BY <2>2, <3>1, <3>3, <3>4 DEF Stuck
  <2>6. CASE Arrives
    <3>1. handlers' = Append(handlers, "append") /\ pc' = pc
      BY <2>6 DEF Arrives, mvars
    <3>2. /\ 1 .. n \subseteq DOMAIN handlers'
          /\ \A k \in 1 .. n : handlers'[k] = handlers[k]
      BY <2>3, <3>1 DEF LockOwned
    <3>3. QED
      BY <2>2, <2>3, <3>1, <3>2 DEF Stuck
  <2>7. CASE CommandExits \/ BeatFails \/ UNCHANGED vars
    BY <2>7 DEF CommandExits, BeatFails, mvars, vars, Stuck
  <2>8. QED
    BY <2>4, <2>5, <2>6, <2>7 DEF Next, MainThread
<1>4. QED
  BY <1>1, <1>2, <1>3, AlwaysStaged, AlwaysOwned, PTL DEF Spec
=============================================================================
