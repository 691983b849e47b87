-------------------------- MODULE SocketPathProofs --------------------------
(* Theorems about SocketPath, for any number of processes and inodes. *)
EXTENDS SocketPath, TLAPS

USE PathAssumption

Active(d) == Starting(d) \/ Stopping(d)

-----------------------------------------------------------------------------
(* Type correctness *)

LEMMA TypeInit == Init => TypeOK
  BY DEF Init, TypeOK, Call

LEMMA TypeStep == TypeOK /\ [Next]_vars => TypeOK'
<1> SUFFICES ASSUME TypeOK, [Next]_vars PROVE TypeOK'
  OBVIOUS
<1>0. apart' = apart
  BY DEF Next, vars
<1> USE <1>0 DEF TypeOK, At, Goes, Call
<1>1. CASE UNCHANGED vars
  BY <1>1 DEF vars
<1>2. ASSUME NEW d \in Daemon, Start(d) PROVE TypeOK'
  BY <1>2 DEF Start, Serving
<1>3. ASSUME NEW d \in Daemon, Look(d) \/ Lstat(d) \/ Probe(d) PROVE TypeOK'
  BY <1>3 DEF Look, Lstat, Probe
<1>4. ASSUME NEW d \in Daemon, Unlink(d) \/ Remove(d) PROVE TypeOK'
  BY <1>4 DEF Unlink, Remove
<1>5. ASSUME NEW d \in Daemon, Bind(d) PROVE TypeOK'
  <2>1. CASE path # None
    BY <1>5, <2>1 DEF Bind
  <2>2. CASE path = None
    <3>1. /\ pc' = [pc EXCEPT ![d] = "listen"]
          /\ path' = d /\ open' = open \cup {d}
          /\ UNCHANGED <<recorded, elders>>
      BY <1>5, <2>2 DEF Bind
    <3>2. PICK n \in Inode : number' = [number EXCEPT ![d] = n]
      BY <1>5, <2>2 DEF Bind
    <3> QED BY <3>1, <3>2
  <2> QED BY <2>1, <2>2
<1>6. ASSUME NEW d \in Daemon, Listen(d) \/ Chmod(d) \/ Check(d) PROVE TypeOK'
  BY <1>6 DEF Listen, Chmod, Check
<1>7. ASSUME NEW d \in Daemon, Stat(d) PROVE TypeOK'
  BY <1>7 DEF Stat
<1>8. ASSUME NEW d \in Daemon, Shutdown(d) PROVE TypeOK'
  BY <1>8 DEF Shutdown, Serving
<1>9. ASSUME NEW d \in Daemon, Exit(d) \/ Kill(d) PROVE TypeOK'
  BY <1>9 DEF Exit, Kill
<1> QED
  BY <1>1, <1>2, <1>3, <1>4, <1>5, <1>6, <1>7, <1>8, <1>9 DEF Next, Step

\* The variables of every process keep their types, only a running process that
\* has bound its socket has it open, and nobody serves without the number of a
\* socket to compare with when it stops.
THEOREM SocketTypeCorrect == Spec => []TypeOK
  BY TypeInit, TypeStep, PTL DEF Spec
-----------------------------------------------------------------------------
(* Starts and stops that do not overlap *)

\* At most one process starts or stops.  From the moment a start has found the
\* path free, or has freed it, nobody serves; from bind on the path is its own.
\* Nobody begins to serve while a start is under way, and what it found at the path
\* stays as it was.
Apart == StartsApart /\ StopsApart
OneActive ==
    \A d, e \in Daemon : Active(d) /\ Active(e) => d = e
PathFreed ==
    \A d \in Daemon :
        pc[d] \in {"unlink", "bind", "listen", "stat", "chmod", "check", "remove"} =>
            Serving = {}
PathOwned ==
    \A d \in Daemon :
        pc[d] \in {"listen", "stat", "chmod", "serving"} => path = d /\ d \in open
PathFound ==
    \A d \in Daemon :
        /\ Starting(d) /\ elders[d] = {} => Serving = {}
        /\ pc[d] = "lstat" => path # None
        /\ pc[d] \in {"probe", "unlink"} => path \notin {None, Foreign}
        /\ pc[d] = "bind" => path = None
ApartInv == TypeOK /\ OneActive /\ PathFreed /\ PathOwned /\ PathFound

LEMMA ApartInit == Init => ApartInv
  BY TypeInit DEF Init, ApartInv, OneActive, PathFreed, PathOwned, PathFound, Active,
                  Starting, Stopping

LEMMA ApartStep ==
  ASSUME StartsApart, StopsApart, ApartInv, [Next]_vars
  PROVE  ApartInv'
<1> USE DEF ApartInv, OneActive, PathFreed, PathOwned, PathFound, Active, Starting, Stopping,
            Serving, At, Goes
<1>1. TypeOK'
  BY TypeStep
<1>2. /\ pc \in [Daemon -> Call] /\ open \in SUBSET Daemon
      /\ elders \in [Daemon -> SUBSET Daemon]
  BY DEF TypeOK
<1> HIDE DEF ApartInv
<1>inv. TypeOK /\ OneActive /\ PathFreed /\ PathOwned /\ PathFound
  BY DEF ApartInv
<1>3. ASSUME NEW d \in Daemon, Start(d) PROVE ApartInv'
  BY <1>1, <1>2, <1>inv, <1>3 DEF Start, MayStart, NobodyStarts, NobodyStops, ApartInv
<1>4. ASSUME NEW d \in Daemon, Look(d) \/ Lstat(d) PROVE ApartInv'
  BY <1>1, <1>2, <1>inv, <1>4 DEF Look, Lstat, ApartInv
<1>5. ASSUME NEW d \in Daemon, Probe(d) PROVE ApartInv'
  BY <1>1, <1>2, <1>inv, <1>5 DEF Probe, Listening, ApartInv
<1>6. ASSUME NEW d \in Daemon, Unlink(d) \/ Remove(d) PROVE ApartInv'
  BY <1>1, <1>2, <1>inv, <1>6 DEF Unlink, Remove, ApartInv
<1>7. ASSUME NEW d \in Daemon, Bind(d) PROVE ApartInv'
  BY <1>1, <1>2, <1>inv, <1>7 DEF Bind, ApartInv
<1>8. ASSUME NEW d \in Daemon, Listen(d) \/ Stat(d) PROVE ApartInv'
  BY <1>1, <1>2, <1>inv, <1>8 DEF Listen, Stat, ApartInv
<1>9. ASSUME NEW d \in Daemon, Chmod(d) PROVE ApartInv'
  BY <1>1, <1>2, <1>inv, <1>9 DEF Chmod, ApartInv
<1>10. ASSUME NEW d \in Daemon, Shutdown(d) PROVE ApartInv'
  BY <1>1, <1>2, <1>inv, <1>10
     DEF Shutdown, MayStop, NobodyStarts, NobodyStops, ApartInv
<1>11. ASSUME NEW d \in Daemon, Check(d) PROVE ApartInv'
  BY <1>1, <1>2, <1>inv, <1>11 DEF Check, ApartInv
<1>12. ASSUME NEW d \in Daemon, Exit(d) \/ Kill(d) PROVE ApartInv'
  BY <1>1, <1>2, <1>inv, <1>12 DEF Exit, Kill, ApartInv
<1>13. CASE UNCHANGED vars
  BY <1>1, <1>2, <1>inv, <1>13 DEF vars, ApartInv
<1> QED
  BY <1>3, <1>4, <1>5, <1>6, <1>7, <1>8, <1>9, <1>10, <1>11, <1>12, <1>13
     DEF Next, Step

LEMMA ApartKept == (Apart => ApartInv) /\ [Next]_vars => (Apart => ApartInv)'
<1> SUFFICES ASSUME Apart => ApartInv, [Next]_vars, Apart' PROVE ApartInv'
  OBVIOUS
<1>1. apart' = apart
  BY DEF Next, vars
<1>2. StartsApart /\ StopsApart
  BY <1>1 DEF Apart, StartsApart, StopsApart
<1> QED
  BY <1>2, ApartStep DEF Apart

\* When starts and stops do not overlap, whoever serves is reached at the path,
\* whatever was left there by processes that were killed.
THEOREM ServersReachable == Spec => []ServingReachable
<1>1. Init => (Apart => ApartInv)
  BY ApartInit
<1>2. (Apart => ApartInv) => ServingReachable
  BY DEF Apart, ApartInv, PathOwned, ServingReachable, Serving, At
<1> QED
  BY <1>1, <1>2, ApartKept, PTL DEF Spec

LEMMA NoCallFails ==
  ASSUME ApartInv, Next, NEW d \in Daemon,
         Starting(d), elders[d] = {}, path # Foreign
  PROVE  pc'[d] \notin {"check", "leaving"}
<1> USE DEF At, Goes
<1>1. /\ TypeOK /\ OneActive /\ PathOwned /\ PathFound
      /\ Serving = {}
      /\ pc \in [Daemon -> Call]
  BY DEF ApartInv, TypeOK, PathFound
<1>2. path \notin Listening \cup {None} \/ pc[d] # "probe"
  <2> SUFFICES ASSUME pc[d] = "probe", path \in Listening PROVE FALSE
    BY <1>1 DEF PathFound
  <2>1. path \in Daemon /\ path \in open
    BY <1>1 DEF Listening, TypeOK
  <2>2. pc[path] \in {"stat", "chmod", "serving", "check", "remove", "leaving"}
    BY <1>1, <2>1 DEF Listening, TypeOK
  <2>3. path # d
    BY <2>2
  <2>4. ~Active(path)
    BY <1>1, <2>1, <2>3 DEF OneActive, Active, Starting
  <2> QED
    BY <1>1, <2>1, <2>2, <2>4 DEF Active, Starting, Stopping, Serving
<1>3. ASSUME NEW e \in Daemon, Start(e) \/ Shutdown(e) \/ Kill(e)
      PROVE  pc'[d] \notin {"check", "leaving"}
  BY <1>1, <1>3 DEF Start, Shutdown, Kill, Starting
<1>4. ASSUME NEW e \in Daemon, e # d, Step(e)
      PROVE  pc'[d] \notin {"check", "leaving"}
  <2>1. Active(e)
    BY <1>4 DEF Step, Look, Lstat, Probe, Unlink, Bind, Listen, Stat, Chmod,
                Check, Remove, Exit, Active, Starting, Stopping
  <2> QED
    BY <1>1, <1>4, <2>1 DEF OneActive, Active
<1>5. ASSUME Step(d) PROVE pc'[d] \notin {"check", "leaving"}
  <2>1. CASE Look(d) \/ Lstat(d) \/ Unlink(d) \/ Bind(d) \/ Listen(d)
    BY <1>1, <2>1 DEF Look, Lstat, Unlink, Bind, Listen, PathFound
  <2>2. CASE Probe(d)
    BY <1>1, <1>2, <2>2 DEF Probe
  <2>3. CASE Stat(d) \/ Chmod(d)
    BY <1>1, <2>3 DEF Stat, Chmod, PathOwned
  <2>4. CASE Check(d) \/ Remove(d) \/ Exit(d)
    BY <1>1, <2>4 DEF Check, Remove, Exit, Starting
  <2> QED
    BY <1>5, <2>1, <2>2, <2>3, <2>4 DEF Step
<1> QED
  BY <1>3, <1>4, <1>5 DEF Next

\* When starts and stops do not overlap, a start that comes when nobody serves and
\* the path is no foreign file has no call that fails.
THEOREM StartsRecover == Spec => StartRecovers
<1> DEFINE Gets == Apart => \A d \in Daemon :
                       Starting(d) /\ elders[d] = {} /\ path # Foreign =>
                           pc'[d] \notin {"check", "leaving"}
<1>1. Init => (Apart => ApartInv)
  BY ApartInit
<1>2. (Apart => ApartInv) /\ [Next]_vars => [Gets]_vars
  BY NoCallFails
<1>3. Spec => [][Gets]_vars
  BY <1>1, <1>2, ApartKept, PTL DEF Spec
<1> QED
  BY <1>3 DEF StartRecovers, Apart

-----------------------------------------------------------------------------
(* Starts and stops that overlap in any way *)

Finished == {"serving", "check", "remove", "leaving", "exited", "killed"}

\* An elder binds no more, so its socket does not come back to the path once
\* it is gone; what a start is about to unlink was found not to listen.
EldersFinished ==
    \A d \in Daemon : \A e \in elders[d] : pc[e] \in Finished
ServingOpen ==
    \A d \in Daemon : pc[d] \in {"listen", "stat", "chmod", "serving"} => d \in open
UnlinksStale ==
    \A d \in Daemon :
        /\ pc[d] \in {"probe", "unlink"} => path # Foreign
        /\ pc[d] = "unlink" => path \notin elders[d] \cap Serving
SparingInv == TypeOK /\ EldersFinished /\ ServingOpen /\ UnlinksStale

LEMMA SparingInit == Init => SparingInv
  BY TypeInit DEF Init, SparingInv, EldersFinished, ServingOpen, UnlinksStale

LEMMA SparingStep == SparingInv /\ [Next]_vars => SparingInv'
<1> SUFFICES ASSUME SparingInv, [Next]_vars PROVE SparingInv'
  OBVIOUS
<1>1. TypeOK'
  BY TypeStep DEF SparingInv
<1>2. /\ pc \in [Daemon -> Call] /\ open \in SUBSET Daemon
      /\ elders \in [Daemon -> SUBSET Daemon]
  BY DEF SparingInv, TypeOK
<1>inv. TypeOK /\ EldersFinished /\ ServingOpen /\ UnlinksStale
  BY DEF SparingInv
<1> USE <1>1, <1>2, <1>inv DEF EldersFinished, ServingOpen, UnlinksStale, Serving,
                               Finished, At, Goes
<1>3. ASSUME NEW d \in Daemon, Start(d) PROVE SparingInv'
  BY <1>3 DEF Start, SparingInv
<1>4. ASSUME NEW d \in Daemon, Look(d) \/ Lstat(d) PROVE SparingInv'
  BY <1>4 DEF Look, Lstat, SparingInv
<1>5. ASSUME NEW d \in Daemon, Probe(d) PROVE SparingInv'
  BY <1>5 DEF Probe, Listening, SparingInv
<1>6. ASSUME NEW d \in Daemon, Unlink(d) \/ Remove(d) PROVE SparingInv'
  BY <1>6 DEF Unlink, Remove, SparingInv
<1>7. ASSUME NEW d \in Daemon, Bind(d) PROVE SparingInv'
  <2>1. CASE path # None
    BY <1>7, <2>1 DEF Bind, SparingInv
  <2>2. CASE path = None
    <3>1. /\ pc[d] = "bind" /\ pc' = [pc EXCEPT ![d] = "listen"]
          /\ path' = d /\ open' = open \cup {d}
          /\ UNCHANGED <<recorded, elders>>
      BY <1>7, <2>2 DEF Bind
    <3> QED BY <3>1 DEF SparingInv
  <2> QED BY <2>1, <2>2
<1>8. ASSUME NEW d \in Daemon, Listen(d) \/ Stat(d) PROVE SparingInv'
  BY <1>8 DEF Listen, Stat, SparingInv
<1>9. ASSUME NEW d \in Daemon, Chmod(d) PROVE SparingInv'
  BY <1>9 DEF Chmod, SparingInv
<1>10. ASSUME NEW d \in Daemon, Shutdown(d) PROVE SparingInv'
  BY <1>10 DEF Shutdown, SparingInv
<1>11. ASSUME NEW d \in Daemon, Check(d) PROVE SparingInv'
  BY <1>11 DEF Check, SparingInv
<1>12. ASSUME NEW d \in Daemon, Exit(d) \/ Kill(d) PROVE SparingInv'
  BY <1>12 DEF Exit, Kill, SparingInv
<1>13. CASE UNCHANGED vars
  BY <1>13 DEF vars, SparingInv
<1> QED
  BY <1>3, <1>4, <1>5, <1>6, <1>7, <1>8, <1>9, <1>10, <1>11, <1>12, <1>13
     DEF Next, Step

\* However starts and stops overlap, a start spares what is not a socket and
\* every daemon that was serving before it and still is.
THEOREM StartsSpareServing == Spec => StartSparesServing
<1> DEFINE Spares == \A d \in Daemon : At(d, "unlink") /\ pc'[d] = "bind" =>
                        path # Foreign /\ path \notin elders[d] \cap Serving
<1>1. SparingInv /\ [Next]_vars => [Spares]_vars
  BY DEF SparingInv, UnlinksStale, At
<1> QED
  BY SparingInit, SparingStep, <1>1, PTL DEF Spec, StartSparesServing
-----------------------------------------------------------------------------
(* Starts that do not overlap, stops at any time *)

OneStarting ==
    \A d, e \in Daemon : Starting(d) /\ Starting(e) => d = e
\* Until it has read its inode number a daemon's path is its own or gone.
RecordsOwn ==
    \A d \in Daemon :
        /\ pc[d] \in {"listen", "stat"} => path \in {d, None}
        /\ pc[d] \in {"chmod", "serving", "check"} => recorded[d] = number[d]
        /\ pc[d] \in {"new", "look", "lstat", "probe", "unlink", "bind"} =>
               number[d] = None
\* Sockets that are open at the same time have different inodes; a socket may
\* get the inode of an elder only when the elder has closed its own.
NumbersDiffer ==
    /\ \A d, e \in open : number[d] = number[e] => d = e
    /\ \A d \in Daemon : \A e \in elders[d] \cap open : number[e] # number[d]
    /\ \A d \in Daemon : d \notin elders[d]
RemovesOwn ==
    \A d \in Daemon : pc[d] = "remove" => path \notin elders[d] \cap Serving
StopInv == SparingInv /\ OneStarting /\ RecordsOwn /\ NumbersDiffer /\ RemovesOwn

LEMMA StopInit == Init => StopInv
  BY SparingInit DEF Init, StopInv, OneStarting, RecordsOwn, NumbersDiffer,
                     RemovesOwn, Starting

LEMMA StopStep ==
  ASSUME StartsApart, StopInv, [Next]_vars
  PROVE  StopInv'
<1>1. SparingInv' /\ TypeOK'
  BY SparingStep DEF StopInv, SparingInv
<1>inv. /\ TypeOK /\ EldersFinished /\ ServingOpen
        /\ OneStarting /\ RecordsOwn /\ NumbersDiffer /\ RemovesOwn
  BY DEF StopInv, SparingInv
<1>2. /\ pc \in [Daemon -> Call] /\ open \in SUBSET Daemon
      /\ number \in [Daemon -> Inode \cup {None}]
      /\ recorded \in [Daemon -> Inode \cup {None}]
      /\ elders \in [Daemon -> SUBSET Daemon]
      /\ \A d \in open : number[d] # None
  BY <1>inv DEF TypeOK
<1> USE <1>1, <1>2, <1>inv DEF EldersFinished, ServingOpen, OneStarting, RecordsOwn,
          NumbersDiffer, RemovesOwn, Serving, Starting, Finished, At, Goes
<1>3. ASSUME NEW d \in Daemon, Start(d) PROVE StopInv'
  BY <1>3 DEF Start, MayStart, NobodyStarts, StopInv
<1>4. ASSUME NEW d \in Daemon, Look(d) \/ Lstat(d) \/ Probe(d) PROVE StopInv'
  BY <1>4 DEF Look, Lstat, Probe, StopInv
<1>5. ASSUME NEW d \in Daemon, Unlink(d) \/ Remove(d) PROVE StopInv'
  BY <1>5 DEF Unlink, Remove, StopInv
<1>6. ASSUME NEW d \in Daemon, Bind(d) PROVE StopInv'
  <2>1. CASE path # None
    BY <1>6, <2>1 DEF Bind, StopInv
  <2>2. CASE path = None
    <3>1. /\ pc[d] = "bind" /\ pc' = [pc EXCEPT ![d] = "listen"]
          /\ path' = d /\ open' = open \cup {d}
          /\ UNCHANGED <<recorded, elders>>
      BY <1>6, <2>2 DEF Bind
    <3>2. PICK n \in Inode \ InUse : number' = [number EXCEPT ![d] = n]
      BY <1>6, <2>2 DEF Bind
    <3>3. \A e \in open : number[e] # n
      BY <3>2 DEF InUse
    <3>4. OneStarting' /\ RecordsOwn' /\ RemovesOwn'
      BY <3>1, <3>2
    <3>5. NumbersDiffer'
      BY <3>1, <3>2, <3>3
    <3> QED BY <3>4, <3>5 DEF StopInv
  <2> QED BY <2>1, <2>2
<1>7. ASSUME NEW d \in Daemon, Listen(d) \/ Stat(d) PROVE StopInv'
  <2>1. CASE Listen(d)
    BY <2>1 DEF Listen, StopInv
  <2>2. CASE Stat(d) /\ path = None
    BY <2>2 DEF Stat, StopInv
  <2>3. CASE Stat(d) /\ path # None
    <3>1. /\ path = d /\ recorded' = [recorded EXCEPT ![d] = number[d]]
          /\ pc' = [pc EXCEPT ![d] = "chmod"] /\ pc[d] = "stat"
          /\ UNCHANGED <<path, open, number, elders>>
      BY <2>3 DEF Stat
    <3>2. QED
      BY <3>1 DEF StopInv
  <2>4. QED
    BY <1>7, <2>1, <2>2, <2>3
<1>8. ASSUME NEW d \in Daemon, Chmod(d) PROVE StopInv'
  BY <1>8 DEF Chmod, StopInv
<1>9. ASSUME NEW d \in Daemon, Shutdown(d) PROVE StopInv'
  BY <1>9 DEF Shutdown, StopInv
<1>10. ASSUME NEW d \in Daemon, Check(d) PROVE StopInv'
  BY <1>10 DEF Check, StopInv
<1>11. ASSUME NEW d \in Daemon, Exit(d) \/ Kill(d) PROVE StopInv'
  BY <1>11 DEF Exit, Kill, StopInv
<1>12. CASE UNCHANGED vars
  BY <1>12 DEF vars, StopInv
<1> QED
  BY <1>3, <1>4, <1>5, <1>6, <1>7, <1>8, <1>9, <1>10, <1>11, <1>12 DEF Next, Step

LEMMA StopKept == (StartsApart => StopInv) /\ [Next]_vars => (StartsApart => StopInv)'
<1> SUFFICES ASSUME StartsApart => StopInv, [Next]_vars, StartsApart' PROVE StopInv'
  OBVIOUS
<1>1. apart' = apart
  BY DEF Next, vars
<1>2. StartsApart
  BY <1>1 DEF StartsApart
<1> QED
  BY <1>2, StopStep

\* When starts do not overlap, a daemon that stops spares every other that was
\* serving before the stop and still is, even one that got its inode number.
THEOREM StopsSpareServing == Spec => StopSparesServing
<1> DEFINE Spares == StartsApart => \A d \in Daemon :
                        At(d, "remove") /\ pc'[d] = "leaving" =>
                            path \notin elders[d] \cap Serving
<1>1. (StartsApart => StopInv) /\ [Next]_vars => [Spares]_vars
  BY DEF StopInv, RemovesOwn, At
<1>2. Init => (StartsApart => StopInv)
  BY StopInit
<1> QED
  BY <1>1, <1>2, StopKept, PTL DEF Spec, StopSparesServing
=============================================================================
