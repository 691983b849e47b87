----------------------------- MODULE SocketPath -----------------------------
(***************************************************************************)
(* The life of the daemon's Unix socket path: main of src/gpuctl/server.py *)
(* and GPUUnixHTTPServer of src/gpuctl/http_api.py.  Several gpuctld       *)
(* processes may be started on one path; each system call of one is a      *)
(* step, so that those of the others come in between.                      *)
(*                                                                         *)
(* A process runs once and binds at most once, so its name also names the  *)
(* socket it binds.  All of them run as one user, who may chmod and unlink *)
(* what the others made.                                                   *)
(***************************************************************************)
EXTENDS Naturals

CONSTANTS
    Daemon,         \* the gpuctld processes
    Inode,          \* the inode numbers of the file system
    Foreign,        \* something at the path that is not a socket
    None

ASSUME PathAssumption ==
    /\ Foreign \notin Daemon /\ None \notin Daemon /\ Foreign # None
    /\ None \notin Inode

VARIABLES
    apart,      \* which of "starts" and "stops" whoever calls for them keeps apart
    pc,         \* pc[d]: the call that process d makes next, or how it stands
    path,       \* whose socket the path names, or None, or from the start Foreign
    open,       \* the processes whose socket is bound and not closed
    number,     \* number[d]: the inode number of the socket d bound
    recorded,   \* recorded[d]: its _socket_inode
    elders      \* history: who was serving when d began to start or to stop

vars == <<apart, pc, path, open, number, recorded, elders>>

Init ==
    /\ apart \in {{}, {"starts"}, {"starts", "stops"}}
    /\ pc = [d \in Daemon |-> "new"]
    /\ path \in {None, Foreign}
    /\ open = {}
    /\ number = [d \in Daemon |-> None]
    /\ recorded = [d \in Daemon |-> None]
    /\ elders = [d \in Daemon |-> {}]

At(d, call) == pc[d] = call
Goes(d, call) == pc' = [pc EXCEPT ![d] = call]

Serving == {d \in Daemon : At(d, "serving")}
Listening == {d \in open : ~At(d, "listen")}

Starting(d) == pc[d] \in {"look", "lstat", "probe", "unlink", "bind", "listen",
                          "stat", "chmod"}
Stopping(d) == pc[d] \in {"check", "remove", "leaving"}

\* What those who start and stop daemons see to: systemd starts a unit's process
\* only when the former one is gone; people at two terminals see to nothing.
StartsApart == "starts" \in apart   \* a start waits for other starts to end
StopsApart == "stops" \in apart     \* starts and stops wait for each other
NobodyStarts(d) == \A e \in Daemon \ {d} : ~Starting(e)
NobodyStops(d) == \A e \in Daemon \ {d} : ~Stopping(e)
MayStart(d) == /\ StartsApart => NobodyStarts(d)
               /\ StopsApart => NobodyStops(d)
MayStop(d) == StopsApart => NobodyStarts(d) /\ NobodyStops(d)

Start(d) ==
    /\ At(d, "new")
    /\ MayStart(d)
    /\ Goes(d, "look")
    /\ elders' = [elders EXCEPT ![d] = Serving]
    /\ UNCHANGED <<path, open, number, recorded>>

-----------------------------------------------------------------------------
(* _prepare_socket_path.  Every OSError ends the start. *)

Look(d) ==
    /\ At(d, "look")
    /\ Goes(d, IF path = None THEN "bind" ELSE "lstat")
    /\ UNCHANGED <<path, open, number, recorded, elders>>

\* Gone since, or not a socket: the start fails.
Lstat(d) ==
    /\ At(d, "lstat")
    /\ Goes(d, IF path \in {None, Foreign} THEN "leaving" ELSE "probe")
    /\ UNCHANGED <<path, open, number, recorded, elders>>

\* Mutants of Probe: whatever the answer the path is taken over; a path that
\* refuses connections is not.
ProbeTakesOver(d) ==
    /\ At(d, "probe")
    /\ Goes(d, IF path = None THEN "leaving" ELSE "unlink")
    /\ UNCHANGED <<path, open, number, recorded, elders>>
ProbeGivesUp(d) ==
    /\ At(d, "probe")
    /\ Goes(d, "leaving")
    /\ UNCHANGED <<path, open, number, recorded, elders>>

\* connect succeeds when somebody listens, and is refused by a socket that is
\* closed or not yet listening (and by what is no socket).
Probe(d) ==
    /\ At(d, "probe")
    /\ Goes(d, IF path \in Listening \cup {None} THEN "leaving" ELSE "unlink")
    /\ UNCHANGED <<path, open, number, recorded, elders>>

\* path.unlink: whatever the path names by now.
Unlink(d) ==
    /\ At(d, "unlink")
    /\ Goes(d, IF path = None THEN "leaving" ELSE "bind")
    /\ path' = None
    /\ UNCHANGED <<open, number, recorded, elders>>

-----------------------------------------------------------------------------
(* The constructor of the server, and serving *)

\* A file keeps its number while the path or an open socket refers to it.
InUse == {number[e] : e \in open}

Bind(d) ==
    /\ At(d, "bind")
    /\ \/ /\ path # None                                    \* EADDRINUSE
          /\ Goes(d, "leaving")
          /\ UNCHANGED <<path, open, number>>
       \/ /\ path = None
          /\ Goes(d, "listen")
          /\ path' = d
          /\ open' = open \cup {d}
          /\ \E n \in Inode \ InUse : number' = [number EXCEPT ![d] = n]
    /\ UNCHANGED <<recorded, elders>>

Listen(d) ==
    /\ At(d, "listen")
    /\ Goes(d, "stat")
    /\ UNCHANGED <<path, open, number, recorded, elders>>

\* Mutant of Stat: the number is looked at and not kept.
StatForgets(d) ==
    /\ At(d, "stat")
    /\ Goes(d, IF path = None THEN "leaving" ELSE "chmod")
    /\ UNCHANGED <<path, open, number, recorded, elders>>

\* The inode number at the path, which need not be the own socket's any more.
Stat(d) ==
    /\ At(d, "stat")
    /\ \/ /\ path = None
          /\ Goes(d, "leaving")
          /\ UNCHANGED recorded
       \/ /\ path # None
          /\ Goes(d, "chmod")
          /\ \E n \in IF path \in Daemon THEN {number[path]} ELSE Inode \ InUse :
                 recorded' = [recorded EXCEPT ![d] = n]
    /\ UNCHANGED <<path, open, number, elders>>

\* When it fails, _remove_owned_socket is called with the socket still open.
Chmod(d) ==
    /\ At(d, "chmod")
    /\ Goes(d, IF path = None THEN "check" ELSE "serving")
    /\ UNCHANGED <<path, open, number, recorded, elders>>

\* SIGTERM or SIGINT: serve_forever ends and the socket is closed.
Shutdown(d) ==
    /\ At(d, "serving")
    /\ MayStop(d)
    /\ Goes(d, "check")
    /\ open' = open \ {d}
    /\ elders' = [elders EXCEPT ![d] = Serving \ {d}]
    /\ UNCHANGED <<path, number, recorded>>

-----------------------------------------------------------------------------
(* _remove_owned_socket, and the end *)

\* Mutant of Check: the inode number is not compared.
CheckAnySocket(d) ==
    /\ At(d, "check")
    /\ Goes(d, IF path \in Daemon THEN "remove" ELSE "leaving")
    /\ UNCHANGED <<path, open, number, recorded, elders>>

Check(d) ==
    /\ At(d, "check")
    /\ Goes(d, IF path \in Daemon /\ number[path] = recorded[d]
               THEN "remove" ELSE "leaving")
    /\ UNCHANGED <<path, open, number, recorded, elders>>

\* os.unlink: again whatever the path names by now.
Remove(d) ==
    /\ At(d, "remove")
    /\ Goes(d, "leaving")
    /\ path' = None
    /\ UNCHANGED <<open, number, recorded, elders>>

\* The end of the process: the kernel closes what it leaves open.
Exit(d) ==
    /\ At(d, "leaving")
    /\ Goes(d, "exited")
    /\ open' = open \ {d}
    /\ UNCHANGED <<path, number, recorded, elders>>

\* SIGKILL, or SIGTERM before the handlers are installed (server.py:93-95) or
\* again while it shuts down: the path stays as it is.
Kill(d) ==
    /\ pc[d] \notin {"new", "exited", "killed"}
    /\ Goes(d, "killed")
    /\ open' = open \ {d}
    /\ UNCHANGED <<path, number, recorded, elders>>

Step(d) ==
    \/ Look(d) \/ Lstat(d) \/ Probe(d) \/ Unlink(d)
    \/ Bind(d) \/ Listen(d) \/ Stat(d) \/ Chmod(d)
    \/ Check(d) \/ Remove(d) \/ Exit(d)

Next ==
    /\ \E d \in Daemon : Start(d) \/ Step(d) \/ Shutdown(d) \/ Kill(d)
    /\ UNCHANGED apart

Spec == Init /\ [][Next]_vars

-----------------------------------------------------------------------------
(* Correctness. *)

Call == {"new", "look", "lstat", "probe", "unlink", "bind", "listen", "stat",
         "chmod", "serving", "check", "remove", "leaving", "exited", "killed"}

\* Type correctness; whose socket can be open: that of a process which has bound
\* it and still runs; and that nobody serves or stops without the number of a
\* socket to compare with, or its own would stay at the path for good
\* (http_api.py:111).
TypeOK ==
    /\ apart \in SUBSET {"starts", "stops"}
    /\ pc \in [Daemon -> Call]
    /\ path \in Daemon \cup {Foreign, None}
    /\ open \in SUBSET Daemon
    /\ number \in [Daemon -> Inode \cup {None}]
    /\ recorded \in [Daemon -> Inode \cup {None}]
    /\ elders \in [Daemon -> SUBSET Daemon]
    /\ \A d \in open :
          /\ pc[d] \in {"listen", "stat", "chmod", "serving", "check", "remove", "leaving"}
          /\ number[d] # None
    /\ path \in Daemon => number[path] # None
    /\ \A d \in Daemon :
          pc[d] \in {"chmod", "serving", "check", "remove"} => recorded[d] # None

\* Whoever serves can be reached at the path, so that no two daemons serve: the
\* cards have one manager.  It takes starts and stops that do not overlap; kills
\* may come at any time.
ServingReachable ==
    StartsApart /\ StopsApart => \A d \in Serving : path = d

\* However starts and stops overlap, a start never removes what is not a socket,
\* nor the socket of a daemon that was serving before the start and still is.
StartSparesServing ==
    [][\A d \in Daemon : At(d, "unlink") /\ pc'[d] = "bind" =>
          path # Foreign /\ path \notin elders[d] \cap Serving]_vars

\* A daemon that stops does not take its successor with it: it never removes
\* the socket of a daemon that was serving before the stop and still is, though
\* its own socket may have been removed, replaced, and its inode number used
\* again.  It takes starts that do not overlap: a daemon that was displaced
\* between bind and lstat records the inode of the other (http_api.py:63-64).
StopSparesServing ==
    [][StartsApart => \A d \in Daemon : At(d, "remove") /\ pc'[d] = "leaving" =>
          path \notin elders[d] \cap Serving]_vars

\* What a crash leaves behind never keeps the next daemon from starting: a start
\* that comes when nobody serves gets through all its calls, at whichever of
\* theirs the daemons before it were killed.  It takes starts and stops that do
\* not overlap.
StartRecovers ==
    [][StartsApart /\ StopsApart =>
          \A d \in Daemon :
              Starting(d) /\ elders[d] = {} /\ path # Foreign =>
                  pc'[d] \notin {"check", "leaving"}]_vars
=============================================================================
