------------------------------ MODULE Installer ------------------------------
(***************************************************************************)
(* The part of install.sh that touches a running system: it looks whether  *)
(* the daemon is idle, installs the new files, which takes a while, and    *)
(* restarts the daemon.  The clients of Wrapper carry on meanwhile.  The   *)
(* daemon is active when the installer comes: an inactive one has no tasks *)
(* to lose and is not asked (install.sh:182).                              *)
(***************************************************************************)
EXTENDS Wrapper

VARIABLES
    forced,     \* --force-restart
    installer,  \* what install.sh does next, or how it ended
    seen        \* history: the clients that had a request when it looked

installing == <<forced, installer, seen>>
ivars == <<wvars, installing>>

IInit == WInit /\ forced \in BOOLEAN /\ installer = "check" /\ seen = {}

\* Mutant of ActiveTasks: only what has cards counts.
ActiveTasksHolding(m) == {r \in Live(m) : m.requests[r].status = "granted"}

\* The tasks that "gpuctl status --json" lists: queued, running, canceling.
ActiveTasks(m) == Live(m)

\* The status call, which reaps and schedules like any other, and the refusal.
CheckIdle ==
    /\ installer = "check"
    /\ \/ /\ \E u \in Uid, now \in Now : Status(u, now)
          /\ installer' = IF ActiveTasks(tables') # {} /\ ~forced
                          THEN "refused" ELSE "install"
       \/ NotArrived /\ installer' = "refused"      \* "could not be read"
    /\ seen' = {w \in Wrappers : client[w].id # None}
    /\ UNCHANGED <<client, forced>>

\* systemctl restart: the daemon that comes up has empty tables.  That it
\* fails to come up, and the installer ends, is not modelled.
RestartDaemon ==
    /\ installer = "install"
    /\ tables' = [requests |-> <<>>, queue |-> <<>>, leases |-> <<>>,
                  holders |-> <<>>]
    /\ reaper' = "ready" /\ wakeAt' = None /\ reply' = NoReply
    /\ installer' = "poll"
    /\ UNCHANGED <<closed, clock, client, forced, seen>>

\* The loop of status calls: one that fails is tried again, up to 40 times.
AwaitReady ==
    /\ installer = "poll"
    /\ \/ (\E u \in Uid, now \in Now : Status(u, now)) /\ installer' = "ready"
       \/ NotArrived /\ installer' \in {"poll", "failed"}
    /\ UNCHANGED <<client, forced, seen>>

INext ==
    \/ CheckIdle \/ RestartDaemon \/ AwaitReady
    \/ /\ \/ \E w \in Wrappers : WrapperStep(w) \/ LateRenewal(w) \/ Crash(w)
          \/ Cancel
          \/ Reaper /\ UNCHANGED client
          \/ Time
       /\ UNCHANGED installing

ISpec == IInit /\ [][INext]_ivars

\* The threads of every wrapper and the reaper's keep being scheduled.  A call has
\* a timeout, and one that is made again and again is answered in the end;
\* handlers hold the lock for a bounded body.  Nobody else is obliged to call, and
\* nothing is assumed of the clock or the installer.
MainThreadMoves(w) == MainThread(w) /\ client'[w].phase # client[w].phase
HeartbeatThreadMoves(w) == HeartbeatThread(w) /\ client'[w].beat # client[w].beat
IFairSpec ==
    /\ ISpec
    /\ \A w \in Wrappers :
          /\ WF_ivars(MainThreadMoves(w) /\ UNCHANGED installing)
          /\ WF_ivars(HeartbeatThreadMoves(w) /\ UNCHANGED installing)
    /\ WF_ivars(Reaper /\ UNCHANGED <<client, installing>>)

-----------------------------------------------------------------------------
(* Correctness. *)

\* The installer never takes the lease from under a command whose request it
\* could have seen: whatever was queued, running or being canceled when it
\* looked has ended by the time it restarts the daemon, unless it is forced to.
\* This needs more than the count: that no command runs without a lease.
OldCommandsSpared ==
    [][installer = "install" /\ installer' = "poll" /\ ~forced =>
          \A w \in seen : ~(Attached(w) /\ Leads(w))]_ivars

\* README.md:73: "The installer refuses to restart the daemon while tasks are
\* active or queued."
RestartsOnlyIdle ==
    [][installer = "install" /\ installer' = "poll" /\ ~forced =>
          Live(tables) = {}]_ivars

\* README.md:75-77, of --force-restart: "Already-running workloads are not killed
\* and would continue without tracked leases."  A command is told to stop only if
\* its task was canceled or its heartbeats failed, not because a new daemon does
\* not know its lease.
RestartKillsNobody ==
    [][\A w \in Wrappers :
          forced /\ In(w, "running") /\ client'[w].phase = "stopping" =>
              client[w].beat # "not_found"]_ivars
=============================================================================
