-------------------------- MODULE LeaseManagerPool --------------------------
(***************************************************************************)
(* The daemon's tables implement the pool of GpuPool: with clocks, owners, *)
(* statuses and the reaper forgotten, every handler is one step of it.     *)
(***************************************************************************)
EXTENDS LeaseManager

Pool == INSTANCE GpuPool WITH
    Member <- RequestId,
    Wants <- {d \in Demands : ValidDemand(d)},
    line <- tables.queue,
    want <- [r \in Live(tables) |-> tables.requests[r].demand],
    held <- [l \in DOMAIN tables.leases |-> tables.leases[l].cards]

\* Every call, the reaper and the clock take a step the pool allows: cards are
\* served in the order of the line and whole, whoever is served got cards
\* nobody keeps, and the line never stops at a member that could be served.
ImplementsPool == Pool!Spec
=============================================================================
