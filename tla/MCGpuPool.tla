------------------------------ MODULE MCGpuPool ------------------------------
EXTENDS GpuPool
\* One named card, any card, all cards.
AllWants == {[cards |-> {"g0"}, count |-> None], [cards |-> None, count |-> 1],
             [cards |-> None, count |-> 2]}
=============================================================================
