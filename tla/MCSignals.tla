------------------------------ MODULE MCSignals ------------------------------
(* A wrapper that is sent up to three signals. *)
EXTENDS Signals
=============================================================================
