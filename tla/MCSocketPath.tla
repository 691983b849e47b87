---------------------------- MODULE MCSocketPath ----------------------------
(* Three daemon processes and as many inode numbers. *)
EXTENDS SocketPath, TLC

CONSTANTS d1, d2, d3, i1, i2, i3

Symmetry == Permutations(Daemon) \cup Permutations(Inode)
=============================================================================
