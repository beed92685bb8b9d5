------------------------------ MODULE MCDaemon ------------------------------
(* Small instances of Daemon. *)
EXTENDS Daemon, TLC

Symmetry == Permutations(Monitor)
=============================================================================
