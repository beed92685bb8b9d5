------------------------------ MODULE MCChecker ------------------------------
(* Small instances of Checker. *)
EXTENDS Checker, TLC

Symmetry == Permutations(Process \ {Shell})
=============================================================================
