---------------------------- MODULE MCNativePipe -----------------------------
(* Small instances of NativePipe. *)
EXTENDS NativePipe, TLC

Symmetry == Permutations(Claim)
=============================================================================
