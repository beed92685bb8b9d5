----------------------------- MODULE MCDispatch -----------------------------
(* Small instances of Dispatch. *)
EXTENDS Dispatch, TLC

CONSTANT t1

\* Every monitor waits in the same task.
SameTask == [m \in Monitor |-> t1]

Symmetry == Permutations(Dispatcher) \cup Permutations(Proc)
=============================================================================
