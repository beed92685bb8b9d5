------------------------------ MODULE MCStore -------------------------------
(* Two monitors, every caller, and a clock that may step back; and the        *)
(* arithmetic of the durations the callers pass.                              *)
EXTENDS Store, Policy, TLC

Symmetry == Permutations(Monitor)

SmallDigits == 0..600
SmallDecimals == 0..2

\* Whatever is written for the interval and the timeout of a monitor to be registered, the
\* wait is never longer than that, nor without end or without pause.
DurationsKept ==
    \A m \in Monitor : row[m].state = "ABSENT" => DurationsFaithful
=============================================================================
