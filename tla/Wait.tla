-------------------------------- MODULE Wait --------------------------------
(***************************************************************************)
(* What a durable wait promises the task that registered it, whatever      *)
(* processes run it: the wait is registered once, at most one reason ever  *)
(* wakes it, and a woken wait ends in exactly one way: with one turn that  *)
(* consumed the wake-up, or cancelled.  Leases, retries and crashes of the *)
(* implementation (module Store) are stuttering steps here.                *)
(***************************************************************************)
CONSTANTS
    Monitor,      \* ids of registered waits
    WakeReason,   \* why a wait is woken
    Turn,         \* ids of turns of the target task
    NULL          \* an unset column

VARIABLES
    phase,        \* where each wait is
    reason,       \* why it was woken
    turn          \* the turn that consumed its wake-up

vars == <<phase, reason, turn>>

Phases == {"unregistered", "waiting", "woken", "delivered", "cancelled"}

Init ==
    /\ phase = [m \in Monitor |-> "unregistered"]
    /\ reason = [m \in Monitor |-> NULL]
    /\ turn = [m \in Monitor |-> NULL]

Register(m) ==
    /\ phase[m] = "unregistered"
    /\ phase' = [phase EXCEPT ![m] = "waiting"]
    /\ UNCHANGED <<reason, turn>>

\* A check matched, or the hard timeout passed.
Wake(m, r) ==
    /\ phase[m] = "waiting"
    /\ phase' = [phase EXCEPT ![m] = "woken"]
    /\ reason' = [reason EXCEPT ![m] = r]
    /\ UNCHANGED turn

Deliver(m, t) ==
    /\ phase[m] = "woken"
    /\ phase' = [phase EXCEPT ![m] = "delivered"]
    /\ turn' = [turn EXCEPT ![m] = t]
    /\ UNCHANGED reason

\* By the user before or after the wake-up, or by the circuit breaker after it.
Cancel(m) ==
    /\ phase[m] \in {"waiting", "woken"}
    /\ phase' = [phase EXCEPT ![m] = "cancelled"]
    /\ UNCHANGED <<reason, turn>>

Next ==
    \E m \in Monitor :
        \/ Register(m)
        \/ \E r \in WakeReason : Wake(m, r)
        \/ \E t \in Turn : Deliver(m, t)
        \/ Cancel(m)

Spec == Init /\ [][Next]_vars
=============================================================================
