-------------------------------- MODULE Send ---------------------------------
(***************************************************************************)
(* What the dispatcher expects of the native pipe: the attempts made with  *)
(* sendContinue, each written at most once, and a success that Desktop     *)
(* stands behind.  Module Dispatch assumes no more of its sends than this: *)
(* there a success may even come back for a message that is then dropped.  *)
(***************************************************************************)
EXTENDS Naturals

CONSTANT Claim      \* the attempts: claims handed to sendContinue

VARIABLES
    outcome,    \* of each attempt
    calls,      \* tools/call frames written for each attempt
    performed   \* the attempts whose message Desktop has accepted

vars == <<outcome, calls, performed>>

Init ==
    /\ outcome = [c \in Claim |-> "unsent"]
    /\ calls = [c \in Claim |-> 0]
    /\ performed = {}

\* One attempt at a time: `dispatching`.
Begin(c) ==
    /\ \A other \in Claim : outcome[other] # "sending"
    /\ outcome[c] = "unsent"
    /\ outcome' = [outcome EXCEPT ![c] = "sending"]
    /\ calls' \in {calls, [calls EXCEPT ![c] = 1]}
    /\ UNCHANGED performed

\* The catalogue at hand does not offer the tool.
Refuse(c) ==
    /\ \A other \in Claim : outcome[other] # "sending"
    /\ outcome[c] = "unsent"
    /\ outcome' = [outcome EXCEPT ![c] = "failed"]
    /\ UNCHANGED <<calls, performed>>

Write(c) ==
    /\ outcome[c] = "sending" /\ calls[c] = 0
    /\ calls' = [calls EXCEPT ![c] = 1]
    /\ UNCHANGED <<outcome, performed>>

\* Desktop accepts a message at any time after it was written, even when the
\* attempt has failed already.
Perform(c) ==
    /\ calls[c] = 1
    /\ performed' = performed \cup {c}
    /\ UNCHANGED <<outcome, calls>>

Succeed(c) ==
    /\ outcome[c] = "sending" /\ c \in performed
    /\ outcome' = [outcome EXCEPT ![c] = "sent"]
    /\ UNCHANGED <<calls, performed>>

Fail(c) ==
    /\ outcome[c] = "sending"
    /\ outcome' = [outcome EXCEPT ![c] = "failed"]
    /\ UNCHANGED <<calls, performed>>

Next ==
    \E c \in Claim :
        Begin(c) \/ Refuse(c) \/ Write(c) \/ Perform(c) \/ Succeed(c) \/ Fail(c)

Spec == Init /\ [][Next]_vars
=============================================================================
