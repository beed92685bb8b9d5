------------------------------- MODULE Store --------------------------------
(***************************************************************************)
(* The monitors table (src/durable_continue/store.py), the one state the   *)
(* LaunchAgent, the dispatchers and the command line share.  Every method  *)
(* of class Store runs in one BEGIN IMMEDIATE transaction, so each is one  *)
(* action.  An action is enabled when the method would change a row; a     *)
(* call that changes none (rowcount 0) is a stuttering step.               *)
(*                                                                         *)
(* The specification at the end puts no discipline on the callers: any     *)
(* process calls any method at any time, with any claim token issued so    *)
(* far, current or stale, and with any reading of the wall clock, which    *)
(* may step backwards.  What holds here holds of every composition.        *)
(***************************************************************************)
EXTENDS Naturals, FiniteSets

CONSTANTS
    Monitor,        \* ids monitors are registered under
    Token,          \* claim tokens in the order they are issued (uuid4)
    Time,           \* readings of the wall clock
    Interval,       \* --interval values
    Timeout,        \* --timeout values
    CheckLease,     \* claim_seconds of claim_due_check
    DeliveryLease,  \* claim_seconds of claim_due_delivery
    RetryDelay,     \* delays callers pass to delivery_retry
    Anchor,         \* rollout path and offset pairs
    Turn,           \* turn ids found in rollouts
    BlockReason,    \* reasons passed to delivery_blocked
    NULL            \* SQL NULL

WakeReason == {"success", "failure", "timeout"}

ASSUME StoreAssumption ==
    /\ Token \subseteq Nat \ {0}
    /\ Time \subseteq Nat
    /\ Interval \subseteq Nat
    /\ Timeout \subseteq Nat
    /\ RetryDelay \subseteq Nat
    /\ CheckLease \in Nat
    /\ DeliveryLease \in Nat
    /\ NULL \notin Nat
    /\ NULL \notin WakeReason
    /\ NULL \notin Turn
    /\ NULL \notin Anchor
    /\ NULL \notin BlockReason

VARIABLES
    row,      \* the table: a row per monitor id
    issued    \* how many claim tokens have been issued

vars == <<row, issued>>

-----------------------------------------------------------------------------

ActiveStates == {"WAITING", "CHECKING", "DELIVERY_PENDING", "DELIVERING"}
AllStates == ActiveStates \cup {"DELIVERED", "CANCELLED"}
ClaimedStates == {"CHECKING", "DELIVERING"}

Null(S) == S \cup {NULL}

\* The columns some operation reads, and those that record an outcome.
Row == [state                   : AllStates \cup {"ABSENT"},
        created_at              : Nat,
        interval_seconds        : Nat,
        deadline_at             : Nat,
        next_check_at           : Nat,
        wake_reason             : Null(WakeReason),
        next_delivery_at        : Null(Nat),
        delivery_attempts       : Nat,
        claim_token             : Null(Token),
        claim_expires_at        : Null(Nat),
        delivery_rollout        : Null(Anchor),
        started_turn_id         : Null(Turn),
        delivery_blocked_reason : Null(BlockReason),
        cancelled_at            : Null(Nat)]

\* An id no row has; register starts from its NULLs and DEFAULTs.
NoRow == [state                   |-> "ABSENT",
          created_at              |-> 0,
          interval_seconds        |-> 0,
          deadline_at             |-> 0,
          next_check_at           |-> 0,
          wake_reason             |-> NULL,
          next_delivery_at        |-> NULL,
          delivery_attempts       |-> 0,
          claim_token             |-> NULL,
          claim_expires_at        |-> NULL,
          delivery_rollout        |-> NULL,
          started_turn_id         |-> NULL,
          delivery_blocked_reason |-> NULL,
          cancelled_at            |-> NULL]

TypeOK ==
    /\ row \in [Monitor -> Row]
    /\ issued \in Nat

Lesser(a, b) == IF a <= b THEN a ELSE b

\* The WHERE clause of every write made on behalf of a claim.
HoldsClaim(m, tok, st) ==
    /\ row[m].state = st
    /\ row[m].claim_token = tok

\* uuid4().hex: a token never issued before.
FreshToken(tok) == tok \in Token /\ tok = issued + 1

Released(r) == [r EXCEPT !.claim_token = NULL, !.claim_expires_at = NULL]

-----------------------------------------------------------------------------
(* Registration and cancellation: durable-continue register, cancel. *)

Registered(interval, timeout, ts) ==
    [NoRow EXCEPT !.state = "WAITING",
                  !.created_at = ts,
                  !.interval_seconds = interval,
                  !.deadline_at = ts + timeout,
                  !.next_check_at = Lesser(ts + interval, ts + timeout)]

Register(m, interval, timeout, ts) ==
    /\ row[m].state = "ABSENT"
    /\ row' = [row EXCEPT ![m] = Registered(interval, timeout, ts)]
    /\ UNCHANGED issued

\* Mutant: the claim columns are not cleared.
MutCancelledKeepsClaim(r, ts) ==
    [r EXCEPT !.state = "CANCELLED", !.cancelled_at = ts, !.next_delivery_at = NULL]

Cancelled(r, ts) ==
    [Released(r) EXCEPT !.state = "CANCELLED",
                        !.cancelled_at = ts,
                        !.next_delivery_at = NULL]

\* Mutant: the WHERE clause leaves out the state.
MutCancelAnyState(m, ts) ==
    /\ row[m].state # "ABSENT"
    /\ row' = [row EXCEPT ![m] = Cancelled(row[m], ts)]
    /\ UNCHANGED issued

Cancel(m, ts) ==
    /\ row[m].state \in ActiveStates
    /\ row' = [row EXCEPT ![m] = Cancelled(row[m], ts)]
    /\ UNCHANGED issued

-----------------------------------------------------------------------------
(* Lease recovery, by the LaunchAgent's tick and by every dispatcher claim. *)

\* Mutant: every lease older than the call is taken for a dead one.
MutExpiredAlways(r, ts) == r.claim_expires_at = NULL \/ r.created_at <= ts

Expired(r, ts) == r.claim_expires_at = NULL \/ r.claim_expires_at <= ts

\* Mutant: an expired delivery goes back to waiting, like a check.
MutRecoveredToWaiting(r, ts) ==
    IF r.state \in ClaimedStates /\ Expired(r, ts) THEN
        [Released(r) EXCEPT !.state = "WAITING", !.next_check_at = ts]
    ELSE r

\* Mutant: only checks are recovered.
MutRecoveredChecksOnly(r, ts) ==
    IF r.state = "CHECKING" /\ Expired(r, ts) THEN
        [Released(r) EXCEPT !.state = "WAITING", !.next_check_at = ts]
    ELSE r

\* Mutant: only deliveries are recovered.
MutRecoveredDeliveriesOnly(r, ts) ==
    IF r.state = "DELIVERING" /\ Expired(r, ts) THEN
        [Released(r) EXCEPT !.state = "DELIVERY_PENDING", !.next_delivery_at = ts]
    ELSE r

Recovered(r, ts) ==
    IF r.state = "CHECKING" /\ Expired(r, ts) THEN
        [Released(r) EXCEPT !.state = "WAITING", !.next_check_at = ts]
    ELSE IF r.state = "DELIVERING" /\ Expired(r, ts) THEN
        [Released(r) EXCEPT !.state = "DELIVERY_PENDING", !.next_delivery_at = ts]
    ELSE r

RecoverStale(ts) ==
    /\ row' = [m \in Monitor |-> Recovered(row[m], ts)]
    /\ UNCHANGED issued

-----------------------------------------------------------------------------
(* Checks, by the LaunchAgent. *)

DueChecks(ts) ==
    {m \in Monitor : /\ row[m].state = "WAITING"
                     /\ row[m].next_check_at <= ts \/ row[m].deadline_at <= ts}

\* ORDER BY MIN(next_check_at, deadline_at), created_at
CheckBefore(m, n) ==
    LET key(x) == Lesser(row[x].next_check_at, row[x].deadline_at) IN
    \/ key(m) < key(n)
    \/ key(m) = key(n) /\ row[m].created_at < row[n].created_at

FirstDueChecks(ts) ==
    {m \in DueChecks(ts) : \A n \in DueChecks(ts) : ~CheckBefore(n, m)}

Claimed(r, st, tok, expiry) ==
    [r EXCEPT !.state = st, !.claim_token = tok, !.claim_expires_at = expiry]

ClaimDueCheck(m, tok, ts) ==
    /\ m \in FirstDueChecks(ts)
    /\ FreshToken(tok)
    /\ row' = [row EXCEPT ![m] = Claimed(row[m], "CHECKING", tok, ts + CheckLease)]
    /\ issued' = tok

Woken(r, decision, ts) ==
    [Released(r) EXCEPT !.state = "DELIVERY_PENDING",
                        !.wake_reason = decision,
                        !.next_check_at = ts,
                        !.next_delivery_at = ts]

\* The next check is not scheduled past the deadline.
Rearmed(r, ts) ==
    [Released(r) EXCEPT !.state = "WAITING",
                        !.next_check_at = Lesser(ts + r.interval_seconds, r.deadline_at),
                        !.next_delivery_at = NULL]

CompleteCheck(m, tok, decision, ts) ==
    /\ HoldsClaim(m, tok, "CHECKING")
    /\ row' = [row EXCEPT ![m] = IF decision = NULL THEN Rearmed(row[m], ts)
                                 ELSE Woken(row[m], decision, ts)]
    /\ UNCHANGED issued

-----------------------------------------------------------------------------
(* Deliveries, by the commands the Desktop-owned dispatchers run. *)

Delivering == {m \in Monitor : row[m].state = "DELIVERING"}

DueDeliveries(ts) ==
    {m \in Monitor : /\ row[m].state = "DELIVERY_PENDING"
                     /\ row[m].next_delivery_at = NULL \/ row[m].next_delivery_at <= ts}

\* ORDER BY COALESCE(next_delivery_at, 0), created_at
DeliveryBefore(m, n) ==
    LET key(x) == IF row[x].next_delivery_at = NULL THEN 0 ELSE row[x].next_delivery_at IN
    \/ key(m) < key(n)
    \/ key(m) = key(n) /\ row[m].created_at < row[n].created_at

FirstDueDeliveries(ts) ==
    {m \in DueDeliveries(ts) : \A n \in DueDeliveries(ts) : ~DeliveryBefore(n, m)}

\* Mutant: no NOT EXISTS.
MutClaimDueDeliveryConcurrent(m, tok, ts) ==
    /\ m \in FirstDueDeliveries(ts)
    /\ FreshToken(tok)
    /\ row' = [row EXCEPT ![m] =
                 [Claimed(row[m], "DELIVERING", tok, ts + DeliveryLease)
                    EXCEPT !.delivery_attempts = @ + 1]]
    /\ issued' = tok

\* At most one delivery is in flight in the whole table (NOT EXISTS).
ClaimDueDelivery(m, tok, ts) ==
    /\ Delivering = {}
    /\ m \in FirstDueDeliveries(ts)
    /\ FreshToken(tok)
    /\ row' = [row EXCEPT ![m] =
                 [Claimed(row[m], "DELIVERING", tok, ts + DeliveryLease)
                    EXCEPT !.delivery_attempts = @ + 1]]
    /\ issued' = tok

\* Only the first anchor sticks (COALESCE).
Anchored(r, a) ==
    IF r.delivery_rollout = NULL THEN [r EXCEPT !.delivery_rollout = a] ELSE r

\* The claim is kept: the attempt goes on.
RecordDeliveryAnchor(m, tok, a) ==
    /\ HoldsClaim(m, tok, "DELIVERING")
    /\ row' = [row EXCEPT ![m] = Anchored(row[m], a)]
    /\ UNCHANGED issued

\* Mutant: the two parameters in the wrong order.
MutDeliveredSwapped(r, a, t) ==
    [Released(r) EXCEPT !.state = "DELIVERED",
                        !.started_turn_id = a,
                        !.delivery_rollout = t,
                        !.next_delivery_at = NULL]

\* The result brings the turn and the anchor it was found after.
Delivered(r, a, t) ==
    [Released(r) EXCEPT !.state = "DELIVERED",
                        !.started_turn_id = t,
                        !.delivery_rollout = a,
                        !.next_delivery_at = NULL]

DeliverySucceeded(m, tok, a, t) ==
    /\ HoldsClaim(m, tok, "DELIVERING")
    /\ row' = [row EXCEPT ![m] = Delivered(row[m], a, t)]
    /\ UNCHANGED issued

\* Mutant: every attempt starts from a new anchor.
MutRetriedDropsAnchor(r, delay, ts) ==
    [Released(r) EXCEPT !.state = "DELIVERY_PENDING",
                        !.next_delivery_at = ts + delay,
                        !.delivery_rollout = NULL]

Retried(r, delay, ts) ==
    [Released(r) EXCEPT !.state = "DELIVERY_PENDING", !.next_delivery_at = ts + delay]

DeliveryRetry(m, tok, delay, ts) ==
    /\ HoldsClaim(m, tok, "DELIVERING")
    /\ row' = [row EXCEPT ![m] = Retried(row[m], delay, ts)]
    /\ UNCHANGED issued

\* Mutant: the delivery stays scheduled.
MutBlockedKeepsSchedule(r, reason, ts) ==
    [Released(r) EXCEPT !.state = "CANCELLED",
                        !.delivery_blocked_reason = reason,
                        !.cancelled_at = ts]

\* Mutant: no cancellation time.
MutBlockedUndated(r, reason, ts) ==
    [Released(r) EXCEPT !.state = "CANCELLED",
                        !.delivery_blocked_reason = reason,
                        !.next_delivery_at = NULL]

\* The circuit breaker: terminal.
Blocked(r, reason, ts) ==
    [Released(r) EXCEPT !.state = "CANCELLED",
                        !.delivery_blocked_reason = reason,
                        !.next_delivery_at = NULL,
                        !.cancelled_at = ts]

DeliveryBlocked(m, tok, reason, ts) ==
    /\ HoldsClaim(m, tok, "DELIVERING")
    /\ row' = [row EXCEPT ![m] = Blocked(row[m], reason, ts)]
    /\ UNCHANGED issued

-----------------------------------------------------------------------------

Init ==
    /\ row = [m \in Monitor |-> NoRow]
    /\ issued = 0

\* The calls a process makes on behalf of a claim it holds or once held.
ClaimHolder(m, tok, ts) ==
    \/ \E decision \in Null(WakeReason) : CompleteCheck(m, tok, decision, ts)
    \/ \E a \in Anchor : RecordDeliveryAnchor(m, tok, a)
    \/ \E a \in Anchor, t \in Turn : DeliverySucceeded(m, tok, a, t)
    \/ \E delay \in RetryDelay : DeliveryRetry(m, tok, delay, ts)
    \/ \E reason \in BlockReason : DeliveryBlocked(m, tok, reason, ts)

Step(ts) ==
    \/ RecoverStale(ts)
    \/ \E m \in Monitor :
         \/ \E i \in Interval, t \in Timeout : Register(m, i, t, ts)
         \/ Cancel(m, ts)
         \/ \E tok \in Token :
              \/ ClaimDueCheck(m, tok, ts)
              \/ ClaimDueDelivery(m, tok, ts)
              \/ ClaimHolder(m, tok, ts)

Next == \E ts \in Time : Step(ts)

Spec == Init /\ [][Next]_vars

-----------------------------------------------------------------------------
(* Safety. *)

Terminal(r) == r.state \in {"DELIVERED", "CANCELLED"}

\* README: "There is now one thread writer".  However leases expire and
\* dispatchers overlap, at most one monitor of the table is being delivered.
OneDelivering == \A m, n \in Delivering : m = n

\* A row is claimed exactly in the states that mean somebody works on it, and
\* no two rows ever share a token, so the token alone tells an attempt from a
\* later attempt at the same row (the WHERE clauses of store.py rely on it).
ClaimColumns(r) ==
    /\ r.claim_token # NULL <=> r.state \in ClaimedStates
    /\ r.claim_expires_at # NULL <=> r.state \in ClaimedStates
    /\ r.claim_token # NULL => r.claim_token <= issued

ClaimsExclusive ==
    /\ \A m \in Monitor : ClaimColumns(row[m])
    /\ \A m, n \in Monitor :
         row[m].claim_token = row[n].claim_token /\ m # n => row[m].claim_token = NULL

\* The delivery columns agree with the state: a wait has a wake reason exactly
\* from its wake-up on, a delivery is scheduled exactly while one is owed, and an
\* anchor is taken for a woken row only;
\* otherwise the claim query skips a woken row or picks up a finished one.
DeliveryColumns(r) ==
    /\ r.state \in {"ABSENT", "WAITING", "CHECKING"} => r.wake_reason = NULL
    /\ r.state \in {"DELIVERY_PENDING", "DELIVERING", "DELIVERED"} => r.wake_reason # NULL
    /\ r.next_delivery_at # NULL <=> r.state \in {"DELIVERY_PENDING", "DELIVERING"}
    /\ r.state = "DELIVERING" => r.delivery_attempts > 0
    /\ r.delivery_rollout # NULL => r.wake_reason # NULL

DeliveryScheduled == \A m \in Monitor : DeliveryColumns(row[m])

\* A wait ends one way: a consuming turn is on record exactly when it was
\* delivered, a cancellation time exactly when it was cancelled, and a blocked
\* delivery is a cancelled one that had been woken and attempted; so the phase
\* that cli.py derives from these columns is never ambiguous.
OutcomeColumns(r) ==
    /\ r.started_turn_id # NULL <=> r.state = "DELIVERED"
    /\ r.cancelled_at # NULL <=> r.state = "CANCELLED"
    /\ r.delivery_blocked_reason # NULL =>
         r.state = "CANCELLED" /\ r.wake_reason # NULL /\ r.delivery_attempts > 0

OutcomeExclusive == \A m \in Monitor : OutcomeColumns(row[m])

\* No call by anyone, with any token, at any reading of the clock, touches a
\* delivered or cancelled row again.
TerminalFrozen == [][\A m \in Monitor : Terminal(row[m]) => row'[m] = row[m]]_vars

\* What `status` and `list` show of a delivery (delivery_started_at is written with the
\* anchor).
Delivery_phase(r) ==
    IF r.started_turn_id # NULL THEN "started"
    ELSE IF r.delivery_blocked_reason # NULL THEN "blocked"
    ELSE IF r.state = "CANCELLED" THEN "cancelled"
    ELSE IF r.delivery_rollout # NULL THEN "submitting"
    ELSE IF r.state \in {"DELIVERY_PENDING", "DELIVERING"} THEN "pending"
    ELSE "not_started"

\* The phases that may follow a phase, besides itself.
LaterPhases(phase) ==
    CASE phase = "not_started" -> {"pending", "submitting", "started", "blocked", "cancelled"}
      [] phase = "pending"     -> {"submitting", "started", "blocked", "cancelled"}
      [] phase = "submitting"  -> {"started", "blocked", "cancelled"}
      [] OTHER                 -> {}

\* What is shown of a delivery never goes back: an attempt that may have sent the message
\* shows as submitting through every retry, recovery and late answer, and the three ways
\* to end stay apart.
PhaseAdvances ==
    [][\A m \in Monitor :
        LET before == Delivery_phase(row[m])
            after == Delivery_phase(row'[m])
        IN  after # before => after \in LaterPhases(before)]_vars

PhaseOf(r) ==
    CASE r.state = "ABSENT"                             -> "unregistered"
      [] r.state \in {"WAITING", "CHECKING"}            -> "waiting"
      [] r.state \in {"DELIVERY_PENDING", "DELIVERING"} -> "woken"
      [] r.state = "DELIVERED"                          -> "delivered"
      [] r.state = "CANCELLED"                          -> "cancelled"

\* The wait a row stands for.
W == INSTANCE Wait WITH
        phase  <- [m \in Monitor |-> PhaseOf(row[m])],
        reason <- [m \in Monitor |-> row[m].wake_reason],
        turn   <- [m \in Monitor |-> row[m].started_turn_id]

\* Whatever the lease traffic, each wait is woken for one reason and consumed
\* by one turn: leases, retries and recoveries are stuttering steps of Wait.
ImplementsWait == W!Spec
=============================================================================
