---------------------------- MODULE StoreProofs -----------------------------
(***************************************************************************)
(* Proofs about module Store, for every set of monitors, tokens and        *)
(* readings of the clock, and every lease, delay, interval and timeout.    *)
(*                                                                         *)
(* The inductive invariant is the conjunction of the properties MCStore    *)
(* checks.  None of them is inductive alone: that a blocked row had been   *)
(* woken (OutcomeExclusive) needs the wake reason of a delivering row      *)
(* (DeliveryScheduled); that tokens differ (ClaimsExclusive) needs a bound *)
(* on the tokens in use.                                                   *)
(***************************************************************************)
EXTENDS Store, TLAPS

IInv ==
    /\ TypeOK
    /\ OneDelivering
    /\ ClaimsExclusive
    /\ DeliveryScheduled
    /\ OutcomeExclusive

\* What the invariant says of one row, but for the bound on its token.
GoodRow(r) ==
    /\ r \in Row
    /\ r.claim_token # NULL <=> r.state \in ClaimedStates
    /\ r.claim_expires_at # NULL <=> r.state \in ClaimedStates
    /\ DeliveryColumns(r)
    /\ OutcomeColumns(r)

UnclaimedCopy(p, r) ==
    /\ p.wake_reason = r.wake_reason
    /\ p.next_delivery_at = r.next_delivery_at
    /\ p.delivery_attempts = r.delivery_attempts
    /\ p.started_turn_id = r.started_turn_id
    /\ p.cancelled_at = r.cancelled_at
    /\ p.delivery_blocked_reason = r.delivery_blocked_reason
    /\ p.delivery_rollout = r.delivery_rollout

-----------------------------------------------------------------------------
(* What each write to one row preserves.  The table changes one row at a   *)
(* time, RecoverStale excepted, so the actions only combine these facts.   *)

\* The clock reads natural numbers.
LEMMA TimeIsNat == \A ts \in Time : ts \in Nat
BY StoreAssumption DEF StoreAssumption

\* The lesser of two naturals is one (MIN in the ORDER BY, min in register).
LEMMA LesserNat == ASSUME NEW a \in Nat, NEW b \in Nat PROVE Lesser(a, b) \in Nat
BY DEF Lesser

\* An unclaimed copy of a row differs from it in its claim columns only.
LEMMA ReleasedRow ==
    ASSUME NEW r \in Row
    PROVE  /\ Released(r) \in Row
           /\ Released(r).claim_token = NULL
           /\ Released(r).claim_expires_at = NULL
           /\ UnclaimedCopy(Released(r), r)
BY DEF Released, UnclaimedCopy, Row, Null

\* An unregistered id satisfies the invariant.
LEMMA AbsentRow == GoodRow(NoRow)
BY StoreAssumption
   DEF StoreAssumption, GoodRow, NoRow, Row, AllStates, ActiveStates, ClaimedStates, Null,
       DeliveryColumns, OutcomeColumns

\* register writes a good row.
LEMMA RegisteredRow ==
    ASSUME NEW i \in Interval, NEW t \in Timeout, NEW ts \in Time
    PROVE  GoodRow(Registered(i, t, ts))
<1>1. ts \in Nat /\ i \in Nat /\ ts + t \in Nat /\ ts + i \in Nat
  BY StoreAssumption DEF StoreAssumption
<1>2. Lesser(ts + i, ts + t) \in Nat
  BY <1>1, LesserNat
<1>3. Registered(i, t, ts) \in Row
  BY <1>1, <1>2 DEF Registered, Row, NoRow, AllStates, ActiveStates, Null
<1>4. QED
  BY <1>3 DEF GoodRow, Registered, NoRow, ClaimedStates, DeliveryColumns, OutcomeColumns

\* cancel turns an active row into a good row.
LEMMA CancelledRow ==
    ASSUME NEW r, GoodRow(r), NEW ts \in Nat, r.state \in ActiveStates
    PROVE  GoodRow(Cancelled(r, ts))
<1> DEFINE p == Released(r)
           q == Cancelled(r, ts)
<1>1. r \in Row
  BY DEF GoodRow
<1>3. /\ p \in Row
      /\ p.claim_token = NULL /\ p.claim_expires_at = NULL
      /\ UnclaimedCopy(p, r)
  BY <1>1, ReleasedRow
<1> HIDE DEF p
<1>4. q \in Row
  BY <1>3 DEF Cancelled, p, Row, AllStates, ActiveStates, Null
<1>5. QED
  BY <1>3, <1>4, StoreAssumption
     DEF Cancelled, p, UnclaimedCopy, StoreAssumption, GoodRow, Row, Null, ActiveStates, ClaimedStates,
         DeliveryColumns, OutcomeColumns

\* complete_check with a decision turns a checking row into a good row.
LEMMA WokenRow ==
    ASSUME NEW r, GoodRow(r), NEW d \in WakeReason, NEW ts \in Nat, r.state = "CHECKING"
    PROVE  GoodRow(Woken(r, d, ts))
<1> DEFINE p == Released(r)
           q == Woken(r, d, ts)
<1>1. r \in Row
  BY DEF GoodRow
<1>3. /\ p \in Row
      /\ p.claim_token = NULL /\ p.claim_expires_at = NULL
      /\ UnclaimedCopy(p, r)
  BY <1>1, ReleasedRow
<1> HIDE DEF p
<1>4. q \in Row
  BY <1>3 DEF Woken, p, Row, AllStates, ActiveStates, Null
<1>5. QED
  BY <1>3, <1>4, StoreAssumption
     DEF Woken, p, UnclaimedCopy, StoreAssumption, GoodRow, Row, Null, ActiveStates, ClaimedStates,
         DeliveryColumns, OutcomeColumns

\* complete_check without a decision turns a checking row into a good row.
LEMMA RearmedRow ==
    ASSUME NEW r, GoodRow(r), NEW ts \in Nat, r.state = "CHECKING"
    PROVE  GoodRow(Rearmed(r, ts))
<1> DEFINE p == Released(r)
           q == Rearmed(r, ts)
<1>1. r \in Row
  BY DEF GoodRow
<1>2. Lesser(ts + r.interval_seconds, r.deadline_at) \in Nat
  <2>1. r.interval_seconds \in Nat /\ r.deadline_at \in Nat
    BY <1>1 DEF Row
  <2>2. ts + r.interval_seconds \in Nat
    BY <2>1
  <2>3. QED
    BY <2>1, <2>2, LesserNat
<1>3. /\ p \in Row
      /\ p.claim_token = NULL /\ p.claim_expires_at = NULL
      /\ UnclaimedCopy(p, r)
  BY <1>1, ReleasedRow
<1> HIDE DEF p
<1>4. q \in Row
  BY <1>3, <1>2 DEF Rearmed, p, Row, AllStates, ActiveStates, Null
<1>5. QED
  BY <1>3, <1>4, StoreAssumption
     DEF Rearmed, p, UnclaimedCopy, StoreAssumption, GoodRow, Row, Null, ActiveStates, ClaimedStates,
         DeliveryColumns, OutcomeColumns

\* record_delivery_anchor leaves a delivering row good.
LEMMA AnchoredRow ==
    ASSUME NEW r, GoodRow(r), NEW a \in Anchor, r.state = "DELIVERING"
    PROVE  GoodRow(Anchored(r, a))
<1>1. r \in Row
  BY DEF GoodRow
<1>2. Anchored(r, a) \in Row
  BY <1>1 DEF Anchored, Row, Null
<1>3. QED
  BY <1>1, <1>2 DEF Anchored, GoodRow, Row, DeliveryColumns, OutcomeColumns

\* delivery_succeeded turns a delivering row into a good row.
LEMMA DeliveredRow ==
    ASSUME NEW r, GoodRow(r), NEW a \in Anchor, NEW t \in Turn, r.state = "DELIVERING"
    PROVE  GoodRow(Delivered(r, a, t))
<1> DEFINE p == Released(r)
           q == Delivered(r, a, t)
<1>1. r \in Row
  BY DEF GoodRow
<1>3. /\ p \in Row
      /\ p.claim_token = NULL /\ p.claim_expires_at = NULL
      /\ UnclaimedCopy(p, r)
  BY <1>1, ReleasedRow
<1> HIDE DEF p
<1>4. q \in Row
  BY <1>3 DEF Delivered, p, Row, AllStates, ActiveStates, Null
<1>5. QED
  BY <1>3, <1>4, StoreAssumption
     DEF Delivered, p, UnclaimedCopy, StoreAssumption, GoodRow, Row, Null, ActiveStates, ClaimedStates,
         DeliveryColumns, OutcomeColumns

\* delivery_retry turns a delivering row into a good row.
LEMMA RetriedRow ==
    ASSUME NEW r, GoodRow(r), NEW d \in Nat, NEW ts \in Nat, r.state = "DELIVERING"
    PROVE  GoodRow(Retried(r, d, ts))
<1> DEFINE p == Released(r)
           q == Retried(r, d, ts)
<1>1. r \in Row
  BY DEF GoodRow
<1>2. ts + d \in Nat
  OBVIOUS
<1>3. /\ p \in Row
      /\ p.claim_token = NULL /\ p.claim_expires_at = NULL
      /\ UnclaimedCopy(p, r)
  BY <1>1, ReleasedRow
<1> HIDE DEF p
<1>4. q \in Row
  BY <1>3, <1>2 DEF Retried, p, Row, AllStates, ActiveStates, Null
<1>5. QED
  BY <1>3, <1>4, StoreAssumption
     DEF Retried, p, UnclaimedCopy, StoreAssumption, GoodRow, Row, Null, ActiveStates, ClaimedStates,
         DeliveryColumns, OutcomeColumns

\* delivery_blocked turns a delivering row into a good row.
LEMMA BlockedRow ==
    ASSUME NEW r, GoodRow(r), NEW reason \in BlockReason, NEW ts \in Nat, r.state = "DELIVERING"
    PROVE  GoodRow(Blocked(r, reason, ts))
<1> DEFINE p == Released(r)
           q == Blocked(r, reason, ts)
<1>1. r \in Row
  BY DEF GoodRow
<1>3. /\ p \in Row
      /\ p.claim_token = NULL /\ p.claim_expires_at = NULL
      /\ UnclaimedCopy(p, r)
  BY <1>1, ReleasedRow
<1> HIDE DEF p
<1>4. q \in Row
  BY <1>3 DEF Blocked, p, Row, AllStates, ActiveStates, Null
<1>5. QED
  BY <1>3, <1>4, StoreAssumption
     DEF Blocked, p, UnclaimedCopy, StoreAssumption, GoodRow, Row, Null, ActiveStates, ClaimedStates,
         DeliveryColumns, OutcomeColumns

\* recover_stale leaves a row alone or gives up its claim, and keeps it good.
LEMMA RecoveredRow ==
    ASSUME NEW r, GoodRow(r), NEW ts \in Nat
    PROVE  GoodRow(Recovered(r, ts))
<1> DEFINE p == Released(r)
<1>1. r \in Row
  BY DEF GoodRow
<1>2. /\ p \in Row
      /\ p.claim_token = NULL /\ p.claim_expires_at = NULL
      /\ UnclaimedCopy(p, r)
  BY <1>1, ReleasedRow
<1>3. CASE r.state = "CHECKING" /\ Expired(r, ts)
  <2> DEFINE q == [p EXCEPT !.state = "WAITING", !.next_check_at = ts]
  <2>1. Recovered(r, ts) = q
    BY <1>3 DEF Recovered
  <2> HIDE DEF p
  <2>2. q \in Row
    BY <1>2 DEF Row, AllStates, ActiveStates
  <2>3. GoodRow(q)
    BY <1>2, <1>3, <2>2 DEF UnclaimedCopy, GoodRow, Row, ClaimedStates, DeliveryColumns, OutcomeColumns
  <2>4. QED
    BY <2>1, <2>3
<1>4. CASE r.state = "DELIVERING" /\ Expired(r, ts)
  <2> DEFINE q == [p EXCEPT !.state = "DELIVERY_PENDING", !.next_delivery_at = ts]
  <2>1. Recovered(r, ts) = q
    BY <1>4 DEF Recovered
  <2> HIDE DEF p
  <2>2. q \in Row
    BY <1>2 DEF Row, AllStates, ActiveStates, Null
  <2>3. GoodRow(q)
    BY <1>2, <1>4, <2>2, StoreAssumption
       DEF StoreAssumption, UnclaimedCopy, GoodRow, Row, ClaimedStates, DeliveryColumns, OutcomeColumns
  <2>4. QED
    BY <2>1, <2>3
<1>5. CASE ~(r.state \in ClaimedStates /\ Expired(r, ts))
  BY <1>5 DEF Recovered, ClaimedStates
<1>6. QED
  BY <1>3, <1>4, <1>5 DEF ClaimedStates

\* claim_due_check turns a waiting row into a good row.
LEMMA CheckClaimedRow ==
    ASSUME NEW r, GoodRow(r), NEW tok \in Token, NEW e \in Nat, r.state = "WAITING"
    PROVE  GoodRow(Claimed(r, "CHECKING", tok, e))
<1>1. r \in Row /\ tok # NULL /\ e # NULL
  BY StoreAssumption DEF GoodRow, StoreAssumption
<1>2. Claimed(r, "CHECKING", tok, e) \in Row
  BY <1>1 DEF Claimed, Row, AllStates, ActiveStates, Null
<1>3. QED
  BY <1>1, <1>2 DEF Claimed, GoodRow, Row, ClaimedStates, DeliveryColumns, OutcomeColumns

\* claim_due_delivery turns a pending row into a good row.
LEMMA DeliveryClaimedRow ==
    ASSUME NEW r, GoodRow(r), NEW tok \in Token, NEW e \in Nat, r.state = "DELIVERY_PENDING"
    PROVE  GoodRow([Claimed(r, "DELIVERING", tok, e) EXCEPT !.delivery_attempts = @ + 1])
<1> DEFINE c == Claimed(r, "DELIVERING", tok, e)
           q == [c EXCEPT !.delivery_attempts = @ + 1]
<1>1. r \in Row /\ tok # NULL /\ e # NULL /\ r.delivery_attempts \in Nat
  BY StoreAssumption DEF GoodRow, StoreAssumption, Row
<1>2. c \in Row /\ c.delivery_attempts = r.delivery_attempts
  BY <1>1 DEF Claimed, Row, AllStates, ActiveStates, Null
<1>3. q \in Row
  <2> HIDE DEF c
  <2>1. QED
    BY <1>2 DEF Row
<1>4. q.delivery_attempts > 0
  <2> HIDE DEF c
  <2>1. QED
    BY <1>1, <1>2 DEF Row
<1>5. QED
  BY <1>1, <1>3, <1>4 DEF Claimed, GoodRow, Row, ClaimedStates, DeliveryColumns, OutcomeColumns

-----------------------------------------------------------------------------
(* The invariant. *)

\* The inductive invariant says of every row that it is good.
LEMMA RowsGood == IInv => \A m \in Monitor : GoodRow(row[m])
BY DEF IInv, TypeOK, ClaimsExclusive, ClaimColumns, DeliveryScheduled, OutcomeExclusive, GoodRow

\* A write to one row keeps the invariant when the row it leaves is good, when
\* a token it brings is new, and when it starts no delivery beside another.
LEMMA OneRowWritten ==
    ASSUME IInv,
           NEW m \in Monitor, NEW q, GoodRow(q),
           row' = [row EXCEPT ![m] = q],
           \/ issued' = issued /\ q.claim_token = NULL
           \/ issued' = issued /\ q.claim_token = row[m].claim_token
           \/ issued' = issued + 1 /\ q.claim_token = issued',
           q.state = "DELIVERING" => row[m].state = "DELIVERING" \/ Delivering = {}
    PROVE  IInv'
<1>1. /\ row \in [Monitor -> Row] /\ issued \in Nat /\ q \in Row
      /\ \A n \in Monitor : GoodRow(row[n])
  BY RowsGood DEF IInv, TypeOK, GoodRow
<1>2. /\ row'[m] = q /\ \A n \in Monitor : n # m => row'[n] = row[n]
      /\ issued' \in Nat /\ issued <= issued'
  BY <1>1
<1>3. TypeOK'
  BY <1>1, <1>2 DEF TypeOK
<1>4. \A n \in Monitor : GoodRow(row'[n])
  BY <1>1, <1>2
<1>5. OneDelivering'
  BY <1>2 DEF IInv, OneDelivering, Delivering
<1>6. \A n \in Monitor : row[n].claim_token # NULL => row[n].claim_token <= issued
  BY DEF IInv, ClaimsExclusive, ClaimColumns
<1>7. \A n \in Monitor : row[n].claim_token # NULL => row[n].claim_token \in Nat
  BY <1>1, StoreAssumption DEF StoreAssumption, Row, Null
<1>8. \A n \in Monitor : row'[n].claim_token # NULL => row'[n].claim_token <= issued'
  BY <1>1, <1>2, <1>6, <1>7
<1>9. \A n \in Monitor : n # m /\ row[n].claim_token = q.claim_token => q.claim_token = NULL
  BY <1>1, <1>6, <1>7 DEF IInv, ClaimsExclusive
<1>10. ClaimsExclusive'
  <2>1. \A n \in Monitor : ClaimColumns(row[n])'
    BY <1>4, <1>8 DEF GoodRow, ClaimColumns
  <2>2. \A n1, n2 \in Monitor :
          row'[n1].claim_token = row'[n2].claim_token /\ n1 # n2 => row'[n1].claim_token = NULL
    BY <1>2, <1>9 DEF IInv, ClaimsExclusive
  <2>3. QED
    BY <2>1, <2>2 DEF ClaimsExclusive
<1>11. DeliveryScheduled' /\ OutcomeExclusive'
  BY <1>4 DEF GoodRow, DeliveryScheduled, OutcomeExclusive
<1>12. QED
  BY <1>3, <1>5, <1>10, <1>11 DEF IInv

\* The empty table satisfies the inductive invariant.
LEMMA InvInit == Init => IInv
<1> SUFFICES ASSUME Init PROVE IInv
  OBVIOUS
<1>1. \A m \in Monitor : row[m] = NoRow
  BY DEF Init
<1>2. TypeOK
  BY AbsentRow DEF Init, TypeOK, GoodRow
<1>3. OneDelivering
  BY <1>1 DEF OneDelivering, Delivering, NoRow
<1>4. ClaimsExclusive
  BY <1>1, AbsentRow DEF ClaimsExclusive, ClaimColumns, GoodRow, NoRow
<1>5. DeliveryScheduled /\ OutcomeExclusive
  BY <1>1, AbsentRow DEF DeliveryScheduled, OutcomeExclusive, GoodRow
<1>6. QED
  BY <1>2, <1>3, <1>4, <1>5 DEF IInv

-----------------------------------------------------------------------------
(* One lemma per action of the table. *)

\* register preserves the inductive invariant.
LEMMA RegisterInv ==
    ASSUME IInv, NEW m \in Monitor, NEW i \in Interval, NEW t \in Timeout, NEW ts \in Time,
           Register(m, i, t, ts)
    PROVE  IInv'
<1> DEFINE q == Registered(i, t, ts)
<1>1. GoodRow(q) /\ issued \in Nat
  BY RegisteredRow DEF IInv, TypeOK
<1>2. q.state = "WAITING"
  BY DEF Registered, NoRow
<1>3. q.claim_token = NULL
  BY <1>1, <1>2 DEF GoodRow, ClaimedStates
<1>4. row' = [row EXCEPT ![m] = q] /\ issued' = issued
  BY DEF Register
<1> HIDE DEF q
<1>5. QED
  BY <1>1, <1>2, <1>3, <1>4, OneRowWritten

\* cancel preserves the inductive invariant.
LEMMA CancelInv ==
    ASSUME IInv, NEW m \in Monitor, NEW ts \in Time, Cancel(m, ts)
    PROVE  IInv'
<1> DEFINE q == Cancelled(row[m], ts)
<1>1. GoodRow(row[m]) /\ issued \in Nat
  BY RowsGood DEF IInv, TypeOK
<1>2. GoodRow(q)
  BY <1>1, TimeIsNat, CancelledRow DEF Cancel
<1>3. q.state = "CANCELLED" /\ row[m] \in Row
  BY <1>1 DEF Cancelled, Released, GoodRow, Row
<1>4. q.claim_token = NULL
  BY <1>2, <1>3 DEF GoodRow, ClaimedStates
<1>5. row' = [row EXCEPT ![m] = q] /\ issued' = issued
  BY DEF Cancel
<1> HIDE DEF q
<1>6. QED
  BY <1>1, <1>2, <1>3, <1>4, <1>5, OneRowWritten

\* delivery_succeeded preserves the inductive invariant.
LEMMA SucceededInv ==
    ASSUME IInv, NEW m \in Monitor, NEW tok, NEW a \in Anchor, NEW t \in Turn,
           DeliverySucceeded(m, tok, a, t)
    PROVE  IInv'
<1> DEFINE q == Delivered(row[m], a, t)
<1>1. GoodRow(row[m]) /\ issued \in Nat
  BY RowsGood DEF IInv, TypeOK
<1>2. GoodRow(q)
  BY <1>1, TimeIsNat, DeliveredRow DEF DeliverySucceeded, HoldsClaim
<1>3. q.state = "DELIVERED" /\ row[m] \in Row
  BY <1>1 DEF Delivered, Released, GoodRow, Row
<1>4. q.claim_token = NULL
  BY <1>2, <1>3 DEF GoodRow, ClaimedStates
<1>5. row' = [row EXCEPT ![m] = q] /\ issued' = issued
  BY DEF DeliverySucceeded
<1> HIDE DEF q
<1>6. QED
  BY <1>1, <1>2, <1>3, <1>4, <1>5, OneRowWritten

\* delivery_retry preserves the inductive invariant.
LEMMA RetryInv ==
    ASSUME IInv, NEW m \in Monitor, NEW tok, NEW d \in RetryDelay, NEW ts \in Time,
           DeliveryRetry(m, tok, d, ts)
    PROVE  IInv'
<1> DEFINE q == Retried(row[m], d, ts)
<1>1. GoodRow(row[m]) /\ issued \in Nat
  BY RowsGood DEF IInv, TypeOK
<1>2. GoodRow(q)
  BY <1>1, TimeIsNat, RetriedRow, StoreAssumption DEF DeliveryRetry, HoldsClaim, StoreAssumption
<1>3. q.state = "DELIVERY_PENDING" /\ row[m] \in Row
  BY <1>1 DEF Retried, Released, GoodRow, Row
<1>4. q.claim_token = NULL
  BY <1>2, <1>3 DEF GoodRow, ClaimedStates
<1>5. row' = [row EXCEPT ![m] = q] /\ issued' = issued
  BY DEF DeliveryRetry
<1> HIDE DEF q
<1>6. QED
  BY <1>1, <1>2, <1>3, <1>4, <1>5, OneRowWritten

\* delivery_blocked preserves the inductive invariant.
LEMMA BlockedInv ==
    ASSUME IInv, NEW m \in Monitor, NEW tok, NEW reason \in BlockReason, NEW ts \in Time,
           DeliveryBlocked(m, tok, reason, ts)
    PROVE  IInv'
<1> DEFINE q == Blocked(row[m], reason, ts)
<1>1. GoodRow(row[m]) /\ issued \in Nat
  BY RowsGood DEF IInv, TypeOK
<1>2. GoodRow(q)
  BY <1>1, TimeIsNat, BlockedRow DEF DeliveryBlocked, HoldsClaim
<1>3. q.state = "CANCELLED" /\ row[m] \in Row
  BY <1>1 DEF Blocked, Released, GoodRow, Row
<1>4. q.claim_token = NULL
  BY <1>2, <1>3 DEF GoodRow, ClaimedStates
<1>5. row' = [row EXCEPT ![m] = q] /\ issued' = issued
  BY DEF DeliveryBlocked
<1> HIDE DEF q
<1>6. QED
  BY <1>1, <1>2, <1>3, <1>4, <1>5, OneRowWritten

\* complete_check preserves the inductive invariant.
LEMMA CompleteInv ==
    ASSUME IInv, NEW m \in Monitor, NEW tok, NEW d \in Null(WakeReason), NEW ts \in Time,
           CompleteCheck(m, tok, d, ts)
    PROVE  IInv'
<1> DEFINE q == IF d = NULL THEN Rearmed(row[m], ts) ELSE Woken(row[m], d, ts)
<1>1. GoodRow(row[m]) /\ row[m].state = "CHECKING" /\ issued \in Nat
  BY RowsGood DEF IInv, TypeOK, CompleteCheck, HoldsClaim
<1>2. GoodRow(Rearmed(row[m], ts))
  BY <1>1, TimeIsNat, RearmedRow
<1>3. d # NULL => GoodRow(Woken(row[m], d, ts))
  BY <1>1, TimeIsNat, WokenRow DEF Null
<1>4. GoodRow(q)
  BY <1>2, <1>3
<1>5. q.state \in {"WAITING", "DELIVERY_PENDING"}
  BY <1>1 DEF Rearmed, Woken, Released, GoodRow, Row
<1>6. q.claim_token = NULL
  BY <1>4, <1>5 DEF GoodRow, ClaimedStates
<1>7. row' = [row EXCEPT ![m] = q] /\ issued' = issued
  BY DEF CompleteCheck
<1> HIDE DEF q
<1>8. QED
  BY <1>1, <1>4, <1>5, <1>6, <1>7, OneRowWritten

\* record_delivery_anchor preserves the inductive invariant.
LEMMA AnchorInv ==
    ASSUME IInv, NEW m \in Monitor, NEW tok, NEW a \in Anchor, RecordDeliveryAnchor(m, tok, a)
    PROVE  IInv'
<1> DEFINE q == Anchored(row[m], a)
<1>1. GoodRow(row[m]) /\ row[m].state = "DELIVERING" /\ issued \in Nat
  BY RowsGood DEF IInv, TypeOK, RecordDeliveryAnchor, HoldsClaim
<1>2. GoodRow(q) /\ q.claim_token = row[m].claim_token
  BY <1>1, AnchoredRow DEF Anchored, GoodRow, Row
<1>3. row' = [row EXCEPT ![m] = q] /\ issued' = issued
  BY DEF RecordDeliveryAnchor
<1> HIDE DEF q
<1>4. QED
  BY <1>1, <1>2, <1>3, OneRowWritten

\* claim_due_check preserves the inductive invariant.
LEMMA ClaimCheckInv ==
    ASSUME IInv, NEW m \in Monitor, NEW tok \in Token, NEW ts \in Time, ClaimDueCheck(m, tok, ts)
    PROVE  IInv'
<1> DEFINE q == Claimed(row[m], "CHECKING", tok, ts + CheckLease)
<1>1. GoodRow(row[m]) /\ row[m].state = "WAITING" /\ issued \in Nat
  BY RowsGood DEF IInv, TypeOK, ClaimDueCheck, FirstDueChecks, DueChecks
<1>2. tok \in Nat /\ issued' = tok /\ issued' = issued + 1 /\ ts + CheckLease \in Nat
  BY TimeIsNat, StoreAssumption DEF ClaimDueCheck, FreshToken, StoreAssumption
<1>3. GoodRow(q)
  BY <1>1, <1>2, CheckClaimedRow
<1>4. q.state = "CHECKING" /\ q.claim_token = issued'
  BY <1>1, <1>2 DEF Claimed, GoodRow, Row
<1>5. row' = [row EXCEPT ![m] = q]
  BY DEF ClaimDueCheck
<1> HIDE DEF q
<1>6. QED
  BY <1>1, <1>2, <1>3, <1>4, <1>5, OneRowWritten

\* claim_due_delivery preserves the inductive invariant.
LEMMA ClaimDeliveryInv ==
    ASSUME IInv, NEW m \in Monitor, NEW tok \in Token, NEW ts \in Time,
           ClaimDueDelivery(m, tok, ts)
    PROVE  IInv'
<1> DEFINE q == [Claimed(row[m], "DELIVERING", tok, ts + DeliveryLease)
                   EXCEPT !.delivery_attempts = @ + 1]
<1>1. GoodRow(row[m]) /\ row[m].state = "DELIVERY_PENDING" /\ issued \in Nat
  BY RowsGood DEF IInv, TypeOK, ClaimDueDelivery, FirstDueDeliveries, DueDeliveries
<1>2. tok \in Nat /\ issued' = tok /\ issued' = issued + 1 /\ ts + DeliveryLease \in Nat
  BY TimeIsNat, StoreAssumption DEF ClaimDueDelivery, FreshToken, StoreAssumption
<1>3. GoodRow(q)
  BY <1>1, <1>2, DeliveryClaimedRow
<1>4. q.claim_token = issued'
  BY <1>1, <1>2 DEF Claimed, GoodRow, Row
<1>5. row' = [row EXCEPT ![m] = q] /\ Delivering = {}
  BY DEF ClaimDueDelivery
<1> HIDE DEF q
<1>6. QED
  BY <1>1, <1>2, <1>3, <1>4, <1>5, OneRowWritten

\* The one action that writes several rows: a row it changes loses its token.
LEMMA RecoverInv ==
    ASSUME IInv, NEW ts \in Time, RecoverStale(ts)
    PROVE  IInv'
<1>1. ts \in Nat /\ issued' = issued /\ \A m \in Monitor : row'[m] = Recovered(row[m], ts)
  BY TimeIsNat DEF RecoverStale
<1>2. \A m \in Monitor : GoodRow(row[m]) /\ row[m] \in Row
  BY RowsGood DEF GoodRow
<1>3. \A m \in Monitor : GoodRow(row'[m])
  BY <1>1, <1>2, RecoveredRow
<1>4. \A m \in Monitor : row'[m] = row[m] \/ row'[m].state \in {"WAITING", "DELIVERY_PENDING"}
  BY <1>1, <1>2 DEF Recovered, Released, Row
<1>5. \A m \in Monitor : row'[m] = row[m] \/ row'[m].claim_token = NULL
  BY <1>3, <1>4 DEF GoodRow, ClaimedStates
<1>6. TypeOK'
  BY <1>1, <1>2, <1>3 DEF IInv, TypeOK, RecoverStale, GoodRow
<1>7. OneDelivering'
  BY <1>4 DEF IInv, OneDelivering, Delivering
<1>8. ClaimsExclusive'
  <2>1. \A m \in Monitor : ClaimColumns(row[m])'
    BY <1>1, <1>3, <1>5 DEF IInv, ClaimsExclusive, GoodRow, ClaimColumns
  <2>2. QED
    BY <1>5, <2>1 DEF IInv, ClaimsExclusive
<1>9. DeliveryScheduled' /\ OutcomeExclusive'
  BY <1>3 DEF GoodRow, DeliveryScheduled, OutcomeExclusive
<1>10. QED
  BY <1>6, <1>7, <1>8, <1>9 DEF IInv

\* Every call preserves the inductive invariant.
LEMMA InvNext == IInv /\ [Next]_vars => IInv'
<1> SUFFICES ASSUME IInv, [Next]_vars PROVE IInv'
  OBVIOUS
<1>1. CASE UNCHANGED vars
  BY <1>1 DEF vars, IInv, TypeOK, OneDelivering, Delivering, ClaimsExclusive, ClaimColumns,
              DeliveryScheduled, OutcomeExclusive
<1>2. CASE Next
  <2>1. PICK ts \in Time : Step(ts)
    BY <1>2 DEF Next
  <2>2. CASE RecoverStale(ts)
    BY <2>2, RecoverInv
  <2>3. ASSUME NEW m \in Monitor, NEW i \in Interval, NEW t \in Timeout, Register(m, i, t, ts)
        PROVE  IInv'
    BY <2>3, RegisterInv
  <2>4. ASSUME NEW m \in Monitor, Cancel(m, ts)
        PROVE  IInv'
    BY <2>4, CancelInv
  <2>5. ASSUME NEW m \in Monitor, NEW tok \in Token,
               ClaimDueCheck(m, tok, ts) \/ ClaimDueDelivery(m, tok, ts)
        PROVE  IInv'
    BY <2>5, ClaimCheckInv, ClaimDeliveryInv
  <2>6. ASSUME NEW m \in Monitor, NEW tok \in Token, ClaimHolder(m, tok, ts)
        PROVE  IInv'
    BY <2>6, CompleteInv, AnchorInv, SucceededInv, RetryInv, BlockedInv DEF ClaimHolder
  <2>7. QED
    BY <2>1, <2>2, <2>3, <2>4, <2>5, <2>6 DEF Step
<1>3. QED
  BY <1>1, <1>2

\* The inductive invariant holds in every reachable state of the table.
THEOREM StoreInvariant == Spec => []IInv
BY InvInit, InvNext, PTL DEF Spec

\* The columns keep their types, whatever the callers of the store do.
THEOREM RowsTyped == Spec => []TypeOK
<1>1. IInv => TypeOK
  BY DEF IInv
<1>2. QED
  BY <1>1, StoreInvariant, PTL

\* The table never has two deliveries in flight (README: one thread writer).
THEOREM OneDeliveryInFlight == Spec => []OneDelivering
<1>1. IInv => OneDelivering
  BY DEF IInv
<1>2. QED
  BY <1>1, StoreInvariant, PTL

\* Claim columns agree with the state, and a token names one claim.
THEOREM ClaimsNeverShared == Spec => []ClaimsExclusive
<1>1. IInv => ClaimsExclusive
  BY DEF IInv
<1>2. QED
  BY <1>1, StoreInvariant, PTL

\* A delivery is scheduled exactly while one is owed.
THEOREM OwedDeliveriesScheduled == Spec => []DeliveryScheduled
<1>1. IInv => DeliveryScheduled
  BY DEF IInv
<1>2. QED
  BY <1>1, StoreInvariant, PTL

\* A wait has at most one outcome, and its columns say which.
THEOREM OutcomesExclusive == Spec => []OutcomeExclusive
<1>1. IInv => OutcomeExclusive
  BY DEF IInv
<1>2. QED
  BY <1>1, StoreInvariant, PTL

-----------------------------------------------------------------------------
(* No step touches a finished row. *)

\* No step changes a delivered or cancelled row: none of its guards holds there.
LEMMA TerminalStep ==
    ASSUME IInv, Next, NEW n \in Monitor, Terminal(row[n])
    PROVE  row'[n] = row[n]
<1>1. row \in [Monitor -> Row]
  BY DEF IInv, TypeOK
<1>2. ~ row[n].state \in ActiveStates \cup {"ABSENT"}
  BY DEF Terminal, ActiveStates
<1>3. PICK ts \in Time : Step(ts)
  BY DEF Next
<1>4. CASE RecoverStale(ts)
  BY <1>2, <1>4 DEF RecoverStale, Recovered, ActiveStates
<1>5. ASSUME NEW m \in Monitor, NEW i \in Interval, NEW t \in Timeout, Register(m, i, t, ts)
      PROVE  row'[n] = row[n]
  BY <1>1, <1>2, <1>5 DEF Register
<1>6. ASSUME NEW m \in Monitor, Cancel(m, ts)
      PROVE  row'[n] = row[n]
  BY <1>1, <1>2, <1>6 DEF Cancel
<1>7. ASSUME NEW m \in Monitor, NEW tok \in Token,
             ClaimDueCheck(m, tok, ts) \/ ClaimDueDelivery(m, tok, ts)
      PROVE  row'[n] = row[n]
  <2>1. row[m].state \in ActiveStates
    BY <1>7 DEF ClaimDueCheck, FirstDueChecks, DueChecks, ClaimDueDelivery, FirstDueDeliveries,
                DueDeliveries, ActiveStates
  <2>2. QED
    BY <1>1, <1>2, <1>7, <2>1 DEF ClaimDueCheck, ClaimDueDelivery
<1>8. ASSUME NEW m \in Monitor, NEW tok \in Token, ClaimHolder(m, tok, ts)
      PROVE  row'[n] = row[n]
  <2>1. row[m].state \in ActiveStates
    BY <1>8 DEF ClaimHolder, CompleteCheck, RecordDeliveryAnchor, DeliverySucceeded,
                DeliveryRetry, DeliveryBlocked, HoldsClaim, ActiveStates
  <2>2. \E q : row' = [row EXCEPT ![m] = q]
    BY <1>8 DEF ClaimHolder, CompleteCheck, RecordDeliveryAnchor, DeliverySucceeded,
                DeliveryRetry, DeliveryBlocked
  <2>3. QED
    BY <1>1, <1>2, <2>1, <2>2
<1>9. QED
  BY <1>3, <1>4, <1>5, <1>6, <1>7, <1>8 DEF Step

\* A delivered or cancelled row is never written again, by any caller, with
\* any token, at any reading of the clock.
THEOREM TerminalRowsFrozen == Spec => TerminalFrozen
<1>1. IInv /\ [Next]_vars => [\A m \in Monitor : Terminal(row[m]) => row'[m] = row[m]]_vars
  BY TerminalStep
<1>2. QED
  BY <1>1, InvInit, InvNext, PTL DEF Spec, TerminalFrozen

\* A registered wait stays registered, with its deadline and the reason it was woken for.
KeepsWait(r, q) ==
    r.state # "ABSENT" =>
        /\ q.state # "ABSENT"
        /\ q.created_at = r.created_at /\ q.deadline_at = r.deadline_at
        /\ r.wake_reason # NULL => q.wake_reason = r.wake_reason

\* No step loses a wait, lets it start over or wakes it for another reason.
LEMMA WaitStep ==
    ASSUME IInv, Next, NEW n \in Monitor
    PROVE  KeepsWait(row[n], row'[n])
<1>1. /\ row \in [Monitor -> Row]
      /\ \A m \in Monitor : row[m].state = "CHECKING" => row[m].wake_reason = NULL
  BY DEF IInv, TypeOK, DeliveryScheduled, DeliveryColumns
<1>2. PICK ts \in Time : Step(ts)
  BY DEF Next
<1>3. \A m \in Monitor : \A q : row' = [row EXCEPT ![m] = q] =>
        row'[m] = q /\ (n # m => row'[n] = row[n])
  BY <1>1
<1>4. CASE RecoverStale(ts)
  <2>1. row'[n] = Recovered(row[n], ts) /\ row[n] \in Row
    BY <1>1, <1>4 DEF RecoverStale
  <2>2. QED
    BY <2>1 DEF Recovered, Released, Row, KeepsWait
<1>5. ASSUME NEW m \in Monitor, NEW i \in Interval, NEW t \in Timeout, Register(m, i, t, ts)
      PROVE  KeepsWait(row[n], row'[n])
  BY <1>3, <1>5 DEF Register, KeepsWait
<1>6. ASSUME NEW m \in Monitor, Cancel(m, ts)
      PROVE  KeepsWait(row[n], row'[n])
  <2>1. KeepsWait(row[m], Cancelled(row[m], ts))
    BY <1>1 DEF Cancelled, Released, Row, KeepsWait
  <2>2. QED
    BY <1>3, <1>6, <2>1 DEF Cancel, KeepsWait
<1>7. ASSUME NEW m \in Monitor, NEW tok \in Token, ClaimDueCheck(m, tok, ts)
      PROVE  KeepsWait(row[n], row'[n])
  <2>1. KeepsWait(row[m], Claimed(row[m], "CHECKING", tok, ts + CheckLease))
    BY <1>1 DEF Claimed, Row, KeepsWait
  <2>2. QED
    BY <1>3, <1>7, <2>1 DEF ClaimDueCheck, KeepsWait
<1>8. ASSUME NEW m \in Monitor, NEW tok \in Token, ClaimDueDelivery(m, tok, ts)
      PROVE  KeepsWait(row[n], row'[n])
  <2> DEFINE q == [Claimed(row[m], "DELIVERING", tok, ts + DeliveryLease)
                     EXCEPT !.delivery_attempts = @ + 1]
  <2>1. KeepsWait(row[m], q)
    BY <1>1 DEF Claimed, Row, KeepsWait
  <2>2. row' = [row EXCEPT ![m] = q]
    BY <1>8 DEF ClaimDueDelivery
  <2> HIDE DEF q
  <2>3. QED
    BY <1>3, <2>1, <2>2 DEF KeepsWait
<1>9. ASSUME NEW m \in Monitor, NEW tok \in Token, ClaimHolder(m, tok, ts)
      PROVE  KeepsWait(row[n], row'[n])
  <2>1. ASSUME NEW d \in Null(WakeReason), CompleteCheck(m, tok, d, ts)
        PROVE  KeepsWait(row[n], row'[n])
    <3> DEFINE q == IF d = NULL THEN Rearmed(row[m], ts) ELSE Woken(row[m], d, ts)
    <3>1. row[m].wake_reason = NULL
      BY <1>1, <2>1 DEF CompleteCheck, HoldsClaim
    <3>2. KeepsWait(row[m], Rearmed(row[m], ts)) /\ KeepsWait(row[m], Woken(row[m], d, ts))
      BY <1>1, <3>1 DEF Rearmed, Woken, Released, Row, KeepsWait
    <3>3. row' = [row EXCEPT ![m] = q] /\ KeepsWait(row[m], q)
      BY <2>1, <3>2 DEF CompleteCheck
    <3> HIDE DEF q
    <3>4. QED
      BY <1>3, <3>3 DEF KeepsWait
  <2>2. ASSUME NEW a \in Anchor, RecordDeliveryAnchor(m, tok, a)
        PROVE  KeepsWait(row[n], row'[n])
    <3>1. KeepsWait(row[m], Anchored(row[m], a))
      BY <1>1 DEF Anchored, Row, KeepsWait
    <3>2. QED
      BY <1>3, <2>2, <3>1 DEF RecordDeliveryAnchor, KeepsWait
  <2>3. ASSUME NEW a \in Anchor, NEW t \in Turn, DeliverySucceeded(m, tok, a, t)
        PROVE  KeepsWait(row[n], row'[n])
    <3>1. KeepsWait(row[m], Delivered(row[m], a, t))
      BY <1>1 DEF Delivered, Released, Row, KeepsWait
    <3>2. QED
      BY <1>3, <2>3, <3>1 DEF DeliverySucceeded, KeepsWait
  <2>4. ASSUME NEW delay \in RetryDelay, DeliveryRetry(m, tok, delay, ts)
        PROVE  KeepsWait(row[n], row'[n])
    <3>1. KeepsWait(row[m], Retried(row[m], delay, ts))
      BY <1>1 DEF Retried, Released, Row, KeepsWait
    <3>2. QED
      BY <1>3, <2>4, <3>1 DEF DeliveryRetry, KeepsWait
  <2>5. ASSUME NEW reason \in BlockReason, DeliveryBlocked(m, tok, reason, ts)
        PROVE  KeepsWait(row[n], row'[n])
    <3>1. KeepsWait(row[m], Blocked(row[m], reason, ts))
      BY <1>1 DEF Blocked, Released, Row, KeepsWait
    <3>2. QED
      BY <1>3, <2>5, <3>1 DEF DeliveryBlocked, KeepsWait
  <2>6. QED
    BY <1>9, <2>1, <2>2, <2>3, <2>4, <2>5 DEF ClaimHolder
<1>10. QED
  BY <1>2, <1>4, <1>5, <1>6, <1>7, <1>8, <1>9 DEF Step

\* Whatever its lease traffic, a registered wait keeps its deadline and, once woken, its reason.
THEOREM WaitsKept == Spec => [][\A m \in Monitor : KeepsWait(row[m], row'[m])]_vars
<1>1. IInv /\ [Next]_vars => [\A m \in Monitor : KeepsWait(row[m], row'[m])]_vars
  BY WaitStep
<1>2. QED
  BY <1>1, StoreInvariant, PTL DEF Spec

-----------------------------------------------------------------------------
(* Claims and attempts, from the claim to its end. *)

\* What a write does to the claim and to the attempts of a row, with n tokens issued before.
ClaimKept(r, q, n) ==
    /\ r.claim_token # NULL =>
         \/ q.claim_token = NULL
         \/ q.claim_token = r.claim_token /\ q.claim_expires_at = r.claim_expires_at
    /\ r.claim_token = NULL /\ q.claim_token # NULL => q.claim_token > n
    /\ r.state # "ABSENT" =>
         q.delivery_attempts = IF r.state = "DELIVERY_PENDING" /\ q.state = "DELIVERING"
                               THEN r.delivery_attempts + 1 ELSE r.delivery_attempts

\* A write that releases the claim, or leaves it alone, starts no attempt.
LEMMA NoAttempt ==
    ASSUME NEW r, NEW q, NEW n,
           \/ q.claim_token = NULL
           \/ q.claim_token = r.claim_token /\ q.claim_expires_at = r.claim_expires_at,
           q.delivery_attempts = r.delivery_attempts,
           r.state # "DELIVERY_PENDING" \/ q.state # "DELIVERING"
    PROVE  ClaimKept(r, q, n)
BY DEF ClaimKept

\* Every write keeps, releases or grants the claim.
LEMMA ClaimStep ==
    ASSUME IInv, Next, NEW n \in Monitor
    PROVE  ClaimKept(row[n], row'[n], issued)
<1> DEFINE Kept == ClaimKept(row[n], row'[n], issued)
           r == row[n]
<1>1. /\ row \in [Monitor -> Row] /\ r \in Row /\ issued \in Nat
      /\ r.claim_token # NULL <=> r.state \in ClaimedStates
  BY RowsGood DEF IInv, TypeOK, GoodRow
<1>2. PICK ts \in Time : Step(ts)
  BY DEF Next
<1>3. row'[n] = r => Kept
  BY DEF ClaimKept
<1>4. /\ Released(r) \in Row /\ Released(r).claim_token = NULL
      /\ Released(r).delivery_attempts = r.delivery_attempts
  BY <1>1, ReleasedRow DEF UnclaimedCopy
<1>5. CASE RecoverStale(ts)
  <2>1. row'[n] = Recovered(r, ts)
    BY <1>5 DEF RecoverStale
  <2>2. CASE row'[n] = r
    BY <1>3, <2>2
  <2>3. CASE row'[n] # r
    <3>1. /\ row'[n].claim_token = NULL
          /\ row'[n].delivery_attempts = r.delivery_attempts
          /\ r.state # "DELIVERY_PENDING"
      BY <1>4, <2>1, <2>3 DEF Recovered, Row
    <3>2. QED
      BY <3>1, NoAttempt
  <2>4. QED
    BY <2>2, <2>3
<1>6. ASSUME NEW m \in Monitor, NEW i \in Interval, NEW t \in Timeout, Register(m, i, t, ts)
      PROVE  Kept
  <2>1. CASE m = n
    <3>1. r.state = "ABSENT" /\ r.claim_token = NULL /\ row'[n] = Registered(i, t, ts)
      BY <1>1, <1>6, <2>1 DEF Register, ClaimedStates
    <3>2. row'[n].claim_token = NULL
      BY <3>1 DEF Registered, NoRow
    <3>3. QED
      BY <3>1, <3>2 DEF ClaimKept
  <2>2. CASE m # n
    BY <1>1, <1>3, <1>6, <2>2 DEF Register
  <2>3. QED
    BY <2>1, <2>2
<1>7. ASSUME NEW m \in Monitor, Cancel(m, ts) PROVE Kept
  <2>1. CASE m = n
    <3>1. /\ row'[n].claim_token = NULL
          /\ row'[n].delivery_attempts = r.delivery_attempts
          /\ row'[n].state = "CANCELLED"
      BY <1>1, <1>4, <1>7, <2>1 DEF Cancel, Cancelled, Row
    <3>2. QED
      BY <3>1, NoAttempt
  <2>2. CASE m # n
    BY <1>1, <1>3, <1>7, <2>2 DEF Cancel
  <2>3. QED
    BY <2>1, <2>2
<1>8. ASSUME NEW m \in Monitor, NEW tok \in Token, ClaimDueCheck(m, tok, ts) PROVE Kept
  <2>1. CASE m = n
    <3>1. r.state = "WAITING"
      BY <1>8, <2>1 DEF ClaimDueCheck, FirstDueChecks, DueChecks
    <3>2. /\ row'[n].claim_token = issued + 1
          /\ row'[n].delivery_attempts = r.delivery_attempts
          /\ row'[n].state = "CHECKING"
      BY <1>1, <1>8, <2>1 DEF ClaimDueCheck, Claimed, FreshToken, Row
    <3>3. QED
      BY <1>1, <3>1, <3>2 DEF ClaimKept, ClaimedStates
  <2>2. CASE m # n
    BY <1>1, <1>3, <1>8, <2>2 DEF ClaimDueCheck
  <2>3. QED
    BY <2>1, <2>2
<1>9. ASSUME NEW m \in Monitor, NEW tok \in Token, ClaimDueDelivery(m, tok, ts) PROVE Kept
  <2>1. CASE m = n
    <3>1. r.state = "DELIVERY_PENDING"
      BY <1>9, <2>1 DEF ClaimDueDelivery, FirstDueDeliveries, DueDeliveries
    <3>2. /\ row'[n].claim_token = issued + 1
          /\ row'[n].delivery_attempts = r.delivery_attempts + 1
          /\ row'[n].state = "DELIVERING"
      BY <1>1, <1>9, <2>1 DEF ClaimDueDelivery, Claimed, FreshToken, Row
    <3>3. QED
      BY <1>1, <3>1, <3>2 DEF ClaimKept, ClaimedStates
  <2>2. CASE m # n
    BY <1>1, <1>3, <1>9, <2>2 DEF ClaimDueDelivery
  <2>3. QED
    BY <2>1, <2>2
<1>10. ASSUME NEW m \in Monitor, NEW tok \in Token, ClaimHolder(m, tok, ts) PROVE Kept
  <2>1. CASE m = n
    <3>1. r.state \in ClaimedStates
      BY <1>10, <2>1
         DEF ClaimHolder, CompleteCheck, RecordDeliveryAnchor, DeliverySucceeded, DeliveryRetry,
             DeliveryBlocked, HoldsClaim, ClaimedStates
    <3>2. \/ row'[n] = Rearmed(r, ts)
          \/ \E decision \in WakeReason : row'[n] = Woken(r, decision, ts)
          \/ \E a \in Anchor : row'[n] = Anchored(r, a)
          \/ \E a \in Anchor, t \in Turn : row'[n] = Delivered(r, a, t)
          \/ \E d \in RetryDelay : row'[n] = Retried(r, d, ts)
          \/ \E b \in BlockReason : row'[n] = Blocked(r, b, ts)
      BY <1>1, <1>10, <2>1
         DEF ClaimHolder, CompleteCheck, RecordDeliveryAnchor, DeliverySucceeded, DeliveryRetry,
             DeliveryBlocked, Null
    <3>3. /\ \/ row'[n].claim_token = NULL
             \/ /\ row'[n].claim_token = r.claim_token
                /\ row'[n].claim_expires_at = r.claim_expires_at
          /\ row'[n].delivery_attempts = r.delivery_attempts
      BY <1>1, <1>4, <3>2 DEF Rearmed, Woken, Anchored, Delivered, Retried, Blocked, Row
    <3>4. QED
      BY <3>1, <3>3, NoAttempt DEF ClaimedStates
  <2>2. CASE m # n
    BY <1>1, <1>3, <1>10, <2>2
       DEF ClaimHolder, CompleteCheck, RecordDeliveryAnchor, DeliverySucceeded, DeliveryRetry,
           DeliveryBlocked
  <2>3. QED
    BY <2>1, <2>2
<1>11. QED
  BY <1>2, <1>5, <1>6, <1>7, <1>8, <1>9, <1>10 DEF Step

\* No lease is ever extended and no claim taken over from its holder: a claim runs out or is
\* given back, a new one has a token nobody held before, and the attempts of a row are exactly
\* the claims of its delivery, however they ended.
THEOREM ClaimsRunOut == Spec => [][\A m \in Monitor : ClaimKept(row[m], row'[m], issued)]_vars
<1>1. IInv /\ [Next]_vars => [\A m \in Monitor : ClaimKept(row[m], row'[m], issued)]_vars
  BY ClaimStep
<1>2. QED
  BY <1>1, StoreInvariant, PTL DEF Spec

-----------------------------------------------------------------------------
(* The displayed phase only advances. *)

\* A write that ends the wait, or keeps its columns of the outcome and its anchor, once it
\* has one, moves the displayed phase forward or not at all.
Ahead(r, q) ==
    Delivery_phase(q) # Delivery_phase(r) => Delivery_phase(q) \in LaterPhases(Delivery_phase(r))

Onward(r, q) ==
    /\ r.started_turn_id = NULL /\ r.delivery_blocked_reason = NULL /\ r.state # "CANCELLED"
    /\ \/ q.started_turn_id # NULL
       \/ q.delivery_blocked_reason # NULL
       \/ q.state = "CANCELLED"
       \/ /\ r.delivery_rollout # NULL => q.delivery_rollout # NULL
          /\ r.state \in {"DELIVERY_PENDING", "DELIVERING"} =>
               q.state \in {"DELIVERY_PENDING", "DELIVERING"}

LEMMA OnwardAhead == ASSUME NEW r, NEW q, Onward(r, q) PROVE Ahead(r, q)
<1>1. Delivery_phase(r) \in {"not_started", "pending", "submitting"}
  BY DEF Onward, Delivery_phase
<1>2. CASE Delivery_phase(q) \in {"started", "blocked", "cancelled"}
  BY <1>1, <1>2 DEF Ahead, LaterPhases
<1>3. CASE ~ Delivery_phase(q) \in {"started", "blocked", "cancelled"}
  <2>1. /\ r.delivery_rollout # NULL => q.delivery_rollout # NULL
        /\ r.state \in {"DELIVERY_PENDING", "DELIVERING"} =>
             q.state \in {"DELIVERY_PENDING", "DELIVERING"}
    BY <1>3 DEF Onward, Delivery_phase
  <2>2. CASE Delivery_phase(r) = "submitting"
    <3>1. r.delivery_rollout # NULL
      BY <2>2 DEF Delivery_phase
    <3>2. Delivery_phase(q) = "submitting"
      BY <1>3, <2>1, <3>1 DEF Delivery_phase
    <3>3. QED
      BY <2>2, <3>2 DEF Ahead
  <2>3. CASE Delivery_phase(r) = "pending"
    <3>1. r.state \in {"DELIVERY_PENDING", "DELIVERING"}
      BY <2>3 DEF Delivery_phase
    <3>2. Delivery_phase(q) \in {"pending", "submitting"}
      BY <1>3, <2>1, <3>1 DEF Delivery_phase
    <3>3. QED
      BY <2>3, <3>2 DEF Ahead, LaterPhases
  <2>4. CASE Delivery_phase(r) = "not_started"
    <3>1. Delivery_phase(q) \in {"not_started", "pending", "submitting"}
      BY <1>3 DEF Delivery_phase
    <3>2. QED
      BY <2>4, <3>1 DEF Ahead, LaterPhases
  <2>5. QED
    BY <1>1, <2>2, <2>3, <2>4
<1>4. QED
  BY <1>2, <1>3

\* Every write moves a row onward.
LEMMA PhaseStep ==
    ASSUME IInv, Next, NEW n \in Monitor
    PROVE  Ahead(row[n], row'[n])
<1>1. row \in [Monitor -> Row] /\ GoodRow(row[n])
  BY RowsGood DEF IInv, TypeOK
<1>2. PICK ts \in Time : Step(ts)
  BY DEF Next
<1>3. row'[n] = row[n] => Ahead(row[n], row'[n])
  BY DEF Ahead
<1>4. CASE Terminal(row[n])
  BY <1>3, <1>4, TerminalStep
<1>5. CASE ~ Terminal(row[n])
  <2>1. /\ row[n].started_turn_id = NULL
        /\ row[n].delivery_blocked_reason = NULL
        /\ row[n].state # "CANCELLED"
    BY <1>1, <1>5 DEF Terminal, GoodRow, OutcomeColumns, Row, Null
  <2>2. CASE RecoverStale(ts)
    <3>1. row'[n] = Recovered(row[n], ts)
      BY <2>2 DEF RecoverStale
    <3>2. Onward(row[n], row'[n])
      BY <1>1, <2>1, <3>1 DEF Onward, Recovered, Released, Row
    <3>3. QED
      BY <3>2, OnwardAhead
  <2>3. ASSUME NEW m \in Monitor, NEW i \in Interval, NEW t \in Timeout, Register(m, i, t, ts)
        PROVE  Ahead(row[n], row'[n])
    <3>1. CASE m = n
      <4>1. row[n].delivery_rollout = NULL /\ row[n].state = "ABSENT"
        BY <1>1, <2>3, <3>1 DEF Register, GoodRow, DeliveryColumns
      <4>2. Onward(row[n], row'[n])
        BY <2>1, <4>1 DEF Onward
      <4>3. QED
        BY <4>2, OnwardAhead
    <3>2. CASE m # n
      BY <1>1, <1>3, <2>3, <3>2 DEF Register
    <3>3. QED
      BY <3>1, <3>2
  <2>4. ASSUME NEW m \in Monitor, Cancel(m, ts) PROVE Ahead(row[n], row'[n])
    <3>1. CASE m = n
      <4>1. row'[n] = Cancelled(row[n], ts)
        BY <1>1, <2>4, <3>1 DEF Cancel
      <4>2. row'[n].state = "CANCELLED"
        BY <1>1, <4>1 DEF Cancelled, Released, Row
      <4>3. Onward(row[n], row'[n])
        BY <2>1, <4>2 DEF Onward
      <4>4. QED
        BY <4>3, OnwardAhead
    <3>2. CASE m # n
      BY <1>1, <1>3, <2>4, <3>2 DEF Cancel
    <3>3. QED
      BY <3>1, <3>2
  <2>5. ASSUME NEW m \in Monitor, NEW tok \in Token, ClaimDueCheck(m, tok, ts)
        PROVE  Ahead(row[n], row'[n])
    <3>1. CASE m = n
      <4>1. row'[n] = Claimed(row[n], "CHECKING", tok, ts + CheckLease)
        BY <1>1, <2>5, <3>1 DEF ClaimDueCheck
      <4>2. row[n].state = "WAITING"
        BY <2>5, <3>1 DEF ClaimDueCheck, FirstDueChecks, DueChecks
      <4>3. row'[n].delivery_rollout = row[n].delivery_rollout
        BY <1>1, <4>1 DEF Claimed, Row
      <4>4. Onward(row[n], row'[n])
        BY <2>1, <4>2, <4>3 DEF Onward
      <4>5. QED
        BY <4>4, OnwardAhead
    <3>2. CASE m # n
      BY <1>1, <1>3, <2>5, <3>2 DEF ClaimDueCheck
    <3>3. QED
      BY <3>1, <3>2
  <2>6. ASSUME NEW m \in Monitor, NEW tok \in Token, ClaimDueDelivery(m, tok, ts)
        PROVE  Ahead(row[n], row'[n])
    <3>1. CASE m = n
      <4>1. /\ row'[n].state = "DELIVERING"
            /\ row'[n].delivery_rollout = row[n].delivery_rollout
        BY <1>1, <2>6, <3>1 DEF ClaimDueDelivery, Claimed, Row
      <4>2. Onward(row[n], row'[n])
        BY <2>1, <4>1 DEF Onward
      <4>3. QED
        BY <4>2, OnwardAhead
    <3>2. CASE m # n
      BY <1>1, <1>3, <2>6, <3>2 DEF ClaimDueDelivery
    <3>3. QED
      BY <3>1, <3>2
  <2>7. ASSUME NEW m \in Monitor, NEW tok \in Token, ClaimHolder(m, tok, ts)
        PROVE  Ahead(row[n], row'[n])
    <3>1. CASE m = n
      <4>1. CASE row[n].state = "CHECKING"
        <5>1. \/ row'[n] = Rearmed(row[n], ts)
              \/ \E decision \in WakeReason : row'[n] = Woken(row[n], decision, ts)
          BY <1>1, <2>7, <3>1, <4>1
             DEF ClaimHolder, CompleteCheck, RecordDeliveryAnchor, DeliverySucceeded,
                 DeliveryRetry, DeliveryBlocked, HoldsClaim, Null
        <5>2. /\ Rearmed(row[n], ts).delivery_rollout = row[n].delivery_rollout
              /\ \A decision \in WakeReason :
                   Woken(row[n], decision, ts).delivery_rollout = row[n].delivery_rollout
          BY <1>1 DEF Woken, Rearmed, Released, Row
        <5>3. row'[n].delivery_rollout = row[n].delivery_rollout
          BY <5>1, <5>2
        <5>4. Onward(row[n], row'[n])
          BY <2>1, <4>1, <5>3 DEF Onward
        <5>5. QED
          BY <5>4, OnwardAhead
      <4>2. CASE row[n].state = "DELIVERING"
        <5>1. \/ \E a \in Anchor : row'[n] = Anchored(row[n], a)
              \/ \E a \in Anchor, t \in Turn : row'[n] = Delivered(row[n], a, t)
              \/ \E d \in RetryDelay : row'[n] = Retried(row[n], d, ts)
              \/ \E b \in BlockReason : row'[n] = Blocked(row[n], b, ts)
          BY <1>1, <2>7, <3>1, <4>2
             DEF ClaimHolder, CompleteCheck, RecordDeliveryAnchor, DeliverySucceeded,
                 DeliveryRetry, DeliveryBlocked, HoldsClaim
        <5>2. Onward(row[n], row'[n])
          <6>1. ASSUME NEW a \in Anchor, row'[n] = Anchored(row[n], a)
                PROVE  Onward(row[n], row'[n])
            BY <1>1, <2>1, <4>2, <6>1, StoreAssumption
               DEF Onward, Anchored, Row, StoreAssumption
          <6>2. ASSUME NEW a \in Anchor, NEW t \in Turn, row'[n] = Delivered(row[n], a, t)
                PROVE  Onward(row[n], row'[n])
            BY <1>1, <2>1, <6>2, StoreAssumption
               DEF Onward, Delivered, Released, Row, StoreAssumption
          <6>3. ASSUME NEW d \in RetryDelay, row'[n] = Retried(row[n], d, ts)
                PROVE  Onward(row[n], row'[n])
            BY <1>1, <2>1, <6>3 DEF Onward, Retried, Released, Row
          <6>4. ASSUME NEW b \in BlockReason, row'[n] = Blocked(row[n], b, ts)
                PROVE  Onward(row[n], row'[n])
            BY <1>1, <2>1, <6>4 DEF Onward, Blocked, Released, Row
          <6>5. QED
            BY <5>1, <6>1, <6>2, <6>3, <6>4
        <5>3. QED
          BY <5>2, OnwardAhead
      <4>3. QED
        BY <2>7, <3>1, <4>1, <4>2
           DEF ClaimHolder, CompleteCheck, RecordDeliveryAnchor, DeliverySucceeded,
               DeliveryRetry, DeliveryBlocked, HoldsClaim
    <3>2. CASE m # n
      BY <1>1, <1>3, <2>7, <3>2
         DEF ClaimHolder, CompleteCheck, RecordDeliveryAnchor, DeliverySucceeded,
             DeliveryRetry, DeliveryBlocked
    <3>3. QED
      BY <3>1, <3>2
  <2>8. QED
    BY <1>2, <2>2, <2>3, <2>4, <2>5, <2>6, <2>7 DEF Step
<1>6. QED
  BY <1>4, <1>5

\* What status and list show of a delivery never goes back, whoever calls the store.
THEOREM DeliveryPhaseAdvances == Spec => PhaseAdvances
<1>1. IInv /\ [Next]_vars =>
        [\A m \in Monitor :
            LET before == Delivery_phase(row[m])
                after == Delivery_phase(row'[m])
            IN  after # before => after \in LaterPhases(before)]_vars
  BY PhaseStep DEF Ahead
<1>2. QED
  BY <1>1, InvInit, InvNext, PTL DEF Spec, PhaseAdvances

-----------------------------------------------------------------------------
(* The table implements the abstract wait. *)

\* A write to one row is, in the abstract wait, a write to one wait.
LEMMA OneRowMapped ==
    ASSUME row \in [Monitor -> Row], NEW m \in Monitor, NEW q, row' = [row EXCEPT ![m] = q]
    PROVE  /\ [n \in Monitor |-> PhaseOf(row'[n])]
                = [[n \in Monitor |-> PhaseOf(row[n])] EXCEPT ![m] = PhaseOf(q)]
           /\ [n \in Monitor |-> row'[n].wake_reason]
                = [[n \in Monitor |-> row[n].wake_reason] EXCEPT ![m] = q.wake_reason]
           /\ [n \in Monitor |-> row'[n].started_turn_id]
                = [[n \in Monitor |-> row[n].started_turn_id] EXCEPT ![m] = q.started_turn_id]
<1>1. \A n \in Monitor : row'[n] = IF n = m THEN q ELSE row[n]
  OBVIOUS
<1>2. QED
  BY <1>1

\* The empty table stands for no registered wait.
LEMMA RefineInit == Init => W!Init
BY DEF Init, NoRow, PhaseOf, W!Init

\* The moves of one row that are moves of one wait, or stutters.
RowMove(r, q) ==
    \/ /\ r.state = "ABSENT" /\ q.state = "WAITING"
       /\ q.wake_reason = r.wake_reason /\ q.started_turn_id = r.started_turn_id
    \/ /\ r.state \in {"WAITING", "CHECKING"} /\ q.state = "DELIVERY_PENDING"
       /\ q.wake_reason \in WakeReason /\ q.started_turn_id = r.started_turn_id
    \/ /\ r.state = "DELIVERING" /\ q.state = "DELIVERED"
       /\ q.wake_reason = r.wake_reason /\ q.started_turn_id \in Turn
    \/ /\ r.state \in ActiveStates /\ q.state = "CANCELLED"
       /\ q.wake_reason = r.wake_reason /\ q.started_turn_id = r.started_turn_id
    \/ /\ PhaseOf(q) = PhaseOf(r)
       /\ q.wake_reason = r.wake_reason /\ q.started_turn_id = r.started_turn_id

\* A write to one row is a step of its wait, or none.
LEMMA RowMoveRefines ==
    ASSUME IInv, NEW m \in Monitor, NEW q, row' = [row EXCEPT ![m] = q], RowMove(row[m], q)
    PROVE  [W!Next]_(W!vars)
<1> DEFINE phase == [n \in Monitor |-> PhaseOf(row[n])]
           reason == [n \in Monitor |-> row[n].wake_reason]
           turn == [n \in Monitor |-> row[n].started_turn_id]
           r == row[m]
<1>1. /\ phase' = [phase EXCEPT ![m] = PhaseOf(q)]
      /\ reason' = [reason EXCEPT ![m] = q.wake_reason]
      /\ turn' = [turn EXCEPT ![m] = q.started_turn_id]
  BY OneRowMapped DEF IInv, TypeOK
<1>2. phase[m] = PhaseOf(r) /\ reason[m] = r.wake_reason /\ turn[m] = r.started_turn_id
  OBVIOUS
<1>3. /\ PhaseOf(q) = PhaseOf(r) => phase' = phase
      /\ q.wake_reason = r.wake_reason => reason' = reason
      /\ q.started_turn_id = r.started_turn_id => turn' = turn
  BY <1>1, <1>2
<1>4. /\ r.state = "ABSENT" => PhaseOf(r) = "unregistered"
      /\ r.state \in {"WAITING", "CHECKING"} => PhaseOf(r) = "waiting"
      /\ r.state \in {"DELIVERY_PENDING", "DELIVERING"} => PhaseOf(r) = "woken"
      /\ q.state = "WAITING" => PhaseOf(q) = "waiting"
      /\ q.state = "DELIVERY_PENDING" => PhaseOf(q) = "woken"
      /\ q.state = "DELIVERED" => PhaseOf(q) = "delivered"
      /\ q.state = "CANCELLED" => PhaseOf(q) = "cancelled"
  BY DEF PhaseOf
<1> HIDE DEF phase, reason, turn, r
<1>5. CASE /\ r.state = "ABSENT" /\ q.state = "WAITING"
           /\ q.wake_reason = r.wake_reason /\ q.started_turn_id = r.started_turn_id
  <2>1. W!Register(m)
    BY <1>1, <1>2, <1>3, <1>4, <1>5 DEF W!Register, phase, reason, turn
  <2>2. QED
    BY <2>1 DEF W!Next
<1>6. CASE /\ r.state \in {"WAITING", "CHECKING"} /\ q.state = "DELIVERY_PENDING"
           /\ q.wake_reason \in WakeReason /\ q.started_turn_id = r.started_turn_id
  <2>1. W!Wake(m, q.wake_reason)
    BY <1>1, <1>2, <1>3, <1>4, <1>6 DEF W!Wake, phase, reason, turn
  <2>2. QED
    BY <1>6, <2>1 DEF W!Next
<1>7. CASE /\ r.state = "DELIVERING" /\ q.state = "DELIVERED"
           /\ q.wake_reason = r.wake_reason /\ q.started_turn_id \in Turn
  <2>1. W!Deliver(m, q.started_turn_id)
    BY <1>1, <1>2, <1>3, <1>4, <1>7 DEF W!Deliver, phase, reason, turn
  <2>2. QED
    BY <1>7, <2>1 DEF W!Next
<1>8. CASE /\ r.state \in ActiveStates /\ q.state = "CANCELLED"
           /\ q.wake_reason = r.wake_reason /\ q.started_turn_id = r.started_turn_id
  <2>1. PhaseOf(r) \in {"waiting", "woken"}
    BY <1>4, <1>8 DEF ActiveStates
  <2>2. W!Cancel(m)
    BY <1>1, <1>2, <1>3, <1>4, <1>8, <2>1 DEF W!Cancel, phase, reason, turn
  <2>3. QED
    BY <2>2 DEF W!Next
<1>9. CASE /\ PhaseOf(q) = PhaseOf(r)
           /\ q.wake_reason = r.wake_reason /\ q.started_turn_id = r.started_turn_id
  BY <1>3, <1>9 DEF W!vars, phase, reason, turn
<1>10. QED
  BY <1>5, <1>6, <1>7, <1>8, <1>9 DEF RowMove, r

\* Lease recovery is invisible to the abstract wait.
LEMMA RecoverRefines ==
    ASSUME IInv, NEW ts \in Time, RecoverStale(ts)
    PROVE  UNCHANGED W!vars
<1>1. ASSUME NEW m \in Monitor
      PROVE  /\ PhaseOf(row'[m]) = PhaseOf(row[m])
             /\ row'[m].wake_reason = row[m].wake_reason
             /\ row'[m].started_turn_id = row[m].started_turn_id
  <2>1. row[m] \in Row /\ row'[m] = Recovered(row[m], ts)
    BY DEF IInv, TypeOK, RecoverStale
  <2>2. UnclaimedCopy(Released(row[m]), row[m]) /\ Released(row[m]) \in Row
    BY <2>1, ReleasedRow
  <2>3. CASE row[m].state = "CHECKING" /\ Expired(row[m], ts)
    BY <2>1, <2>2, <2>3 DEF Recovered, UnclaimedCopy, PhaseOf, Row
  <2>4. CASE row[m].state = "DELIVERING" /\ Expired(row[m], ts)
    BY <2>1, <2>2, <2>4 DEF Recovered, UnclaimedCopy, PhaseOf, Row
  <2>5. CASE ~(row[m].state \in ClaimedStates /\ Expired(row[m], ts))
    BY <2>1, <2>5 DEF Recovered, ClaimedStates
  <2>6. QED
    BY <2>3, <2>4, <2>5 DEF ClaimedStates
<1>2. QED
  BY <1>1 DEF W!vars

\* Every call is a step of Wait or a stutter.
LEMMA RefineNext == IInv /\ [Next]_vars => [W!Next]_(W!vars)
<1> SUFFICES ASSUME IInv, [Next]_vars PROVE [W!Next]_(W!vars)
  OBVIOUS
<1>1. \A m \in Monitor : GoodRow(row[m]) /\ row[m] \in Row
  BY RowsGood DEF GoodRow
<1>2. CASE UNCHANGED vars
  BY <1>2 DEF vars, W!vars
<1>3. CASE Next
  <2>1. PICK ts \in Time : Step(ts)
    BY <1>3 DEF Next
  <2>2. CASE RecoverStale(ts)
    BY <2>2, RecoverRefines
  <2>3. ASSUME NEW m \in Monitor, NEW i \in Interval, NEW t \in Timeout, Register(m, i, t, ts)
        PROVE  [W!Next]_(W!vars)
    <3>1. RowMove(row[m], Registered(i, t, ts))
      BY <1>1, <2>3 DEF Register, Registered, NoRow, RowMove, GoodRow, DeliveryColumns, OutcomeColumns
    <3>2. QED
      BY <2>3, <3>1, RowMoveRefines DEF Register
  <2>4. ASSUME NEW m \in Monitor, Cancel(m, ts)
        PROVE  [W!Next]_(W!vars)
    <3>1. RowMove(row[m], Cancelled(row[m], ts))
      BY <1>1, <2>4 DEF Cancel, Cancelled, Released, Row, RowMove
    <3>2. QED
      BY <2>4, <3>1, RowMoveRefines DEF Cancel
  <2>5. ASSUME NEW m \in Monitor, NEW tok \in Token, ClaimDueCheck(m, tok, ts)
        PROVE  [W!Next]_(W!vars)
    <3>1. row[m].state = "WAITING"
      BY <2>5 DEF ClaimDueCheck, FirstDueChecks, DueChecks
    <3>2. RowMove(row[m], Claimed(row[m], "CHECKING", tok, ts + CheckLease))
      BY <1>1, <3>1 DEF Claimed, Row, RowMove, PhaseOf
    <3>3. QED
      BY <2>5, <3>2, RowMoveRefines DEF ClaimDueCheck
  <2>6. ASSUME NEW m \in Monitor, NEW tok \in Token, ClaimDueDelivery(m, tok, ts)
        PROVE  [W!Next]_(W!vars)
    <3> DEFINE q == [Claimed(row[m], "DELIVERING", tok, ts + DeliveryLease)
                       EXCEPT !.delivery_attempts = @ + 1]
    <3>1. row[m].state = "DELIVERY_PENDING"
      BY <2>6 DEF ClaimDueDelivery, FirstDueDeliveries, DueDeliveries
    <3>2. RowMove(row[m], q)
      BY <1>1, <3>1 DEF Claimed, Row, RowMove, PhaseOf
    <3>3. row' = [row EXCEPT ![m] = q]
      BY <2>6 DEF ClaimDueDelivery
    <3> HIDE DEF q
    <3>4. QED
      BY <3>2, <3>3, RowMoveRefines
  <2>7. ASSUME NEW m \in Monitor, NEW tok \in Token, ClaimHolder(m, tok, ts)
        PROVE  [W!Next]_(W!vars)
    <3>1. ASSUME NEW d \in Null(WakeReason), CompleteCheck(m, tok, d, ts)
          PROVE  [W!Next]_(W!vars)
      <4> DEFINE q == IF d = NULL THEN Rearmed(row[m], ts) ELSE Woken(row[m], d, ts)
      <4>1. row[m].state = "CHECKING"
        BY <3>1 DEF CompleteCheck, HoldsClaim
      <4>2. RowMove(row[m], Rearmed(row[m], ts))
        BY <1>1, <4>1 DEF Rearmed, Released, Row, RowMove, PhaseOf
      <4>3. d # NULL => RowMove(row[m], Woken(row[m], d, ts))
        BY <1>1, <4>1 DEF Woken, Released, Row, RowMove, Null
      <4>4. RowMove(row[m], q)
        BY <4>2, <4>3
      <4>5. row' = [row EXCEPT ![m] = q]
        BY <3>1 DEF CompleteCheck
      <4> HIDE DEF q
      <4>6. QED
        BY <4>4, <4>5, RowMoveRefines
    <3>2. ASSUME NEW a \in Anchor, RecordDeliveryAnchor(m, tok, a)
          PROVE  [W!Next]_(W!vars)
      <4>1. RowMove(row[m], Anchored(row[m], a))
        BY <1>1 DEF Anchored, Row, RowMove, PhaseOf
      <4>2. QED
        BY <3>2, <4>1, RowMoveRefines DEF RecordDeliveryAnchor
    <3>3. ASSUME NEW a \in Anchor, NEW t \in Turn, DeliverySucceeded(m, tok, a, t)
          PROVE  [W!Next]_(W!vars)
      <4>1. RowMove(row[m], Delivered(row[m], a, t))
        BY <1>1, <3>3 DEF DeliverySucceeded, HoldsClaim, Delivered, Released, Row, RowMove
      <4>2. QED
        BY <3>3, <4>1, RowMoveRefines DEF DeliverySucceeded
    <3>4. ASSUME NEW d \in RetryDelay, DeliveryRetry(m, tok, d, ts)
          PROVE  [W!Next]_(W!vars)
      <4>1. RowMove(row[m], Retried(row[m], d, ts))
        BY <1>1, <3>4 DEF DeliveryRetry, HoldsClaim, Retried, Released, Row, RowMove, PhaseOf
      <4>2. QED
        BY <3>4, <4>1, RowMoveRefines DEF DeliveryRetry
    <3>5. ASSUME NEW reason \in BlockReason, DeliveryBlocked(m, tok, reason, ts)
          PROVE  [W!Next]_(W!vars)
      <4>1. RowMove(row[m], Blocked(row[m], reason, ts))
        BY <1>1, <3>5 DEF DeliveryBlocked, HoldsClaim, Blocked, Released, Row, RowMove, ActiveStates
      <4>2. QED
        BY <3>5, <4>1, RowMoveRefines DEF DeliveryBlocked
    <3>6. QED
      BY <2>7, <3>1, <3>2, <3>3, <3>4, <3>5 DEF ClaimHolder
  <2>8. QED
    BY <2>1, <2>2, <2>3, <2>4, <2>5, <2>6, <2>7 DEF Step
<1>4. QED
  BY <1>2, <1>3

\* The table implements the abstract wait: woken once, for one reason, and
\* ended once, by one turn or a cancellation.
THEOREM StoreImplementsWait == Spec => ImplementsWait
BY RefineInit, RefineNext, InvInit, InvNext, PTL DEF Spec, ImplementsWait, W!Spec

=============================================================================
