-------------------------- MODULE MigrationProofs --------------------------
(***************************************************************************)
(* Proofs about module Migration, for any number of processes, monitors,   *)
(* legacy rows and readings of the clock.                                  *)
(*                                                                         *)
(* The inductive invariant is the one of the table (StoreProofs), how far  *)
(* each opener can be under each schema, and what is promised of every     *)
(* legacy row.  A migration that finds the table migrated already is the   *)
(* hard step: it rewrites rows other processes work on, so it must keep    *)
(* what the table promises of any row, not only of a legacy one.           *)
(***************************************************************************)
EXTENDS Migration, TLAPS

T == INSTANCE StoreProofs

\* How far an opener can be follows from the schema, and rows are in one table at a time.
SchemaOK ==
    /\ schema \in {"absent", "legacy", "v5", "unsupported"}
    /\ legacy \in [Monitor -> LegacyRow]
    /\ opener \in [Opener -> {"closed", "create", "columns", "migrate", "open", "failed"}]
    /\ schema # "v5" => row = [m \in Monitor |-> S!NoRow]
    /\ schema \in {"absent", "unsupported"} => \A m \in Monitor : legacy[m].row.state = "ABSENT"
    /\ \A o \in Opener :
         /\ opener[o] = "open" => schema = "v5"
         /\ opener[o] = "columns" => schema # "absent"
         /\ opener[o] = "migrate" => schema \in {"legacy", "v5"}

IInv == T!IInv /\ SchemaOK /\ NoReplay /\ WaitsKept

-----------------------------------------------------------------------------
(* The table of module Store, by its two names: S that of the model, T that *)
(* of its proofs.                                                           *)

\* The constants are those of a table.
LEMMA TableAssumption == T!StoreAssumption
BY MigrationAssumption
   DEF MigrationAssumption, S!StoreAssumption, T!StoreAssumption, S!WakeReason, T!WakeReason

\* Types and columns of a row are the same by both names.
LEMMA SameRows ==
    /\ T!Row = S!Row /\ T!NoRow = S!NoRow
    /\ \A r : T!Terminal(r) <=> S!Terminal(r)
    /\ \A r : T!DeliveryColumns(r) <=> S!DeliveryColumns(r)
    /\ \A r : T!OutcomeColumns(r) <=> S!OutcomeColumns(r)
BY DEF T!Row, S!Row, T!NoRow, S!NoRow, T!Terminal, S!Terminal, T!DeliveryColumns,
       S!DeliveryColumns, T!OutcomeColumns, S!OutcomeColumns, T!AllStates, S!AllStates,
       T!ActiveStates, S!ActiveStates, T!Null, S!Null, T!WakeReason, S!WakeReason

\* A call of the table is one by both names.
LEMMA SameCalls == S!Next => T!Next
BY DEF T!Next, S!Next, T!Step, S!Step, T!ClaimHolder, S!ClaimHolder,
       T!Register, S!Register, T!Registered, S!Registered, T!NoRow, S!NoRow, T!Lesser, S!Lesser,
       T!Cancel, S!Cancel, T!Cancelled, S!Cancelled, T!Released, S!Released,
       T!ActiveStates, S!ActiveStates, T!RecoverStale, S!RecoverStale, T!Recovered, S!Recovered,
       T!Expired, S!Expired, T!ClaimDueCheck, S!ClaimDueCheck, T!FirstDueChecks, S!FirstDueChecks,
       T!DueChecks, S!DueChecks, T!CheckBefore, S!CheckBefore, T!FreshToken, S!FreshToken,
       T!Claimed, S!Claimed, T!ClaimDueDelivery, S!ClaimDueDelivery, T!Delivering, S!Delivering,
       T!FirstDueDeliveries, S!FirstDueDeliveries, T!DueDeliveries, S!DueDeliveries,
       T!DeliveryBefore, S!DeliveryBefore, T!CompleteCheck, S!CompleteCheck,
       T!HoldsClaim, S!HoldsClaim, T!Rearmed, S!Rearmed, T!Woken, S!Woken,
       T!RecordDeliveryAnchor, S!RecordDeliveryAnchor, T!Anchored, S!Anchored,
       T!DeliverySucceeded, S!DeliverySucceeded, T!Delivered, S!Delivered,
       T!DeliveryRetry, S!DeliveryRetry, T!Retried, S!Retried,
       T!DeliveryBlocked, S!DeliveryBlocked, T!Blocked, S!Blocked,
       T!Null, S!Null, T!WakeReason, S!WakeReason

\* The clock reads natural numbers, and no column value is NULL.
LEMMA Readings ==
    /\ Time \subseteq Nat /\ NULL \notin Nat /\ NULL \notin Turn /\ NULL \notin BlockReason
    /\ {"legacy_delivery_receipt_removed", "unsupported_legacy_state"} \subseteq BlockReason
BY MigrationAssumption DEF MigrationAssumption, S!StoreAssumption

-----------------------------------------------------------------------------
(* What a migration makes of one row. *)

\* A row the table could hold, that nobody works on.
Unclaimed(q) == T!GoodRow(q) /\ q.claim_token = NULL /\ q.state # "DELIVERING"

\* The columns a migration keeps.
SameWait(q, r) ==
    /\ q.created_at = r.created_at /\ q.deadline_at = r.deadline_at
    /\ q.wake_reason = r.wake_reason

\* The columns of a migrated row, from those of the row as it was found.
LEMMA MigratedColumns ==
    ASSUME NEW r, NEW receipt, NEW ts \in Time, r.state # "ABSENT",
           [r EXCEPT !.state = "ABSENT"] \in S!Row,
           MigratedState(r, receipt) \in S!AllStates
    PROVE  LET q == Migrated(r, receipt, ts) IN
           /\ q \in S!Row
           /\ q.state = MigratedState(r, receipt)
           /\ q.next_check_at = IF r.state = "CHECKING" THEN ts ELSE r.next_check_at
           /\ q.next_delivery_at = NextDelivery(r, MigratedState(r, receipt), ts)
           /\ q.claim_token = NULL /\ q.claim_expires_at = NULL
           /\ q.interval_seconds = r.interval_seconds
           /\ q.delivery_attempts = r.delivery_attempts
           /\ q.delivery_rollout = r.delivery_rollout
           /\ q.started_turn_id = r.started_turn_id
           /\ r.delivery_blocked_reason # NULL \/ ~ EndedHere(r, receipt) =>
                q.delivery_blocked_reason = r.delivery_blocked_reason
           /\ r.cancelled_at # NULL \/ ~ EndedHere(r, receipt) =>
                q.cancelled_at = r.cancelled_at
           /\ EndedHere(r, receipt) => q.cancelled_at # NULL
           /\ SameWait(q, r)
<1> DEFINE a == [r EXCEPT !.state = "ABSENT"]
           state == MigratedState(r, receipt)
           reason == IF receipt \/ r.state = "QUEUED" THEN "legacy_delivery_receipt_removed"
                     ELSE "unsupported_legacy_state"
           blocked == IF r.delivery_blocked_reason = NULL /\ EndedHere(r, receipt) THEN reason
                      ELSE r.delivery_blocked_reason
           dated == IF r.cancelled_at = NULL /\ EndedHere(r, receipt) THEN ts ELSE r.cancelled_at
           check == IF r.state = "CHECKING" THEN ts ELSE r.next_check_at
           owed == NextDelivery(r, state, ts)
           q == Migrated(r, receipt, ts)
<1>1. q = [S!Released(r) EXCEPT !.state = state, !.next_check_at = check,
                                !.next_delivery_at = owed,
                                !.delivery_blocked_reason = blocked, !.cancelled_at = dated]
  BY DEF Migrated, S!Released
<1>2. /\ a.created_at = r.created_at /\ a.interval_seconds = r.interval_seconds
      /\ a.deadline_at = r.deadline_at /\ a.next_check_at = r.next_check_at
      /\ a.wake_reason = r.wake_reason /\ a.next_delivery_at = r.next_delivery_at
      /\ a.delivery_attempts = r.delivery_attempts /\ a.delivery_rollout = r.delivery_rollout
      /\ a.started_turn_id = r.started_turn_id
      /\ a.delivery_blocked_reason = r.delivery_blocked_reason
      /\ a.cancelled_at = r.cancelled_at
  BY DEF S!Row
<1>3. /\ check \in Nat /\ owed \in S!Null(Nat)
      /\ blocked \in S!Null(BlockReason) /\ dated \in S!Null(Nat)
  BY <1>2, Readings DEF S!Row, S!Null, NextDelivery
<1>4. q = [a EXCEPT !.state = state, !.next_check_at = check, !.next_delivery_at = owed,
                    !.delivery_blocked_reason = blocked, !.cancelled_at = dated,
                    !.claim_token = NULL, !.claim_expires_at = NULL]
  BY <1>1 DEF S!Row, S!Released
<1>5. q \in S!Row
  <2>1. a \in S!Row /\ state \in S!AllStates
    BY Readings DEF S!Row, S!AllStates
  <2>2. a \in S!Row /\ state \in {"ABSENT"} \cup S!AllStates
    BY <2>1
  <2> DEFINE b == [a EXCEPT !.state = state, !.next_check_at = check, !.next_delivery_at = owed]
  <2>3. q = [b EXCEPT !.delivery_blocked_reason = blocked, !.cancelled_at = dated,
                      !.claim_token = NULL, !.claim_expires_at = NULL]
    BY <1>4
  <2> HIDE DEF check, owed, blocked, dated, state, a, q
  <2>4. b \in S!Row
    BY <1>3, <2>2 DEF S!Row
  <2> HIDE DEF b
  <2>5. NULL \in S!Null(Token) /\ NULL \in S!Null(Nat)
    BY DEF S!Null
  <2>6. QED
    BY <1>3, <2>3, <2>4, <2>5 DEF S!Row
<1> HIDE DEF check, owed, blocked, dated, state, a, q
<1>6. /\ q.state = state /\ q.next_check_at = check /\ q.next_delivery_at = owed
      /\ q.claim_token = NULL /\ q.claim_expires_at = NULL
      /\ q.delivery_blocked_reason = blocked /\ q.cancelled_at = dated
  BY <1>4 DEF S!Row, a
<1>7. /\ q.created_at = a.created_at /\ q.interval_seconds = a.interval_seconds
      /\ q.deadline_at = a.deadline_at /\ q.wake_reason = a.wake_reason
      /\ q.delivery_attempts = a.delivery_attempts /\ q.delivery_rollout = a.delivery_rollout
      /\ q.started_turn_id = a.started_turn_id
  BY <1>4 DEF S!Row, a
<1>8. /\ r.delivery_blocked_reason # NULL \/ ~ EndedHere(r, receipt) =>
           blocked = r.delivery_blocked_reason
      /\ r.cancelled_at # NULL \/ ~ EndedHere(r, receipt) => dated = r.cancelled_at
      /\ EndedHere(r, receipt) => dated # NULL
  BY Readings DEF blocked, dated
<1>9. QED
  BY <1>2, <1>5, <1>6, <1>7, <1>8 DEF SameWait, check, owed, state, q, a

\* Every state of an old release has a state of this one.
LEMMA MigratedStates ==
    ASSUME NEW r, NEW receipt
    PROVE  MigratedState(r, receipt) \in {"WAITING", "DELIVERY_PENDING", "DELIVERED", "CANCELLED"}
BY DEF MigratedState

\* A schedule exactly for what is owed.
LEMMA OwedScheduled ==
    ASSUME NEW r, NEW state, NEW ts \in Time
    PROVE  NextDelivery(r, state, ts) # NULL <=> state = "DELIVERY_PENDING"
BY Readings DEF NextDelivery

\* What an old release leaves behind becomes a row the table could hold, the same wait; one
\* whose message may have been sent is finished, one that was not finished goes on.
LEMMA LegacyMigrated ==
    ASSUME NEW old \in LegacyRow, NEW ts \in Time
    PROVE  LET q == Migrated(old.row, old.receipt, ts) IN
           /\ Unclaimed(q)
           /\ SameWait(q, old.row)
           /\ old.row.state = "ABSENT" <=> q.state = "ABSENT"
           /\ old.receipt \/ old.row.state = "QUEUED" \/ old.row.started_turn_id # NULL =>
                S!Terminal(q)
           /\ Unfinished(old.row, old.receipt) => GoesOn(old.row, q)
<1> DEFINE r == old.row
           state == MigratedState(r, old.receipt)
           q == Migrated(r, old.receipt, ts)
<1>1. CASE r.state = "ABSENT"
  <2>1. r = S!NoRow /\ ~ old.receipt /\ q = r /\ ~ Unfinished(r, old.receipt)
    BY <1>1, MigrationAssumption DEF MigrationAssumption, Migrated, Unfinished
  <2>2. T!GoodRow(r)
    BY <2>1, TableAssumption, SameRows, T!AbsentRow
  <2>3. Unclaimed(q) /\ q.state = "ABSENT" /\ r.started_turn_id = NULL
    BY <2>1, <2>2 DEF Unclaimed, S!NoRow
  <2>4. QED
    BY <1>1, <2>1, <2>3 DEF SameWait
<1>2. CASE r.state # "ABSENT"
  <2>1. /\ r.state \in LegacyStates /\ LegacyOutcome(r, old.receipt)
        /\ [r EXCEPT !.state = "ABSENT"] \in S!Row
    BY <1>2, MigrationAssumption DEF MigrationAssumption
  <2>2. state \in {"WAITING", "DELIVERY_PENDING", "DELIVERED", "CANCELLED"} /\ state \in S!AllStates
    BY MigratedStates DEF S!AllStates, S!ActiveStates
  <2>3. /\ q \in S!Row /\ q.state = state /\ SameWait(q, r)
        /\ q.next_delivery_at = NextDelivery(r, state, ts)
        /\ q.claim_token = NULL /\ q.claim_expires_at = NULL
        /\ q.delivery_attempts = r.delivery_attempts /\ q.delivery_rollout = r.delivery_rollout
        /\ q.started_turn_id = r.started_turn_id
        /\ r.delivery_blocked_reason # NULL \/ ~ EndedHere(r, old.receipt) =>
             q.delivery_blocked_reason = r.delivery_blocked_reason
        /\ r.cancelled_at # NULL \/ ~ EndedHere(r, old.receipt) => q.cancelled_at = r.cancelled_at
        /\ EndedHere(r, old.receipt) => q.cancelled_at # NULL
    BY <1>2, <2>1, <2>2, MigratedColumns
  <2>4. q.next_delivery_at # NULL <=> state = "DELIVERY_PENDING"
    BY <2>3, OwedScheduled
  <2> HIDE DEF q
  <2>5. /\ state = "WAITING" <=> r.state \in {"WAITING", "CHECKING"}
        /\ state = "DELIVERED" <=> r.started_turn_id # NULL
        /\ EndedHere(r, old.receipt) => old.receipt \/ r.state \in {"QUEUED", "UNKNOWN"}
        /\ EndedHere(r, old.receipt) => state = "CANCELLED"
        /\ state = "CANCELLED" => r.state = "CANCELLED" \/ EndedHere(r, old.receipt)
        /\ r.state = "CANCELLED" => state = "CANCELLED"
        /\ old.receipt \/ r.state = "QUEUED" => state \in {"DELIVERED", "CANCELLED"}
        /\ Unfinished(r, old.receipt) /\ ~ r.state \in {"WAITING", "CHECKING"} =>
             state = "DELIVERY_PENDING"
    <3>1. old.receipt \/ r.state = "QUEUED" => ~ r.state \in {"WAITING", "CHECKING"}
      BY <2>1 DEF LegacyOutcome
    <3>2. r.started_turn_id # NULL => ~ r.state \in {"WAITING", "CHECKING", "CANCELLED"}
      BY <2>1 DEF LegacyOutcome
    <3>3. r.state = "DELIVERED" => r.started_turn_id # NULL
      BY <2>1 DEF LegacyOutcome
    <3>4. r.state \in {"WAITING", "CHECKING", "DELIVERY_PENDING", "DELIVERING", "DELIVERED",
                       "CANCELLED", "QUEUE_PENDING", "QUEUING", "QUEUED", "UNKNOWN"}
      BY <1>2, <2>1 DEF LegacyStates, S!AllStates, S!ActiveStates
    <3>5. /\ state = "WAITING" <=> r.state \in {"WAITING", "CHECKING"}
          /\ state = "DELIVERED" <=> r.started_turn_id # NULL
          /\ old.receipt \/ r.state = "QUEUED" => state \in {"DELIVERED", "CANCELLED"}
          /\ r.state = "CANCELLED" => state = "CANCELLED"
          /\ state = "CANCELLED" =>
               r.state = "CANCELLED" \/ old.receipt \/ r.state \in {"QUEUED", "UNKNOWN"}
      BY <3>1, <3>2, <3>3, <3>4 DEF MigratedState
    <3>6. Unfinished(r, old.receipt) /\ ~ r.state \in {"WAITING", "CHECKING"} =>
            state = "DELIVERY_PENDING"
      BY DEF Unfinished, MigratedState
    <3>7. QED
      BY <3>5, <3>6 DEF EndedHere
  <2>6. T!DeliveryColumns(q)
    <3>1. state = "WAITING" => r.wake_reason = NULL
      BY <2>1, <2>5 DEF LegacyOutcome
    <3>2. state \in {"DELIVERY_PENDING", "DELIVERED"} => r.wake_reason # NULL
      BY <2>1, <2>5 DEF LegacyOutcome
    <3>3. r.delivery_rollout # NULL => r.wake_reason # NULL
      BY <2>1 DEF LegacyOutcome
    <3>4. QED
      BY <2>2, <2>3, <2>4, <3>1, <3>2, <3>3 DEF T!DeliveryColumns, SameWait
  <2>7. T!OutcomeColumns(q)
    <3>1. q.started_turn_id # NULL <=> state = "DELIVERED"
      BY <2>3, <2>5
    <3>2. q.cancelled_at # NULL <=> state = "CANCELLED"
      BY <2>1, <2>3, <2>5 DEF LegacyOutcome
    <3>3. q.delivery_blocked_reason # NULL =>
            state = "CANCELLED" /\ q.wake_reason # NULL /\ q.delivery_attempts > 0
      BY <2>1, <2>3, <2>5 DEF LegacyOutcome, SameWait
    <3>4. QED
      BY <2>3, <3>1, <3>2, <3>3 DEF T!OutcomeColumns
  <2>8. Unclaimed(q)
    BY <2>2, <2>3, <2>6, <2>7, SameRows DEF Unclaimed, T!GoodRow, T!ClaimedStates
  <2>9. /\ r.started_turn_id # NULL => S!Terminal(q)
        /\ old.receipt \/ r.state = "QUEUED" => S!Terminal(q)
        /\ q.state # "ABSENT"
    BY <2>2, <2>3, <2>5 DEF S!Terminal
  <2>10. ASSUME Unfinished(r, old.receipt) PROVE GoesOn(r, q)
    <3>1. r.state \in {"WAITING", "CHECKING"} <=> r.wake_reason = NULL
      BY <2>1, <2>10 DEF LegacyOutcome, Unfinished
    <3>2. state = IF r.wake_reason = NULL THEN "WAITING" ELSE "DELIVERY_PENDING"
      BY <2>5, <2>10, <3>1
    <3>3. QED
      BY <2>3, <3>2 DEF GoesOn
  <2>11. QED
    BY <1>2, <2>3, <2>8, <2>9, <2>10 DEF q
<1>3. QED
  BY <1>1, <1>2

\* Migrated once more, a row of the table is one the table could hold, the same wait, which goes
\* on if it was not finished; and a finished row is the row it was.
LEMMA TableMigrated ==
    ASSUME NEW r, T!GoodRow(r), NEW ts \in Time
    PROVE  LET q == Migrated(r, FALSE, ts) IN
           /\ Unclaimed(q)
           /\ SameWait(q, r)
           /\ r.state # "ABSENT" => q.state # "ABSENT"
           /\ Unfinished(r, FALSE) => GoesOn(r, q)
           /\ S!Terminal(r) => q = r
<1> DEFINE no == FALSE
           state == MigratedState(r, no)
           q == Migrated(r, no, ts)
<1> HIDE DEF no
<1>1. r \in S!Row
  BY SameRows DEF T!GoodRow
<1>2. CASE r.state = "ABSENT"
  <2>1. q = r
    BY <1>2 DEF Migrated
  <2>2. Unclaimed(r) /\ ~ S!Terminal(r) /\ SameWait(r, r) /\ ~ Unfinished(r, FALSE)
    BY <1>2 DEF Unclaimed, SameWait, S!Terminal, T!GoodRow, T!ClaimedStates, Unfinished
  <2>3. QED
    BY <1>2, <2>1, <2>2 DEF no
<1>3. CASE r.state # "ABSENT"
  <2>1. [r EXCEPT !.state = "ABSENT"] \in S!Row
    BY <1>1 DEF S!Row
  <2>2. state \in {"WAITING", "DELIVERY_PENDING", "DELIVERED", "CANCELLED"} /\ state \in S!AllStates
    BY MigratedStates DEF S!AllStates, S!ActiveStates
  <2>3. /\ r.state \in S!AllStates
        /\ r.started_turn_id # NULL <=> r.state = "DELIVERED"
    BY <1>1, <1>3 DEF S!Row, T!GoodRow, T!OutcomeColumns
  <2>4. /\ ~ EndedHere(r, no)
        /\ state = "WAITING" <=> r.state \in {"WAITING", "CHECKING"}
        /\ state = "DELIVERY_PENDING" <=> r.state \in {"DELIVERY_PENDING", "DELIVERING"}
        /\ state = "DELIVERED" <=> r.state = "DELIVERED"
        /\ state = "CANCELLED" <=> r.state = "CANCELLED"
    BY <2>3 DEF no, MigratedState, EndedHere, S!AllStates, S!ActiveStates
  <2>5. /\ q \in S!Row /\ q.state = state /\ SameWait(q, r)
        /\ q.next_check_at = IF r.state = "CHECKING" THEN ts ELSE r.next_check_at
        /\ q.next_delivery_at = NextDelivery(r, state, ts)
        /\ q.claim_token = NULL /\ q.claim_expires_at = NULL
        /\ q.interval_seconds = r.interval_seconds
        /\ q.delivery_attempts = r.delivery_attempts /\ q.delivery_rollout = r.delivery_rollout
        /\ q.started_turn_id = r.started_turn_id
        /\ q.delivery_blocked_reason = r.delivery_blocked_reason
        /\ q.cancelled_at = r.cancelled_at
    <3>1. /\ q \in S!Row /\ q.state = state /\ SameWait(q, r)
          /\ q.next_check_at = IF r.state = "CHECKING" THEN ts ELSE r.next_check_at
          /\ q.next_delivery_at = NextDelivery(r, state, ts)
          /\ q.claim_token = NULL /\ q.claim_expires_at = NULL
          /\ q.interval_seconds = r.interval_seconds
          /\ q.delivery_attempts = r.delivery_attempts /\ q.delivery_rollout = r.delivery_rollout
          /\ q.started_turn_id = r.started_turn_id
          /\ r.delivery_blocked_reason # NULL \/ ~ EndedHere(r, no) =>
               q.delivery_blocked_reason = r.delivery_blocked_reason
          /\ r.cancelled_at # NULL \/ ~ EndedHere(r, no) => q.cancelled_at = r.cancelled_at
      BY <1>3, <2>1, <2>2, MigratedColumns
    <3>2. QED
      BY <2>4, <3>1
  <2>6. q.next_delivery_at # NULL <=> state = "DELIVERY_PENDING"
    BY <2>5, OwedScheduled
  <2> HIDE DEF q
  <2>7. Unclaimed(q)
    BY <2>2, <2>4, <2>5, <2>6, SameRows
       DEF Unclaimed, T!GoodRow, T!ClaimedStates, T!DeliveryColumns, T!OutcomeColumns, SameWait
  <2>8. q.state # "ABSENT"
    BY <2>2, <2>5
  <2>9. ASSUME S!Terminal(r) PROVE q = r
    <3>1. state = r.state /\ state \in {"DELIVERED", "CANCELLED"} /\ r.state # "CHECKING"
      BY <2>4, <2>9 DEF S!Terminal
    <3>2. /\ q.state = r.state /\ q.next_check_at = r.next_check_at
          /\ q.next_delivery_at = NULL /\ r.next_delivery_at = NULL
          /\ r.claim_token = NULL /\ r.claim_expires_at = NULL
      BY <2>5, <2>6, <3>1 DEF T!GoodRow, T!ClaimedStates, T!DeliveryColumns
    <3>3. QED
      BY <1>1, <2>5, <3>2 DEF S!Row, SameWait
  <2>10. ASSUME Unfinished(r, no) PROVE GoesOn(r, q)
    <3>1. r.state \in {"WAITING", "CHECKING", "DELIVERY_PENDING", "DELIVERING"}
      BY <2>3, <2>10 DEF Unfinished, S!AllStates, S!ActiveStates
    <3>2. /\ r.state \in {"WAITING", "CHECKING"} => r.wake_reason = NULL
          /\ r.state \in {"DELIVERY_PENDING", "DELIVERING"} => r.wake_reason # NULL
      BY DEF T!GoodRow, T!DeliveryColumns
    <3>3. QED
      BY <2>4, <2>5, <3>1, <3>2 DEF GoesOn
  <2>11. QED
    BY <2>5, <2>7, <2>8, <2>9, <2>10 DEF q, no
<1>4. QED
  BY <1>2, <1>3


\* A table of rows nobody works on is a table.
LEMMA TableRewritten ==
    ASSUME issued \in Nat, issued' = issued, row' = [m \in Monitor |-> row'[m]],
           \A m \in Monitor : Unclaimed(row'[m])
    PROVE  T!IInv'
<1>1. \A m \in Monitor : T!GoodRow(row'[m]) /\ row'[m].claim_token = NULL
  BY DEF Unclaimed
<1>2. T!TypeOK'
  BY <1>1 DEF T!TypeOK, T!GoodRow
<1>3. T!OneDelivering'
  BY DEF Unclaimed, T!OneDelivering, T!Delivering
<1>4. T!ClaimsExclusive'
  BY <1>1 DEF T!ClaimsExclusive, T!ClaimColumns, T!GoodRow
<1>5. T!DeliveryScheduled' /\ T!OutcomeExclusive'
  BY <1>1 DEF T!DeliveryScheduled, T!OutcomeExclusive, T!GoodRow
<1>6. QED
  BY <1>2, <1>3, <1>4, <1>5 DEF T!IInv

-----------------------------------------------------------------------------
(* The invariant. *)

\* Of one monitor, what NoReplay and WaitsKept say.
Kept(old, q) ==
    /\ old.receipt \/ old.row.state = "QUEUED" \/ old.row.started_turn_id # NULL => S!Terminal(q)
    /\ old.row.state # "ABSENT" =>
         /\ q.state # "ABSENT"
         /\ q.created_at = old.row.created_at /\ q.deadline_at = old.row.deadline_at
         /\ old.row.wake_reason # NULL => q.wake_reason = old.row.wake_reason

\* NoReplay and WaitsKept, monitor by monitor.
LEMMA KeptIsPromised ==
    ASSUME legacy \in [Monitor -> LegacyRow]
    PROVE  NoReplay /\ WaitsKept <=>
             (schema = "v5" => \A m \in Monitor : Kept(legacy[m], row[m]))
BY DEF NoReplay, WaitsKept, Kept

\* In the beginning no process has opened the database.
LEMMA InvInit == Init => IInv
<1> SUFFICES ASSUME Init PROVE IInv
  OBVIOUS
<1>1. T!IInv
  BY TableAssumption, SameRows, T!InvInit DEF Init, S!Init, T!Init
<1>2. SchemaOK
  BY DEF Init, S!Init, SchemaOK
<1>3. NoReplay /\ WaitsKept
  BY DEF Init, NoReplay, WaitsKept
<1>4. QED
  BY <1>1, <1>2, <1>3 DEF IInv

\* A step of an opener that touches neither table nor schema.
LEMMA OpenerMoves ==
    ASSUME IInv, UNCHANGED <<storeVars, schema, legacy>>, SchemaOK'
    PROVE  IInv'
<1>1. T!IInv'
  BY DEF IInv, storeVars, T!IInv, T!TypeOK, T!OneDelivering, T!Delivering, T!ClaimsExclusive,
         T!ClaimColumns, T!DeliveryScheduled, T!OutcomeExclusive
<1>2. NoReplay' /\ WaitsKept'
  BY DEF IInv, storeVars, NoReplay, WaitsKept
<1>3. QED
  BY <1>1, <1>2 DEF IInv

\* What WaitsSurvive says of a migration and one monitor.
MigratedOn(m) ==
    LET r == IF schema = "v5" THEN row[m] ELSE legacy[m].row
        receipt == schema # "v5" /\ legacy[m].receipt
    IN  Unfinished(r, receipt) => GoesOn(r, row'[m])

\* What the transaction of a migration leaves, whichever table it found.
LEMMA MigrateRows ==
    ASSUME IInv, NEW o \in Opener, Migrate(o)
    PROVE  /\ T!IInv'
           /\ \A m \in Monitor : Kept(legacy[m], row'[m])
           /\ \A m \in Monitor : MigratedOn(m)
           /\ schema = "v5" => \A m \in Monitor : S!Terminal(row[m]) => row'[m] = row[m]
<1>1. PICK ts \in Time :
        row' = [m \in Monitor |-> IF schema = "v5" THEN Migrated(row[m], FALSE, ts)
                                  ELSE Migrated(legacy[m].row, legacy[m].receipt, ts)]
  BY DEF Migrate
<1>2. /\ issued \in Nat /\ issued' = issued /\ legacy \in [Monitor -> LegacyRow]
      /\ \A m \in Monitor : T!GoodRow(row[m])
  BY TableAssumption, T!RowsGood DEF IInv, SchemaOK, T!IInv, T!TypeOK, Migrate
<1>3. CASE schema = "v5"
  <2>1. \A m \in Monitor : row'[m] = Migrated(row[m], FALSE, ts)
    BY <1>1, <1>3
  <2>2. \A m \in Monitor :
          /\ Unclaimed(row'[m]) /\ SameWait(row'[m], row[m])
          /\ row[m].state # "ABSENT" => row'[m].state # "ABSENT"
          /\ Unfinished(row[m], FALSE) => GoesOn(row[m], row'[m])
          /\ S!Terminal(row[m]) => row'[m] = row[m]
    BY <1>2, <2>1, TableMigrated
  <2>3. \A m \in Monitor : Kept(legacy[m], row[m])
    BY <1>2, <1>3, KeptIsPromised DEF IInv
  <2>4. \A m \in Monitor : Kept(legacy[m], row'[m])
    BY <2>2, <2>3 DEF Kept, SameWait
  <2>5. T!IInv'
    BY <1>1, <1>2, <2>2, TableRewritten
  <2>6. \A m \in Monitor : MigratedOn(m)
    BY <1>3, <2>2 DEF MigratedOn
  <2>7. QED
    BY <2>2, <2>4, <2>5, <2>6
<1>4. CASE schema # "v5"
  <2>1. \A m \in Monitor : row'[m] = Migrated(legacy[m].row, legacy[m].receipt, ts)
    BY <1>1, <1>4
  <2>2. \A m \in Monitor :
          /\ Unclaimed(row'[m]) /\ SameWait(row'[m], legacy[m].row)
          /\ legacy[m].row.state # "ABSENT" => row'[m].state # "ABSENT"
          /\ \/ legacy[m].receipt
             \/ legacy[m].row.state = "QUEUED"
             \/ legacy[m].row.started_turn_id # NULL
             => S!Terminal(row'[m])
          /\ Unfinished(legacy[m].row, legacy[m].receipt) => GoesOn(legacy[m].row, row'[m])
    BY <1>2, <2>1, LegacyMigrated
  <2>3. \A m \in Monitor : Kept(legacy[m], row'[m])
    BY <2>2 DEF Kept, SameWait
  <2>4. T!IInv'
    BY <1>1, <1>2, <2>2, TableRewritten
  <2>5. \A m \in Monitor : MigratedOn(m)
    <3> SUFFICES ASSUME NEW m \in Monitor PROVE MigratedOn(m)
      OBVIOUS
    <3>1. legacy[m].receipt \in BOOLEAN
      BY <1>2, MigrationAssumption DEF MigrationAssumption
    <3>2. (schema # "v5" /\ legacy[m].receipt) = legacy[m].receipt
      BY <1>4, <3>1
    <3>3. QED
      BY <1>4, <2>2, <3>2 DEF MigratedOn
  <2>6. QED
    BY <1>4, <2>3, <2>4, <2>5
<1>5. QED
  BY <1>3, <1>4

\* What is kept of a legacy row is kept by every call of the table.
LEMMA CallsKeep ==
    ASSUME IInv, S!Next, schema = "v5"
    PROVE  /\ T!IInv'
           /\ \A m \in Monitor : Kept(legacy[m], row'[m])
           /\ \A m \in Monitor : S!Terminal(row[m]) => row'[m] = row[m]
<1>1. T!IInv /\ T!Next /\ legacy \in [Monitor -> LegacyRow]
  BY SameCalls DEF IInv, SchemaOK
<1>2. T!IInv'
  BY <1>1, TableAssumption, T!InvNext
<1>3. \A m \in Monitor : T!KeepsWait(row[m], row'[m])
  BY <1>1, TableAssumption, T!WaitStep
<1>4. \A m \in Monitor : S!Terminal(row[m]) => row'[m] = row[m]
  BY <1>1, TableAssumption, SameRows, T!TerminalStep
<1>5. \A m \in Monitor : Kept(legacy[m], row[m])
  BY <1>1, KeptIsPromised DEF IInv
<1>6. \A m \in Monitor : Kept(legacy[m], row'[m])
  BY <1>3, <1>4, <1>5 DEF Kept, T!KeepsWait
<1>7. QED
  BY <1>2, <1>4, <1>6

\* Every step, of any process, keeps the inductive invariant.
LEMMA InvNext == IInv /\ [Next]_vars => IInv'
<1> SUFFICES ASSUME IInv, [Next]_vars PROVE IInv'
  OBVIOUS
<1>1. CASE UNCHANGED vars
  BY <1>1, OpenerMoves DEF vars, storeVars, IInv, SchemaOK
<1>2. ASSUME NEW o \in Opener, Exists(o) PROVE IInv'
  BY <1>2, OpenerMoves DEF Exists, Goes, storeVars, IInv, SchemaOK
<1>3. ASSUME NEW o \in Opener, Create(o) PROVE IInv'
  <2>1. CASE schema # "absent"
    BY <1>3, <2>1, OpenerMoves DEF Create, Goes, storeVars, IInv, SchemaOK
  <2>2. CASE schema = "absent"
    <3>1. SchemaOK' /\ UNCHANGED <<row, issued, legacy>>
      BY <1>3, <2>2 DEF Create, Goes, storeVars, IInv, SchemaOK
    <3>2. T!IInv'
      BY <3>1 DEF IInv, T!IInv, T!TypeOK, T!OneDelivering, T!Delivering, T!ClaimsExclusive,
                  T!ClaimColumns, T!DeliveryScheduled, T!OutcomeExclusive
    <3>3. \A m \in Monitor : legacy[m].row = S!NoRow /\ ~ legacy[m].receipt
      BY <2>2, MigrationAssumption DEF IInv, SchemaOK, MigrationAssumption
    <3>4. NoReplay' /\ WaitsKept'
      BY <3>1, <3>3 DEF NoReplay, WaitsKept, S!NoRow
    <3>5. QED
      BY <3>1, <3>2, <3>4 DEF IInv
  <2>3. QED
    BY <2>1, <2>2
<1>4. ASSUME NEW o \in Opener, Columns(o) PROVE IInv'
  <2>1. schema \in {"v5", "legacy", "unsupported"}
    BY <1>4 DEF Columns, IInv, SchemaOK
  <2>2. SchemaOK'
    BY <1>4, <2>1 DEF Columns, Goes, storeVars, IInv, SchemaOK
  <2>3. QED
    BY <1>4, <2>2, OpenerMoves DEF Columns
<1>5. ASSUME NEW o \in Opener, Migrate(o) PROVE IInv'
  <2>1. T!IInv' /\ \A m \in Monitor : Kept(legacy[m], row'[m])
    BY <1>5, MigrateRows
  <2>2. SchemaOK' /\ legacy' = legacy
    BY <1>5 DEF Migrate, Goes, IInv, SchemaOK
  <2>3. (NoReplay /\ WaitsKept)'
    <3>1. legacy \in [Monitor -> LegacyRow] /\ legacy' = legacy
      BY <2>2 DEF IInv, SchemaOK
    <3>2. QED
      BY <2>1, <3>1 DEF NoReplay, WaitsKept, Kept
  <2>4. QED
    BY <2>1, <2>2, <2>3 DEF IInv
<1>6. ASSUME NEW o \in Opener, Restarts(o) PROVE IInv'
  BY <1>6, OpenerMoves DEF Restarts, Goes, storeVars, IInv, SchemaOK
<1>7. ASSUME NEW o \in Opener, Uses(o) PROVE IInv'
  <2>1. S!Next /\ UNCHANGED <<schema, legacy, opener>> /\ schema = "v5"
    BY <1>7 DEF Uses, IInv, SchemaOK
  <2>2. T!IInv' /\ \A m \in Monitor : Kept(legacy[m], row'[m])
    BY <2>1, CallsKeep
  <2>3. SchemaOK'
    BY <2>1 DEF IInv, SchemaOK
  <2>4. NoReplay' /\ WaitsKept'
    BY <2>1, <2>2, <2>3 DEF NoReplay, WaitsKept, Kept, SchemaOK
  <2>5. QED
    BY <2>2, <2>3, <2>4 DEF IInv
<1>8. QED
  BY <1>1, <1>2, <1>3, <1>4, <1>5, <1>6, <1>7 DEF Next


-----------------------------------------------------------------------------
(* The theorems. *)

\* The inductive invariant holds, whoever opens the database when, and whatever it holds.
THEOREM MigrationInvariant == Spec => []IInv
BY InvInit, InvNext, PTL DEF Spec

\* A message an old release may have sent is never sent again: its row is finished, however
\* often and by however many processes the database is opened and used.
THEOREM NothingReplayed == Spec => []NoReplay
<1>1. IInv => NoReplay
  BY DEF IInv
<1>2. QED
  BY <1>1, MigrationInvariant, PTL

\* No wait of an old release is lost, starts over or loses its wake reason, and no migration,
\* first or late, finishes one that was not finished: it is checked or delivered on.
THEOREM OldWaitsSurvive == Spec => WaitsSurvive
<1> DEFINE AllOn == \A o \in Opener, m \in Monitor : Migrates(o) => MigratedOn(m)
<1>1. IInv => WaitsKept
  BY DEF IInv
<1>2. IInv /\ [Next]_vars => [AllOn]_vars
  <2> SUFFICES ASSUME IInv, Next, NEW o \in Opener, NEW m \in Monitor, Migrates(o)
               PROVE  MigratedOn(m)
    OBVIOUS
  <2>1. Migrate(o)
    <3>1. PICK p \in Opener :
            Exists(p) \/ Create(p) \/ Columns(p) \/ Migrate(p) \/ Restarts(p) \/ Uses(p)
      BY DEF Next
    <3>2. opener[o] = "migrate" /\ opener'[o] = "open"
      BY DEF Migrates
    <3>3. opener \in [Opener -> {"closed", "create", "columns", "migrate", "open", "failed"}]
      BY DEF IInv, SchemaOK
    <3>4. ~ Uses(p)
      BY <3>2 DEF Uses
    <3>5. p = o
      BY <3>1, <3>2, <3>3, <3>4 DEF Exists, Create, Columns, Migrate, Restarts, Goes
    <3>6. QED
      BY <3>1, <3>2, <3>3, <3>4, <3>5 DEF Exists, Create, Columns, Restarts, Goes
  <2>2. QED
    BY <2>1, MigrateRows
<1>3. WaitsSurvive <=> []WaitsKept /\ [][AllOn]_vars
  BY DEF WaitsSurvive, MigratedOn
<1> HIDE DEF AllOn
<1>4. QED
  BY <1>1, <1>2, <1>3, MigrationInvariant, PTL DEF Spec

\* A migrated table is a table: what is proved of its operations holds of it from the start.
THEOREM MigratedTableConsistent == Spec => []MigratedConsistent
<1>1. IInv => MigratedConsistent
  <2> SUFFICES ASSUME IInv PROVE MigratedConsistent
    OBVIOUS
  <2>1. TypeOK
    BY SameRows DEF IInv, T!IInv, T!TypeOK, S!TypeOK, SchemaOK, TypeOK
  <2>2. S!OneDelivering /\ S!DeliveryScheduled /\ S!OutcomeExclusive
    BY SameRows DEF IInv, T!IInv, T!OneDelivering, S!OneDelivering, T!Delivering, S!Delivering,
           T!DeliveryScheduled, S!DeliveryScheduled, T!OutcomeExclusive, S!OutcomeExclusive
  <2>3. S!ClaimsExclusive
    BY DEF IInv, T!IInv, T!ClaimsExclusive, S!ClaimsExclusive, T!ClaimColumns, S!ClaimColumns,
           T!ClaimedStates, S!ClaimedStates
  <2>4. QED
    BY <2>1, <2>2, <2>3 DEF MigratedConsistent
<1>2. QED
  BY <1>1, MigrationInvariant, PTL

\* A finished row is written by no call and by no migration, first or late.
THEOREM FinishedRowsKept == Spec => FinishedKept
<1>1. IInv /\ [Next]_vars => [\A m \in Monitor : S!Terminal(row[m]) => row'[m] = row[m]]_vars
  <2> SUFFICES ASSUME IInv, Next, NEW m \in Monitor, S!Terminal(row[m])
               PROVE  row'[m] = row[m]
    OBVIOUS
  <2>1. schema = "v5"
    BY DEF IInv, SchemaOK, S!Terminal, S!NoRow
  <2>2. PICK o \in Opener :
          Exists(o) \/ Create(o) \/ Columns(o) \/ Migrate(o) \/ Restarts(o) \/ Uses(o)
    BY DEF Next
  <2>3. CASE Migrate(o)
    BY <2>1, <2>3, MigrateRows
  <2>4. CASE Uses(o)
    BY <2>1, <2>4, CallsKeep DEF Uses
  <2>5. CASE Exists(o) \/ Create(o) \/ Columns(o) \/ Restarts(o)
    BY <2>5 DEF Exists, Create, Columns, Restarts, storeVars
  <2>6. QED
    BY <2>2, <2>3, <2>4, <2>5
<1>2. QED
  BY <1>1, MigrationInvariant, PTL DEF Spec, FinishedKept

=============================================================================
