----------------------------- MODULE Migration -----------------------------
(***************************************************************************)
(* Opening the database (Store.init, _migrate_legacy_schema of store.py)   *)
(* while other processes open it or use the table (module Store).  init    *)
(* looks at the schema outside of any transaction; the migration is one    *)
(* BEGIN IMMEDIATE transaction, so a process that dies in it leaves the    *)
(* database as it was.                                                     *)
(***************************************************************************)
EXTENDS Naturals, FiniteSets

CONSTANTS
    Monitor, Token, Time, Interval, Timeout, CheckLease, DeliveryLease, RetryDelay, Anchor,
    Turn, BlockReason, NULL,    \* as in Store
    Opener,         \* processes that open the database
    LegacyRow       \* rows old releases left behind

VARIABLES
    row, issued,    \* the migrated table, module Store
    schema,         \* of the database on disk
    legacy,         \* the rows before the migration
    opener          \* how far each process is in Store()

vars == <<row, issued, schema, legacy, opener>>
storeVars == <<row, issued>>

S == INSTANCE Store

\* UNKNOWN stands for a state neither this release nor _migrated_record has a name for.
LegacyStates == S!AllStates \cup {"ABSENT", "QUEUE_PENDING", "QUEUING", "QUEUED", "UNKNOWN"}

\* What an old release leaves behind: it sends for a woken wait only and counts the attempt, it
\* knows a turn of what it has delivered and of nothing it has cancelled, and it dates a
\* cancellation.  Rows the code would take all the same, and make rows of that no operation of
\* Store makes, are left out: delivered without a turn, in an unknown state but never woken,
\* owed a delivery without a wake reason.
LegacyOutcome(r, receipt) ==
    /\ r.state \in {"WAITING", "CHECKING"} <=> r.wake_reason = NULL /\ r.state # "CANCELLED"
    /\ r.state = "DELIVERED" => r.started_turn_id # NULL
    /\ r.started_turn_id # NULL => r.wake_reason # NULL /\ r.state # "CANCELLED"
    /\ r.delivery_rollout # NULL => r.wake_reason # NULL
    /\ receipt \/ r.state \in {"QUEUED", "UNKNOWN"} =>
         r.wake_reason # NULL /\ r.delivery_attempts > 0
    /\ r.cancelled_at # NULL <=> r.state = "CANCELLED"
    /\ r.delivery_blocked_reason # NULL =>
         r.state = "CANCELLED" /\ r.wake_reason # NULL /\ r.delivery_attempts > 0

ASSUME MigrationAssumption ==
    /\ S!StoreAssumption
    /\ {"legacy_delivery_receipt_removed", "unsupported_legacy_state"} \subseteq BlockReason
    /\ \A r \in LegacyRow :
         /\ r.row.state \in LegacyStates /\ r.receipt \in BOOLEAN
         /\ [r.row EXCEPT !.state = "ABSENT"] \in S!Row
         /\ IF r.row.state = "ABSENT" THEN r.row = S!NoRow /\ ~r.receipt
            ELSE LegacyOutcome(r.row, r.receipt)

TypeOK ==
    /\ S!TypeOK
    /\ schema \in {"absent", "legacy", "v5", "unsupported"}
    /\ legacy \in [Monitor -> LegacyRow]
    /\ opener \in [Opener -> {"closed", "create", "columns", "migrate", "open", "failed"}]
    /\ schema # "v5" => row = [m \in Monitor |-> S!NoRow]
    /\ \A o \in Opener : opener[o] = "open" => schema = "v5"

-----------------------------------------------------------------------------
(* _migrated_record.  A legacy row is a row of Store whose state may be an *)
(* old one, with next_queue_at and queue_attempts in the delivery columns, *)
(* and with or without a queued_submission_id, the receipt of a message    *)
(* the old release sent.                                                   *)

\* Mutant: a receipt is only a delivery to be tried again.
MutMigratedState(r, receipt) ==
    CASE r.state = "CANCELLED" -> "CANCELLED"
      [] r.state # "CANCELLED" /\ r.started_turn_id # NULL -> "DELIVERED"
      [] r.started_turn_id = NULL /\ r.state \in {"WAITING", "CHECKING"} -> "WAITING"
      [] OTHER -> "DELIVERY_PENDING"

\* Mutant: a delivery owed under its old name is in no state of the new release.
MutMigratedStateOwed(r, receipt) ==
    IF r.state = "CANCELLED" THEN "CANCELLED"
    ELSE IF r.started_turn_id # NULL THEN "DELIVERED"
    ELSE IF receipt \/ r.state = "QUEUED" THEN "CANCELLED"
    ELSE IF r.state \in {"DELIVERY_PENDING", "DELIVERING"} THEN "DELIVERY_PENDING"
    ELSE IF r.state \in {"WAITING", "CHECKING"} THEN "WAITING"
    ELSE IF r.state = "DELIVERED" THEN "DELIVERED" ELSE "CANCELLED"

MigratedState(r, receipt) ==
    IF r.state = "CANCELLED" THEN "CANCELLED"
    ELSE IF r.started_turn_id # NULL THEN "DELIVERED"
    ELSE IF receipt \/ r.state = "QUEUED" THEN "CANCELLED"
    ELSE IF r.state \in {"QUEUE_PENDING", "QUEUING", "DELIVERY_PENDING", "DELIVERING"}
         THEN "DELIVERY_PENDING"
    ELSE IF r.state \in {"WAITING", "CHECKING"} THEN "WAITING"
    ELSE IF r.state = "DELIVERED" THEN "DELIVERED" ELSE "CANCELLED"

\* Mutant: the schedule of a delivery in flight is the one it had.
MutNextDelivery(r, state, ts) == IF state = "DELIVERY_PENDING" THEN r.next_delivery_at ELSE NULL

NextDelivery(r, state, ts) ==
    IF state # "DELIVERY_PENDING" THEN NULL
    ELSE IF r.state \in {"QUEUING", "DELIVERING"} \/ r.next_delivery_at = NULL THEN ts
    ELSE r.next_delivery_at

\* A row the migration itself ends gets a reason and a date.
EndedHere(r, receipt) == MigratedState(r, receipt) = "CANCELLED" /\ r.state # "CANCELLED"

Migrated(r, receipt, ts) ==
    LET state == MigratedState(r, receipt)
        reason == IF receipt \/ r.state = "QUEUED" THEN "legacy_delivery_receipt_removed"
                  ELSE "unsupported_legacy_state"
        Or(value, default) == IF value = NULL /\ EndedHere(r, receipt) THEN default ELSE value
    IN
    IF r.state = "ABSENT" THEN r
    ELSE [S!Released(r) EXCEPT
            !.state = state,
            !.next_check_at = IF r.state = "CHECKING" THEN ts ELSE @,
            !.next_delivery_at = NextDelivery(r, state, ts),
            !.delivery_blocked_reason = Or(@, reason),
            !.cancelled_at = Or(@, ts)]

-----------------------------------------------------------------------------
(* Store.init *)

Goes(o, pc) == opener' = [opener EXCEPT ![o] = pc]

\* sqlite_master
Exists(o) ==
    /\ opener[o] = "closed"
    /\ Goes(o, IF schema = "absent" THEN "create" ELSE "columns")
    /\ UNCHANGED <<storeVars, schema, legacy>>

\* CREATE TABLE without IF NOT EXISTS
Create(o) ==
    /\ opener[o] = "create"
    /\ IF schema = "absent" THEN schema' = "v5" /\ Goes(o, "open")
       ELSE schema' = schema /\ Goes(o, "failed")
    /\ UNCHANGED <<storeVars, legacy>>

\* PRAGMA table_info, and again when all is done
Columns(o) ==
    /\ opener[o] = "columns"
    /\ Goes(o, CASE schema = "v5"          -> "open"
                 [] schema = "legacy"      -> "migrate"
                 [] schema = "unsupported" -> "failed")
    /\ UNCHANGED <<storeVars, schema, legacy>>

\* Mutant: the rows were read before the transaction, with the columns.
MutMigrate(o) ==
    /\ opener[o] = "migrate"
    /\ \E ts \in Time :
         row' = [m \in Monitor |-> Migrated(legacy[m].row, legacy[m].receipt, ts)]
    /\ schema' = "v5"
    /\ Goes(o, "open")
    /\ UNCHANGED <<issued, legacy>>

\* The rows are read again in the transaction, the columns are not: a table that
\* another process has migrated meanwhile is migrated once more.
Migrate(o) ==
    /\ opener[o] = "migrate"
    /\ \E ts \in Time :
         row' = [m \in Monitor |-> IF schema = "v5" THEN Migrated(row[m], FALSE, ts)
                                   ELSE Migrated(legacy[m].row, legacy[m].receipt, ts)]
    /\ schema' = "v5"
    /\ Goes(o, "open")
    /\ UNCHANGED <<issued, legacy>>

\* Dies wherever it is, or exits, and is started again.
Restarts(o) ==
    /\ opener[o] # "closed"
    /\ Goes(o, "closed")
    /\ UNCHANGED <<storeVars, schema, legacy>>

Uses(o) ==
    /\ opener[o] = "open"
    /\ S!Next
    /\ UNCHANGED <<schema, legacy, opener>>

-----------------------------------------------------------------------------

Init ==
    /\ S!Init
    /\ schema \in {"absent", "legacy", "unsupported"}
    /\ legacy \in [Monitor -> LegacyRow]
    /\ schema # "legacy" => \A m \in Monitor : legacy[m].row.state = "ABSENT"
    /\ opener = [o \in Opener |-> "closed"]

Next ==
    \E o \in Opener :
        Exists(o) \/ Create(o) \/ Columns(o) \/ Migrate(o) \/ Restarts(o) \/ Uses(o)

Spec == Init /\ [][Next]_vars

-----------------------------------------------------------------------------
(* Safety. *)

\* test_v4_delivery_records_migrate_without_replaying_ambiguous_receipt: a message
\* an old release may have queued, or whose turn is on record, is never sent again,
\* by whatever follows the migration.
NoReplay ==
    \A m \in Monitor :
        LET old == legacy[m] IN
        /\ schema = "v5"
        /\ old.receipt \/ old.row.state = "QUEUED" \/ old.row.started_turn_id # NULL
        => S!Terminal(row[m])

\* No wait of an old release is lost or starts over: it keeps its deadline and wake reason.
WaitsKept ==
    \A m \in Monitor :
        LET old == legacy[m].row IN
        schema = "v5" /\ old.state # "ABSENT" =>
            /\ row[m].state # "ABSENT"
            /\ row[m].created_at = old.created_at /\ row[m].deadline_at = old.deadline_at
            /\ old.wake_reason # NULL => row[m].wake_reason = old.wake_reason

\* A wait that is checked or whose wake-up is owed, and for which nothing was sent.
Unfinished(r, receipt) ==
    /\ r.state \in {"WAITING", "CHECKING", "QUEUE_PENDING", "QUEUING", "DELIVERY_PENDING",
                    "DELIVERING"}
    /\ ~receipt /\ r.started_turn_id = NULL

\* It is checked again if it was not woken, and delivered if it was.
GoesOn(r, q) == q.state = IF r.wake_reason = NULL THEN "WAITING" ELSE "DELIVERY_PENDING"

Migrates(o) == opener[o] = "migrate" /\ opener'[o] = "open"

\* test_v4_delivery_records_migrate_without_replaying_ambiguous_receipt: a wait survives every
\* migration, whichever process makes it and however late.  None is lost or starts over, and
\* one that was not finished is not finished by it: a wait that was not woken goes on waiting,
\* a delivery that was owed or under way is owed, also when another process had claimed the
\* row in the table it found migrated.
WaitsSurvive ==
    /\ []WaitsKept
    /\ [][\A o \in Opener, m \in Monitor :
            Migrates(o) =>
                LET r == IF schema = "v5" THEN row[m] ELSE legacy[m].row
                    receipt == schema # "v5" /\ legacy[m].receipt
                IN  Unfinished(r, receipt) => GoesOn(r, row'[m])]_vars

\* A migrated table is one the operations of Store could have made: every property
\* they preserve holds from the start, for the rows old releases leave behind.
MigratedConsistent ==
    /\ TypeOK
    /\ S!OneDelivering /\ S!ClaimsExclusive /\ S!DeliveryScheduled /\ S!OutcomeExclusive

\* A finished row stays as it is, migrated once more or not.
FinishedKept == [][\A m \in Monitor : S!Terminal(row[m]) => row'[m] = row[m]]_vars

\* test_state_persists_across_store_instances: opening a database that is already
\* migrated changes no row; a claim someone holds is left to its lease.
OpeningKeepsRows == [][schema = "v5" /\ opener' # opener => UNCHANGED row]_vars
=============================================================================
