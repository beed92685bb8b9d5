---------------------------- MODULE MCMigration -----------------------------
(* Small instances of Migration. *)
EXTENDS Migration, TLC

CONSTANTS t1

Old(state, woken, attempts, receipt) ==
    [row |-> [S!NoRow EXCEPT !.state = state, !.created_at = 1, !.interval_seconds = 1,
                             !.deadline_at = 2, !.next_check_at = 2,
                             !.wake_reason = IF woken THEN "success" ELSE NULL,
                             !.next_delivery_at = IF state = "QUEUE_PENDING" THEN 1 ELSE NULL,
                             !.delivery_attempts = attempts,
                             !.cancelled_at = IF state = "CANCELLED" THEN 1 ELSE NULL],
     receipt |-> receipt]

\* What releases 2 to 4 leave behind: no row, a wait, a check under way, a delivery
\* owed, one under way with and without a receipt, one queued, one consumed, one
\* that was cancelled after it was queued, and one in a state nobody knows.
OldRows ==
    {[row |-> S!NoRow, receipt |-> FALSE],
     Old("WAITING", FALSE, 0, FALSE),
     Old("CHECKING", FALSE, 0, FALSE),
     Old("QUEUE_PENDING", TRUE, 1, FALSE),
     Old("QUEUING", TRUE, 1, FALSE),
     Old("QUEUING", TRUE, 1, TRUE),
     Old("QUEUED", TRUE, 1, TRUE),
     LET queued == Old("QUEUED", TRUE, 1, TRUE) IN [queued EXCEPT !.row.started_turn_id = t1],
     Old("CANCELLED", TRUE, 1, TRUE),
     Old("UNKNOWN", TRUE, 1, FALSE)}

Symmetry == Permutations(Monitor) \cup Permutations(Opener)
=============================================================================
