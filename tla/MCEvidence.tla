----------------------------- MODULE MCEvidence -----------------------------
(* A small instance of Evidence. *)
EXTENDS Evidence

Rec(type, kind, exact, thread, turn) ==
    [type |-> type, kind |-> kind, exact |-> exact, thread |-> thread, turn |-> turn, big |-> FALSE]

\* A user's continue, another task's delegation, a delegation of this task, a turn
\* context, and a record that is too long.
Records ==
    {Rec("response_item", "user", TRUE, "own", 1),
     Rec("response_item", "delegation", TRUE, "another", 2),
     Rec("event_msg", "delegation", TRUE, "own", 3),
     [Rec("other", "other", FALSE, "own", NULL) EXCEPT !.big = TRUE]}
=============================================================================
