\* Two processes open, use and reopen a database of up to two monitors; two claims.
CONSTANTS
    Monitor = {m1, m2}
    Token = {1, 2}
    Time = {1, 2}
    Interval = {1}
    Timeout = {1}
    CheckLease = 1
    DeliveryLease = 1
    RetryDelay = {1}
    Anchor = {a1}
    Turn = {t1}
    t1 = t1
    BlockReason = {"legacy_delivery_receipt_removed", "unsupported_legacy_state"}
    NULL = NULL
    Opener = {o1, o2}
    LegacyRow <- OldRows
SYMMETRY Symmetry
SPECIFICATION Spec
INVARIANTS
    NoReplay
    MigratedConsistent
PROPERTIES
    WaitsSurvive
    FinishedKept
CHECK_DEADLOCK FALSE
