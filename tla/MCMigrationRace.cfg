\* Two processes open the database when they like.
CONSTANTS
    Monitor = {m1, m2}
    Token = {1, 2}
    Time = {1, 2}
    Interval = {1}
    Timeout = {1}
    CheckLease = 1
    DeliveryLease = 1
    RetryDelay = {1}
    Anchor = {a1}
    Turn = {t1}
    t1 = t1
    BlockReason = {"legacy_delivery_receipt_removed", "unsupported_legacy_state"}
    NULL = NULL
    Opener = {o1, o2}
    LegacyRow <- OldRows
SYMMETRY Symmetry
SPECIFICATION Spec
PROPERTIES
    OpeningKeepsRows
CHECK_DEADLOCK FALSE
