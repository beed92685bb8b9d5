\* Two monitors; four claims in all, so a row is claimed, reclaimed and raced
\* by stale holders; leases of one unit expire at the second reading of the
\* clock, are renewed, and outlive its last reading.  Durations of up to three digits in
\* floats of 14 bits.
CONSTANTS
    Monitor = {m1, m2}
    Token = {1, 2, 3, 4}
    Time = {1, 2}
    Interval = {1}
    Timeout = {1}
    CheckLease = 1
    DeliveryLease = 1
    RetryDelay = {0, 1}
    Anchor = {a1, a2}
    Turn = {t1}
    BlockReason = {exhausted}
    NULL = NULL
    Digits <- SmallDigits
    Decimals <- SmallDecimals
    Units = {"s", "m", "h", "d"}
    Precision = 14
    Guard = 4
SYMMETRY Symmetry
SPECIFICATION Spec
INVARIANTS
    TypeOK
    OneDelivering
    ClaimsExclusive
    DeliveryScheduled
    OutcomeExclusive
    DurationsKept
PROPERTIES
    ImplementsWait
    TerminalFrozen
    PhaseAdvances
CHECK_DEADLOCK FALSE
