\* One monitor, two dispatchers, two attempts, every disturbance, and timers
\* that may fire at any moment: all timeouts are 0 and nothing need be timely.
CONSTANTS
    Monitor = {m1}
    t1 = t1
    Thread = {t1}
    Dispatcher = {d1, d2}
    Proc = {p1, p2}
    Token = {1, 2}
    DeliveryLease = 1
    RetryBase = 1
    RetryCap = 1
    MaxAttempts = 2
    CommandTimeout = 0
    ObserveGrace = 0
    ConfirmWait = 0
    ErrorWait = 0
    ListTimeout = 0
    CallTimeout = 0
    VisibleDelay = 0
    Timely = FALSE
    User = User
    Disturbance = {"crash", "command fails", "user continues", "archive", "scan limit", "invalid target", "cancel", "recovery"}
    MaxRollout = 2
    MaxTime = 1
    NULL = NULL
    ThreadOf <- SameTask
SYMMETRY Symmetry
SPECIFICATION Spec
INVARIANTS
    TypeOK
    DeliveredOnEvidence
    AnchorCoversSends
CHECK_DEADLOCK FALSE
