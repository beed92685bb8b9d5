\* Two monitors in one task, one dispatcher, an attempt each and one more between
\* them; timers that may fire at any moment.
CONSTANTS
    Monitor = {m1, m2}
    t1 = t1
    Thread = {t1}
    Dispatcher = {d1}
    Proc = {p1, p2}
    Token = {1, 2, 3}
    DeliveryLease = 1
    RetryBase = 1
    RetryCap = 1
    MaxAttempts = 2
    CommandTimeout = 0
    ObserveGrace = 0
    ConfirmWait = 0
    ErrorWait = 0
    ListTimeout = 0
    CallTimeout = 0
    VisibleDelay = 0
    Timely = FALSE
    User = User
    Disturbance = {"recovery"}
    MaxRollout = 2
    MaxTime = 1
    NULL = NULL
    ThreadOf <- SameTask
SPECIFICATION Spec
INVARIANTS
    DeliveredOnEvidence
    AnchorCoversSends
CHECK_DEADLOCK FALSE
