\* The timely defaults of MCDispatchTimely and a budget of one attempt.
CONSTANTS
    Monitor = {m1}
    t1 = t1
    Thread = {t1}
    Dispatcher = {d1}
    Proc = {p1, p2}
    Token = {1, 2}
    DeliveryLease = 12
    RetryBase = 4
    RetryCap = 240
    MaxAttempts = 1
    CommandTimeout = 2
    ObserveGrace = 1
    ConfirmWait = 2
    ErrorWait = 0
    ListTimeout = 1
    CallTimeout = 2
    VisibleDelay = 1
    Timely = TRUE
    User = User
    Disturbance = {"crash"}
    MaxRollout = 2
    MaxTime = 16
    NULL = NULL
    ThreadOf <- SameTask
SYMMETRY Symmetry
SPECIFICATION Spec
INVARIANTS
    AttemptsWithinBudget
CHECK_DEADLOCK FALSE
