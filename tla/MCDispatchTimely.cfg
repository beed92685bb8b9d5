\* The defaults of cli.py and dispatcher.mjs in units of 15 s, waits rounded up:
\* lease 180 s, backoff 60 s doubling to an hour, commands 20 s, observations 10 s
\* beyond their wait of 0, 30 or 2 s, tools/list 10 s, tools/call 30 s.  MaxTime lets
\* a second attempt run after the lease of the first has expired, or fail and be put off
\* for twice the first backoff.
CONSTANTS
    Monitor = {m1}
    t1 = t1
    Thread = {t1}
    Dispatcher = {d1, d2}
    Proc = {p1, p2}
    Token = {1, 2}
    DeliveryLease = 12
    RetryBase = 4
    RetryCap = 240
    MaxAttempts = 12
    CommandTimeout = 2
    ObserveGrace = 1
    ConfirmWait = 2
    ErrorWait = 0
    ListTimeout = 1
    CallTimeout = 2
    VisibleDelay = 1
    Timely = TRUE
    User = User
    Disturbance = {"crash"}
    MaxRollout = 2
    MaxTime = 14
    NULL = NULL
    ThreadOf <- SameTask
SYMMETRY Symmetry
SPECIFICATION Spec
INVARIANTS
    SendsAlone
    NoDuplicateContinue
PROPERTIES
    RetriesSpaced
CHECK_DEADLOCK FALSE
