\* One dispatcher that may die at any time, commands that may fail, two attempts and a claim
\* to spare.  A lease of two units runs out while an attempt still works (three units at
\* most): by MaxTime three claims can have been left behind and recovered one after the other,
\* or the last of them has come to its end.
CONSTANTS
    Monitor = {m1}
    t1 = t1
    Thread = {t1}
    Dispatcher = {d1}
    Proc = {p1, p2}
    Token = {1, 2, 3}
    DeliveryLease = 2
    RetryBase = 1
    RetryCap = 1
    MaxAttempts = 2
    CommandTimeout = 1
    ObserveGrace = 0
    ConfirmWait = 0
    ErrorWait = 0
    ListTimeout = 0
    CallTimeout = 0
    VisibleDelay = 0
    Timely = TRUE
    User = User
    Disturbance = {"crash", "recovery", "command fails"}
    MaxRollout = 1
    MaxTime = 6
    NULL = NULL
    ThreadOf <- SameTask
SPECIFICATION FairSpec
PROPERTIES
    AttemptEnds
    DeliveryEnds
CHECK_DEADLOCK FALSE
