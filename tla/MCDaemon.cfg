\* Small numbers in the order of the defaults: a check ends within its lease, the tick is longer
\* than a check, so that what waits for two of them shows, and a round has room for just the
\* monitors there are.  Two monitors, whose waits of three units and all the delay the bounds
\* allow are over before MaxTime, and a daemon that dies once at any moment.  The six claims
\* are never used up.
CONSTANTS
    Monitor = {m1, m2}
    Token = {1, 2, 3, 4, 5, 6}
    NULL = NULL
    Interval = {2}
    Timeout = {3}
    CheckTimeout = 1
    CheckLease = 2
    TickSeconds = 2
    Throttle = 1
    MaxChecks = 2
    Outcome = {"success"}
    MaxCrashes = 1
    MaxRegistration = 1
    MaxTime = 19
SYMMETRY Symmetry
SPECIFICATION Spec
INVARIANTS
    TypeOK
    HardTimeoutMet
    DueChecksServed
    WakeTruthful
CHECK_DEADLOCK FALSE
