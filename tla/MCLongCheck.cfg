\* The defaults of cli.py in units of 30 s, rounded up: a lease of 150 s, a tick of 15 s, a
\* throttle of 5 s.  One monitor, no crash; but --check-timeout grants a check 180 s, more
\* than its lease.
CONSTANTS
    Monitor = {m1}
    Token = {1, 2, 3, 4, 5}
    NULL = NULL
    Interval = {2}
    Timeout = {3}
    CheckTimeout = 6
    CheckLease = 5
    TickSeconds = 1
    Throttle = 1
    MaxChecks = 100
    Outcome = {"success"}
    MaxCrashes = 0
    MaxRegistration = 1
    MaxTime = 22
SPECIFICATION Spec
INVARIANTS
    HardTimeoutMet
CHECK_DEADLOCK FALSE
