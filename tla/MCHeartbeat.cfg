\* Units of 5 s: a heartbeat each, four until one is stale, time for two lives.
CONSTANTS
    Pid = {p1}
    Every = 1
    MaxAge = 4
    Skew = 1
    DoctorTime = 1
    MaxMissed = 3
    MaxTime = 9
SPECIFICATION Spec
INVARIANTS
    TypeOK
    ListedLoaded
    SteadyListed
CHECK_DEADLOCK FALSE
