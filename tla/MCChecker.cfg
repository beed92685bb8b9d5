\* A shell and two more processes of any kind, three marks of output, tails of two.
CONSTANTS
    Process = {shell, p1, p2}
    Shell = shell
    Trait = {"survives SIGTERM", "own session", "detached output"}
    Mark = {"noise", "success", "failure"}
    CheckTimeout = 1
    Grace = 1
    TailChars = 2
    MaxPrinted = 3
    MaxTime = 3
SYMMETRY Symmetry
SPECIFICATION Spec
INVARIANTS
    TypeOK
    ChecksEnd
    NothingMissed
    VerdictOfTails
CHECK_DEADLOCK FALSE
