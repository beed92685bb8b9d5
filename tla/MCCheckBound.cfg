\* A shell and one more process, of any kind.
CONSTANTS
    Process = {shell, p1}
    Shell = shell
    Trait = {"survives SIGTERM", "own session", "detached output"}
    Mark = {}
    CheckTimeout = 1
    Grace = 1
    TailChars = 2
    MaxPrinted = 0
    MaxTime = 3
SPECIFICATION Spec
INVARIANTS
    CheckBounded
CHECK_DEADLOCK FALSE
