\* A shell alone that prints bytes no character has.
CONSTANTS
    Process = {shell}
    Shell = shell
    Trait = {}
    Mark = {"success", "undecodable"}
    CheckTimeout = 1
    Grace = 1
    TailChars = 2
    MaxPrinted = 3
    MaxTime = 3
SPECIFICATION Spec
INVARIANTS
    SuccessWakes
CHECK_DEADLOCK FALSE
