\* Two rollout files of three pieces together; a scan gives up once it has read two, and the
\* window of the context is two, so that it may start inside a record.
CONSTANTS
    Path = {f1, f2}
    FirstPath = f1
    Record <- Records
    Turn = {1, 2, 3}
    NULL = NULL
    ScanLimit = 1
    ContextTail = 2
    MaxPieces = 3
SPECIFICATION Spec
INVARIANTS
    TypeOK
PROPERTIES
    FinalAnswersTrue
    NothingOverlooked
    AnchorParts
CHECK_DEADLOCK FALSE
