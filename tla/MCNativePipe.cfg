\* Two attempts over two connections, three frames from Desktop.
CONSTANTS
    Claim = {c1, c2}
    MaxConnections = 2
    MaxFrames = 3
SPECIFICATION FairSpec
INVARIANTS
    Consistent
    CatalogueCurrent
PROPERTIES
    ImplementsSend
    AttemptSettles
CHECK_DEADLOCK FALSE
