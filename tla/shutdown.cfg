SPECIFICATION FairSpec
CONSTANTS
    None = None
    Workers = {w1, w2}
    Requests = {r1}
    Triggers = {"SIGTERM", "SIGINT", "exception"}
CHECK_DEADLOCK FALSE
INVARIANTS
    TypeOK
    ClosedOnce
    ConnectionsOutliveWork
PROPERTIES
    DrainEnds
