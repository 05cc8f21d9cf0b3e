SPECIFICATION FairSpec
CONSTANTS
    None = None
    Any = Any
    Rows = {n1, n2, n3}
    Limits = {1, 2}
    MaxMs = 3
CHECK_DEADLOCK FALSE
INVARIANTS
    TypeOK
    PagesAdvance
    NothingMissed
    CursorLeadsOn
PROPERTIES
    WalkEnds
