SPECIFICATION Spec
CONSTANTS
    r1 = r1
    r2 = r2
    None = None
    Requests = {r1, r2}
    Capacity = 2
    Window = 6
    Second = 2
    MaxDelay = 3
    Ttl = 12
    MaxClock = 15
CHECK_DEADLOCK FALSE
INVARIANTS
    TypeOK
    AdmissionBound
PROPERTIES
    RetryAfterSuffices
