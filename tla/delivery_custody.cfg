SPECIFICATION Spec
CONSTANTS
    n1 = n1
    n2 = n2
    u1 = u1
    u2 = u2
    w1 = w1
    w2 = w2
    a1 = a1
    a2 = a2
    None = None
    Notes = {n1}
    Owner <- OwnerOfOne
    Users = {u1}
    DemoUsers = {u1}
    Asked = {"websocket"}
    Faults = {"stall", "db"}
    Admins = {a1, a2}
    Workers = {w1, w2}
    MaxJobs = 3
    Attempts = 1
    MaxStalled = 0
CHECK_DEADLOCK FALSE
SYMMETRY ActorSymmetry
INVARIANTS
    Accounted
    DeadLetterRetryable
