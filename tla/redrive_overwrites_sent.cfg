SPECIFICATION Spec
CONSTANTS
    n1 = n1
    n2 = n2
    u1 = u1
    u2 = u2
    w1 = w1
    w2 = w2
    a1 = a1
    a2 = a2
    None = None
    Notes = {n1}
    Owner <- OwnerOfOne
    Users = {u1}
    DemoUsers = {}
    Asked = {"email"}
    Faults = {"smtp"}
    Admins = {a1}
    Workers = {w1, w2}
    MaxJobs = 2
    Attempts = 2
    MaxStalled = 0
CHECK_DEADLOCK FALSE
PROPERTIES
    RedriveOnlyDeadLetters
