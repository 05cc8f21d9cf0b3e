SPECIFICATION Spec
CONSTANTS
    f1 = f1
    f2 = f2
    p1 = p1
    u1 = u1
    u2 = u2
    u3 = u3
    b1 = b1
    None = None
    Fanouts = {f1, f2}
    Posts = {p1}
    Users = {u1, u2}
    Strangers = {u2}
    BaseKeys = {b1}
    BaseOf <- BaseOfAll
    PostKey <- PostKeyOfAll
    PostUser <- PostUserOfAll
    Failures = {"abort", "lostCommit", "redis", "crash", "expire"}
INVARIANTS
    TypeOK
    OneRowPerKey
    RowHasJob
    AnswersAgree
    NoGhostKey
    OneInserter
    FanoutIsHonest
