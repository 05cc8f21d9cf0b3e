SPECIFICATION FairSessions
CONSTANTS
    None = None
    Users = {d1, u1}
    DemoUsers = {d1}
    AdminUsers = {u1}
    Sockets = {s1, s2}
    Replicas = {r1, r2}
    NODE_ENV = "development"
    TokenLife = 1
    UserLife = 3
    SignDelay = 1
INVARIANTS
    SessionsTypeOK
    MapsAgree
    RegistryMirrorsRooms
    RoomsAreAuthenticated
    OnlyDeadSessionsDeleted
    OneSchedule
    GatesHold
PROPERTIES
    DemoUsersGo
