SPECIFICATION FairSpec
CONSTANTS
    a = a
    b = b
    o = o
    i1 = i1
    i2 = i2
    Gateways = {o}
    Outer = o
    Leaves = {a, b}
    Home <- FlatHome
    Admin = admin
    Initiators = {admin, tenant}
    None = None
    Router = Router
    Main = Main
    MaxMail = 1
    MaxSignals = 4
    Cancels = TRUE
CHECK_DEADLOCK FALSE
INVARIANTS
    PauseFollowsStatus
    StoredStatusFollows
    HeldResultsHaveAPause
PROPERTIES
    PauseOwnership
    ImplementsInstanceStatus
    ResolvedParkEnds
