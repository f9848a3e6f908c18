SPECIFICATION Spec
CONSTANTS
    a = a
    b = b
    o = o
    i1 = i1
    i2 = i2
    Gateways = {o, i1, i2}
    Outer = o
    Leaves = {a, b}
    Home <- NestedHome
    Admin = admin
    Initiators = {admin, tenant}
    None = None
    Router = Router
    Main = Main
    MaxMail = 1
    MaxSignals = 2
    Cancels = TRUE
CHECK_DEADLOCK FALSE
INVARIANTS
    DegradedWhileParked
    LastParkWritesRunning
    CompletesWhenJoined
