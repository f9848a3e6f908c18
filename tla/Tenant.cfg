SPECIFICATION Spec
CONSTANTS
    Inst = {i1, i2}
    Starter = {s1}
    Closer = {}
    Key = {s1}
    KeyOf <- OwnKey
    In <- SameInput
    None = None
    startWorkflowMaxAttempts = 1
    MaxFaults = 1
    Event = {"first", "second"}
    Histories <- Moves
    Purger = {p1, p2}
SYMMETRY Replicas
CHECK_DEADLOCK FALSE
INVARIANTS
    OffboardedLeavesNothing
    NewestStatusWins
    PurgedLeavesNothing
PROPERTIES
    PurgeSparesReturned
