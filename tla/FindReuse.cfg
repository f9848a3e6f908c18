SPECIFICATION StartSpec
CONSTANTS
    Inst = {i1, i2}
    Starter = {s1, s2}
    Closer = {c1}
    Key = {"k"}
    KeyOf <- OneKey
    In <- SameInput
    None = None
    MaxFaults = 2
    startWorkflowMaxAttempts = 2
CHECK_DEADLOCK FALSE
PROPERTIES
    NamedCloseEndsItsOwn
