SPECIFICATION FairSpec
CONSTANTS
    Task = {"t1", "t2"}
    Inst = {"i1", "i2"}
    InstOf <- InstanceOf
    Joint = {"t1"}
    Delivery = {"d1", "d2", "d3", "d4"}
    Scenarios <- Shared
    MaxFaults = 1
    None = None
CHECK_DEADLOCK FALSE
PROPERTIES
    CoAssigneeInherits
