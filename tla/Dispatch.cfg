SPECIFICATION FairSpec
CONSTANTS
    t1 = t1
    Task = {t1}
    Entry = {e1}
    Worker = {w1, w2}
    TaskOf <- SameTask
    None = None
    PoolSize = 0
    MaxAttempts = 2
    MaxDeliveries = 2
    MaxFaults = 2
CHECK_DEADLOCK FALSE
INVARIANTS
    RunsOnceUnlessLost
    OneVerdict
    SignalledOnce
    AckedMeansSettled
PROPERTIES
    EntryLeavesStream
