SPECIFICATION FairSpec
CONSTANTS
    Plans <- Cases
    Lists <- StepLists
    Redirects <- RedirectSteps
    Results = {"yes", "no", "unreadable"}
    Codes = {"broken"}
    MaxCycles = 2
    MaxCo = 8
    None = None
CHECK_DEADLOCK FALSE
INVARIANTS
    BufferedSendsAreInHistory
    LiveWaitsAreReachable
PROPERTIES
    KeysApart
    LeftWorkStops
    CallEnds
