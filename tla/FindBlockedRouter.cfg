SPECIFICATION FairSpec
CONSTANTS
    u1 = u1
    u2 = u2
    u3 = u3
    Users = {u1, u2, u3}
    None = None
    Teams <- OneAssignee
    MaxVisits = 1
    Budgets <- ResultsAndCancel
CHECK_DEADLOCK FALSE
PROPERTIES
    CancelCarriedOut
