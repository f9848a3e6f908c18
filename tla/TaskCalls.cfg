SPECIFICATION Spec
CONSTANTS
    u1 = u1
    u2 = u2
    u3 = u3
    Users = {u1, u2, u3}
    None = None
    Teams <- OneOrTwoAssignees
    MaxVisits = 2
    Budgets <- CallBudgets
CHECK_DEADLOCK FALSE
INVARIANTS
    ResultOfItsVisit
    WaitingTaskActionable
    SingleHasOneAssignee
PROPERTIES
    ClaimSurvives
    LeadHandedOver
