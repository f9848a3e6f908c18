---------------------------- MODULE MCTaskStage ----------------------------
(* TaskStage on small instances: one assignee or two, and a budget of calls per
   question. *)
EXTENDS TaskStage, TLC

CONSTANTS u1, u2, u3

OneAssignee == {<<u1>>}
OneOrTwoAssignees == {<<u1>>, <<u1, u2>>}

Calls(complete, defer, claim, reassign, forward, back, cancel, terminate) ==
    [complete |-> complete, defer |-> defer, claim |-> claim, reassign |-> reassign,
     forward |-> forward, back |-> back, cancel |-> cancel, terminate |-> terminate]

\* Results, a defer, forced routes between two visits and a cancel;
\* reassignments that cross each other, two results and a cancel; or claims that
\* cross each other and a reassignment of the lead, a defer and a termination.
CallBudgets ==
    {Calls(2, 1, 0, 0, 1, 1, 1, 0), Calls(2, 0, 0, 2, 0, 0, 1, 0), Calls(1, 1, 2, 1, 0, 0, 0, 1)}

\* Three results of one task and a cancel.
ResultsAndCancel == {Calls(3, 0, 0, 0, 0, 0, 1, 0)}

=============================================================================
