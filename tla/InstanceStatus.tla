--------------------------- MODULE InstanceStatus ---------------------------
(***************************************************************************)
(* What an instance's life promises to those who pause it: the abstract    *)
(* specification that InstanceLifecycle implements when the plan has one   *)
(* parallel gateway.  It has the status and the owner of the pause in      *)
(* force, and nothing of channels, activities, parks or branches.          *)
(***************************************************************************)
CONSTANTS Initiators, Admin, None

VARIABLES
    status,  \* the interpreter's status
    owner,   \* the initiator of the pause in force, or None
    lifter   \* the initiator who lifted the last pause lifted, or None

absVars == <<status, owner, lifter>>

AbsInit == status = "RUNNING" /\ owner = None /\ lifter = None

\* A pause is taken when none is in force; it shows when the instance is not degraded.
TakePause(i) ==
    /\ owner = None
    /\ owner' = i
    /\ UNCHANGED lifter
    /\ \/ status = "RUNNING" /\ status' = "PAUSED"
       \/ status = "DEGRADED" /\ status' = "DEGRADED"

\* A pause is lifted by its owner or the administrator only.
LiftPause(i) ==
    /\ owner # None
    /\ i \in {Admin, owner}
    /\ owner' = None
    /\ lifter' = i
    /\ \/ status = "PAUSED" /\ status' = "RUNNING"
       \/ status = "DEGRADED" /\ status' = "DEGRADED"

\* A parallel step lost a branch; a pause in force stays in force.
Degrade ==
    /\ status \in {"RUNNING", "PAUSED"}
    /\ status' = "DEGRADED"
    /\ UNCHANGED <<owner, lifter>>

\* The lost branches are resolved: the pause in force, if any, shows again.
Recover ==
    /\ status = "DEGRADED"
    /\ status' = IF owner = None THEN "RUNNING" ELSE "PAUSED"
    /\ UNCHANGED <<owner, lifter>>

\* The workflow function returns.
End ==
    /\ status \in {"RUNNING", "PAUSED", "DEGRADED"}
    /\ status' \in {"COMPLETED", "TERMINATED"}
    /\ UNCHANGED <<owner, lifter>>

AbsNext ==
    \/ \E i \in Initiators : TakePause(i) \/ LiftPause(i)
    \/ Degrade
    \/ Recover
    \/ End

AbsSpec == AbsInit /\ [][AbsNext]_absVars
=============================================================================
