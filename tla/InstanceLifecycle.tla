------------------------- MODULE InstanceLifecycle -------------------------
(***************************************************************************)
(* The life of one workflow instance inside its Temporal workflow          *)
(* (src/internal/workflow): the interpreter's status, the pause it may     *)
(* hold, the parks of parallel gateways that lost a branch, the signal     *)
(* router that handles one signal at a time and blocks while a status      *)
(* write is in flight, and the stored status of the instance row, which    *)
(* only activities write.                                                  *)
(*                                                                         *)
(* The plan is one parallel step, the gateway Outer.  Each of its branches *)
(* is a task (a leaf whose Home is Outer) or another parallel step (an     *)
(* inner gateway); the branches of an inner gateway are leaves.  A leaf is *)
(* one department with one task stage and stands for that department in    *)
(* the target of a forced route.  The fork has no entry node, so a         *)
(* force-back that reaches a gateway still joining finds nothing to rerun. *)
(*                                                                         *)
(* An activity is scheduled by a coroutine that then waits for it; its     *)
(* write commits at some later time, may be committed again by a retry     *)
(* whose first answer was lost, and the coroutine goes on after a commit.  *)
(* All change ids of version.go are taken at their newest version.         *)
(***************************************************************************)
EXTENDS Naturals, Sequences, FiniteSets

CONSTANTS
    Gateways,    \* the parallel steps of the plan
    Outer,       \* the outermost of them
    Leaves,      \* the task branches
    Home,        \* Home[b]: the gateway that leaf b is a branch of
    Initiators,  \* who may pause and resume: admin, tenant_state, ooo, ...
    Admin,       \* the initiator that lifts any pause
    None,        \* no initiator, no write in flight, no target, no result
    Router,      \* the signal router's coroutine
    Main,        \* the coroutine of Execute
    MaxMail,     \* bound on the messages waiting in one channel
    MaxSignals,  \* bound on the pauses, resumes and forced routes accepted
    Cancels      \* whether a cancel may be sent

ASSUME GatewayAssumption ==
    Outer \in Gateways /\ Home \in [Leaves -> Gateways] /\ Leaves \cap Gateways = {}

ASSUME InitiatorAssumption == Admin \in Initiators /\ None \notin Initiators

ASSUME NoneAssumption ==
    None \notin Leaves \cup Gateways
             \cup {"RUNNING", "PAUSED", "DEGRADED", "COMPLETED", "TERMINATED", "ok", "fail"}

ASSUME ProcessAssumption ==
    Router # Main /\ Router \notin Gateways /\ Main \notin Gateways

ASSUME BoundAssumption ==
    MaxMail \in Nat /\ MaxSignals \in Nat /\ Cancels \in BOOLEAN

VARIABLES
    \* the interpreter's own fields
    status,      \* in.status
    pausedBy,    \* in.pauseInitiator
    pauseHeld,   \* in.pauseHeld
    keepsPause,  \* in.degradedKeepsPause
    parks,       \* in.parks: the gateways whose park is open, oldest first
    held,        \* in.heldResults: the result held for each leaf, or None
    \* the branches
    leaf,        \* starting, waiting, ok, failed, bypassed or abandoned
    inbox,       \* the result in the channel of the leaf's open task, or None
    \* the gateways
    gpc,         \* where each gateway's coroutine is
    resolved,    \* the branches their gateway counted as resolved
    failed,      \* failed[g]: g's failed branches not yet resolved
    respawn,     \* respawn[g]: the branches a force-back started again
    depts,       \* depts[g]: the departments g's park answers for
    aim,         \* aim[g]: the branch of a force-forward being recorded
    kept,        \* the gateways that saw keepsPause when they left their park's loop
    mail,        \* mail[g]: the channel of g's park
    own,         \* own[g]: g's own admin channel
    adminq,      \* in.admin: the admin channel all joining gateways read
    severed,     \* the gateways whose context the outer gateway cancelled
    \* activities and the row
    act,         \* act[p]: the status p's activity in flight writes, or None
    committed,   \* committed[p]: that activity has committed at least once
    row,         \* workflow_instance.status
    main,        \* running, finishing or closed
    sent,        \* how many of those signals were accepted
    \* history variables, read by properties only
    cancelIn,    \* the status in which a cancel was accepted, or None
    lifter,      \* the initiator of the last resume accepted, or None
    overlap,     \* two status writes have been in flight at once
    crossed,     \* a park opened while another was writing RUNNING
    stray        \* a gateway ended by a cancel below Outer, or severed

interpVars  == <<status, pausedBy, pauseHeld, keepsPause, parks, held>>
leafVars    == <<leaf, inbox>>
gatewayVars == <<gpc, resolved, failed, respawn, depts, aim, kept, severed>>
chanVars    == <<mail, own, adminq>>
actVars     == <<act, committed, row, overlap>>
ghostVars   == <<cancelIn, lifter, crossed, stray>>
vars == <<interpVars, leafVars, gatewayVars, chanVars, actVars, main, sent, ghostVars>>

-----------------------------------------------------------------------------
Inner     == Gateways \ {Outer}
Processes == Gateways \cup {Router, Main}
Branches(g) == {b \in Leaves : Home[b] = g} \cup (IF g = Outer THEN Inner ELSE {})
Live      == {"RUNNING", "PAUSED", "DEGRADED"}
Terminal  == {"COMPLETED", "TERMINATED"}
Statuses  == Live \cup Terminal
Results   == {"ok", "fail"}
LeafStates == {"starting", "waiting", "ok", "failed", "bypassed", "abandoned"}
GatewayStates == {"joining", "redirect", "cancelling", "writeDegraded", "parked",
                  "parkRedirect", "rewrite", "writeRunning", "leavePaused", "done"}
Messages == [kind : {"cancel", "terminate", "fwd", "back"}, at : Leaves \cup {None}]

TypeOK ==
    /\ status \in Statuses /\ row \in Statuses
    /\ pausedBy \in Initiators \cup {None}
    /\ pauseHeld \in BOOLEAN /\ keepsPause \in BOOLEAN
    /\ parks \in Seq(Gateways)
    /\ held \in [Leaves -> Results \cup {None}]
    /\ leaf \in [Leaves -> LeafStates]
    /\ inbox \in [Leaves -> Results \cup {None}]
    /\ gpc \in [Gateways -> GatewayStates]
    /\ resolved \subseteq Leaves \cup Gateways
    /\ failed \in [Gateways -> SUBSET Leaves]
    /\ respawn \in [Gateways -> SUBSET Leaves]
    /\ depts \in [Gateways -> SUBSET Leaves]
    /\ aim \in [Gateways -> Leaves \cup Gateways \cup {None}]
    /\ kept \subseteq Gateways
    /\ mail \in [Gateways -> Seq(Messages)]
    /\ own \in [Gateways -> Seq(Messages)]
    /\ adminq \in Seq(Messages)
    /\ severed \subseteq Gateways
    /\ act \in [Processes -> Statuses \cup {None}]
    /\ committed \in [Processes -> BOOLEAN]
    /\ main \in {"running", "finishing", "closed"}
    /\ sent \in 0..MaxSignals
    /\ cancelIn \in Live \cup {None} /\ lifter \in Initiators \cup {None}
    /\ overlap \in BOOLEAN /\ crossed \in BOOLEAN /\ stray \in BOOLEAN

Init ==
    /\ status = "RUNNING" /\ row = "RUNNING"
    /\ pausedBy = None /\ pauseHeld = FALSE /\ keepsPause = FALSE
    /\ parks = <<>>
    /\ held = [b \in Leaves |-> None]
    /\ leaf = [b \in Leaves |-> "starting"]
    /\ inbox = [b \in Leaves |-> None]
    /\ gpc = [g \in Gateways |-> "joining"]
    /\ resolved = {}
    /\ failed = [g \in Gateways |-> {}]
    /\ respawn = [g \in Gateways |-> {}]
    /\ depts = [g \in Gateways |-> {}]
    /\ aim = [g \in Gateways |-> None]
    /\ kept = {}
    /\ mail = [g \in Gateways |-> <<>>]
    /\ own = [g \in Gateways |-> <<>>]
    /\ adminq = <<>>
    /\ severed = {}
    /\ act = [p \in Processes |-> None]
    /\ committed = [p \in Processes |-> FALSE]
    /\ main = "running"
    /\ sent = 0
    /\ cancelIn = None /\ lifter = None
    /\ overlap = FALSE /\ crossed = FALSE /\ stray = FALSE

-----------------------------------------------------------------------------
(***************************************************************************)
(* Activities.  The write itself is an assignment: every one of them reads *)
(* the row, does nothing when the row already has the status, and else     *)
(* updates it; none looks at what the old status was.                      *)
(***************************************************************************)

\* p schedules the activity that writes status s and waits for it.
Schedule(p, s) ==
    /\ act' = [act EXCEPT ![p] = s]
    /\ committed' = [committed EXCEPT ![p] = FALSE]
    /\ overlap' = (overlap \/ \E q \in Processes \ {p} : act[q] # None)
    /\ UNCHANGED row

\* p's activity returns to it.
Finished(p) ==
    /\ act[p] # None /\ committed[p]
    /\ act' = [act EXCEPT ![p] = None]
    /\ committed' = [committed EXCEPT ![p] = FALSE]
    /\ UNCHANGED <<row, overlap>>

\* p's activity returns to it and p schedules the one that writes status s.
FinishedThen(p, s) ==
    /\ act[p] # None /\ committed[p]
    /\ Schedule(p, s)

CommitGuard(p) ==
    /\ act[p] # None
    /\ p \notin severed
    /\ main = "closed" => ~committed[p]

\* Mutant of CommitWrite: a paused row is left alone.
CommitUnlessPaused(p) ==
    /\ CommitGuard(p)
    /\ row' = IF row = "PAUSED" THEN row ELSE act[p]
    /\ committed' = [committed EXCEPT ![p] = TRUE]
    /\ UNCHANGED <<interpVars, leafVars, gatewayVars, chanVars, act, overlap, main, ghostVars, sent>>

\* UpdateInstanceStatus, PauseInstance, ResumeInstance, CancelInstance: one
\* transaction.  It repeats when an attempt committed and its answer was
\* lost; an attempt already running commits even after the workflow closed.
CommitWrite(p) ==
    /\ CommitGuard(p)
    /\ row' = act[p]
    /\ committed' = [committed EXCEPT ![p] = TRUE]
    /\ UNCHANGED <<interpVars, leafVars, gatewayVars, chanVars, act, overlap, main, ghostVars, sent>>

-----------------------------------------------------------------------------
(***************************************************************************)
(* The signal router.  A signal it drops changes nothing, so only the      *)
(* accepted ones are steps.                                                *)
(***************************************************************************)
RouterIdle == main # "closed" /\ act[Router] = None

\* the bound on signals
Accepted == sent < MaxSignals /\ sent' = sent + 1

\* Mutant of CanResume: nobody asks who owns the pause.
ResumeByAnyone(by, i) == TRUE

\* An initiator that is empty counts as the administrator.
CanResume(by, i) == i = Admin \/ i = by

\* Mutant of ClearPause: the flag is not reset.
ClearOwnerOnly(i) ==
    /\ pausedBy' = None
    /\ lifter' = i
    /\ UNCHANGED <<pauseHeld, cancelIn, crossed, stray>>

\* the resume of initiator i clears the pause
ClearPause(i) ==
    /\ pauseHeld' = FALSE
    /\ pausedBy' = None
    /\ lifter' = i
    /\ UNCHANGED <<cancelIn, crossed, stray>>

HoldsPauseDuringPark == status = "DEGRADED" /\ keepsPause

\* recordHeldPause, instance-pause
HoldPause(i) ==
    /\ Accepted
    /\ RouterIdle /\ HoldsPauseDuringPark
    /\ ~pauseHeld
    /\ pauseHeld' = TRUE
    /\ pausedBy' = i
    /\ UNCHANGED <<status, keepsPause, parks, held, leafVars, gatewayVars, chanVars,
                   actVars, main, ghostVars>>

\* recordHeldPause, instance-resume
HoldResume(i) ==
    /\ Accepted
    /\ RouterIdle /\ HoldsPauseDuringPark
    /\ pauseHeld /\ CanResume(pausedBy, i)
    /\ ClearPause(i)
    /\ UNCHANGED <<status, keepsPause, parks, held, leafVars, gatewayVars, chanVars,
                   actVars, main>>

\* handleInstancePause up to its activity
InstancePause(i) ==
    /\ Accepted
    /\ RouterIdle
    /\ status = "RUNNING"
    /\ status' = "PAUSED"
    /\ pausedBy' = i
    /\ pauseHeld' = TRUE
    /\ Schedule(Router, "PAUSED")
    /\ UNCHANGED <<keepsPause, parks, held, leafVars, gatewayVars, chanVars, main, ghostVars>>

\* handleInstanceResume up to its activity
InstanceResume(i) ==
    /\ Accepted
    /\ RouterIdle
    /\ status = "PAUSED" /\ CanResume(pausedBy, i)
    /\ status' = "RUNNING"
    /\ ClearPause(i)
    /\ Schedule(Router, "RUNNING")
    /\ UNCHANGED <<keepsPause, parks, held, leafVars, gatewayVars, chanVars, main>>

\* handleInstancePause after its activity
PauseReturns ==
    /\ main # "closed" /\ act[Router] = "PAUSED"
    /\ Finished(Router)
    /\ UNCHANGED <<interpVars, leafVars, gatewayVars, chanVars, main, ghostVars, sent>>

\* Mutant of ReleaseHeldResults: it is not called.
KeepHeldResults == UNCHANGED <<held, inbox>>

\* The held results go where a result arriving now would go (deliverResult);
\* a result for a task no longer open is kept under that visit and never read.
ReleaseHeldResults ==
    /\ held' = [b \in Leaves |-> IF status = "PAUSED" THEN held[b] ELSE None]
    /\ inbox' = [b \in Leaves |->
                   IF held[b] # None /\ leaf[b] = "waiting" /\ status \in {"RUNNING", "DEGRADED"}
                   THEN held[b] ELSE inbox[b]]

\* handleInstanceResume after its activity
ResumeReturns ==
    /\ main # "closed" /\ act[Router] = "RUNNING"
    /\ Finished(Router)
    /\ ReleaseHeldResults
    /\ UNCHANGED <<status, pausedBy, pauseHeld, keepsPause, parks, leaf, gatewayVars, chanVars,
                   main, ghostVars, sent>>

\* handleStageTransition and handleStageFail with the first result of the
\* task leaf b has open: deliverResult
StageResult(b, r) ==
    /\ RouterIdle
    /\ leaf[b] = "waiting" /\ inbox[b] = None /\ held[b] = None
    /\ \/ /\ status = "PAUSED"
          /\ held' = [held EXCEPT ![b] = r]
          /\ UNCHANGED inbox
       \/ /\ status \in {"RUNNING", "DEGRADED"}
          /\ inbox' = [inbox EXCEPT ![b] = r]
          /\ UNCHANGED held
    /\ UNCHANGED <<status, pausedBy, pauseHeld, keepsPause, parks, leaf, gatewayVars, chanVars,
                   actVars, main, ghostVars, sent>>

Room(q) == Len(q) < MaxMail

\* branchRunning: the unresolved branch of g that runs leaf t's department
BranchRunning(g, t) ==
    {b \in Branches(g) \ resolved : b = t \/ (b \in Inner /\ t \in Branches(b))}

\* innermostGatewayRunning over the gateways still open
Owners(t) ==
    LET running == {g \in Gateways : gpc[g] # "done" /\ BranchRunning(g, t) # {}}
    IN  IF running \cap Inner # {} THEN running \cap Inner ELSE running

\* routeToParks: the first park that answers for t, or the latest one
ParkFor(t) ==
    LET hits == {i \in 1..Len(parks) : t \in depts[parks[i]]}
    IN  IF hits = {} THEN parks[Len(parks)]
        ELSE parks[CHOOSE i \in hits : \A j \in hits : i <= j]

SendToPark(t, m) ==
    /\ parks # <<>>
    /\ Room(mail[ParkFor(t)])
    /\ mail' = [mail EXCEPT ![ParkFor(t)] = Append(@, m)]
    /\ UNCHANGED <<own, adminq>>

SendToAdmin(m) ==
    /\ Room(adminq)
    /\ adminq' = Append(adminq, m)
    /\ UNCHANGED <<mail, own>>

\* instance-force-forward to the department of leaf t: routeAdminSignal
ForceForward(t) ==
    /\ Accepted
    /\ RouterIdle /\ main = "running"
    /\ status \in {"RUNNING", "DEGRADED"}
    /\ LET m == [kind |-> "fwd", at |-> t] IN
       \/ SendToPark(t, m)
       \/ /\ parks = <<>>
          /\ \E g \in Owners(t) :
               /\ Room(own[g])
               /\ own' = [own EXCEPT ![g] = Append(@, m)]
          /\ UNCHANGED <<mail, adminq>>
       \/ /\ parks = <<>> /\ Owners(t) = {}
          /\ SendToAdmin(m)
    /\ UNCHANGED <<interpVars, leafVars, gatewayVars, actVars, main, ghostVars>>

\* instance-force-back, with or without a target: routeAdminSignal
ForceBack(t) ==
    /\ Accepted
    /\ RouterIdle /\ main = "running"
    /\ status \in {"RUNNING", "DEGRADED"}
    /\ LET m == [kind |-> "back", at |-> t] IN
       \/ SendToPark(t, m)
       \/ /\ parks = <<>>
          /\ SendToAdmin(m)
    /\ UNCHANGED <<interpVars, leafVars, gatewayVars, actVars, main, ghostVars>>

\* instance-cancel: routeAdminSignal.  The first park takes the cancel and
\* every other one is told to terminate.
Cancel ==
    /\ Cancels /\ cancelIn = None
    /\ RouterIdle /\ main = "running"
    /\ status \in Live
    /\ cancelIn' = status
    /\ \/ /\ parks # <<>>
          /\ \A i \in 1..Len(parks) : Room(mail[parks[i]])
          /\ mail' = [g \in Gateways |->
                        IF g = Head(parks) THEN Append(mail[g], [kind |-> "cancel", at |-> None])
                        ELSE IF \E i \in 1..Len(parks) : parks[i] = g
                        THEN Append(mail[g], [kind |-> "terminate", at |-> None])
                        ELSE mail[g]]
          /\ UNCHANGED <<own, adminq>>
       \/ /\ parks = <<>>
          /\ SendToAdmin([kind |-> "cancel", at |-> None])
    /\ UNCHANGED <<interpVars, leafVars, gatewayVars, actVars, main, lifter, crossed, stray, sent>>

-----------------------------------------------------------------------------
(***************************************************************************)
(* Leaves.                                                                 *)
(***************************************************************************)

\* runTaskStage up to its wait: CreateTask refuses an instance that is over
CreateTask(b) ==
    /\ main = "running"
    /\ leaf[b] = "starting"
    /\ leaf' = [leaf EXCEPT ![b] = IF row \in Terminal THEN "failed" ELSE "waiting"]
    /\ UNCHANGED <<interpVars, inbox, gatewayVars, chanVars, actVars, main, ghostVars, sent>>

\* runTaskStage from its wait: resolveTaskStage with the result received
ResolveStage(b) ==
    /\ main = "running"
    /\ leaf[b] = "waiting" /\ inbox[b] # None
    /\ leaf' = [leaf EXCEPT ![b] = IF inbox[b] = "ok" THEN "ok" ELSE "failed"]
    /\ inbox' = [inbox EXCEPT ![b] = None]
    /\ UNCHANGED <<interpVars, gatewayVars, chanVars, actVars, main, ghostVars, sent>>

-----------------------------------------------------------------------------
(***************************************************************************)
(* How a gateway ends and how a park opens and closes.                     *)
(***************************************************************************)

\* The coroutine of Execute ends the run: the last gateway returned cleanly.
Completes(g) ==
    /\ gpc' = [gpc EXCEPT ![g] = "done"]
    /\ status' = "COMPLETED"
    /\ main' = "finishing"
    /\ act' = [act EXCEPT ![g] = None, ![Main] = "COMPLETED"]
    /\ committed' = [committed EXCEPT ![g] = FALSE, ![Main] = FALSE]
    /\ overlap' = (overlap \/ \E q \in Processes \ {g, Main} : act[q] # None)
    /\ UNCHANGED row

\* runParallel returns without an error; st is the interpreter's status then.
Returns(g, st) ==
    \/ g = Outer /\ Completes(g)
    \/ /\ g # Outer
       /\ gpc' = [gpc EXCEPT ![g] = "done"]
       /\ status' = st
       /\ act' = [act EXCEPT ![g] = None]
       /\ committed' = [committed EXCEPT ![g] = FALSE]
       /\ UNCHANGED <<row, overlap, main>>

\* runParallel returns Terminated.  Only the outermost gateway's outcome
\* reaches Execute: the branch of an inner one counts as completed.
ReturnsTerminated(g) ==
    /\ gpc' = [gpc EXCEPT ![g] = "done"]
    /\ status' = IF g = Outer THEN "TERMINATED" ELSE status
    /\ main' = IF g = Outer THEN "closed" ELSE main
    /\ act' = [act EXCEPT ![g] = None]
    /\ committed' = [committed EXCEPT ![g] = FALSE]
    /\ stray' = (stray \/ g # Outer)
    /\ UNCHANGED <<row, overlap>>

Parked(g) == \E i \in 1..Len(parks) : parks[i] = g

ParksWithout(g) ==
    LET k == CHOOSE i \in 1..Len(parks) : parks[i] = g
    IN  [i \in 1..(Len(parks) - 1) |-> IF i < k THEN parks[i] ELSE parks[i + 1]]

\* Mutants of ClosePark: the flag outlives the last park; any park resets it.
CloseKeeping(g) == parks' = ParksWithout(g) /\ UNCHANGED keepsPause

CloseForgetting(g) == parks' = ParksWithout(g) /\ keepsPause' = FALSE

\* closePark, for a gateway whose park is open
ClosePark(g) ==
    /\ parks' = ParksWithout(g)
    /\ keepsPause' = (keepsPause /\ Len(parks) > 1)

\* openPark and the write of DEGRADED that follows it
OpenPark(g, lost) ==
    /\ parks' = Append(parks, g)
    /\ keepsPause' = (keepsPause \/ parks = <<>>)
    /\ depts' = [depts EXCEPT ![g] = lost]
    /\ status' = "DEGRADED"
    /\ gpc' = [gpc EXCEPT ![g] = "writeDegraded"]
    /\ Schedule(g, "DEGRADED")
    /\ crossed' = (crossed \/ \E h \in Gateways \ {g} : gpc[h] = "writeRunning")
    /\ UNCHANGED main

\* The end of an iteration of runParallel's loop, with its resolved and
\* failed branches: wait on, return, or enter the degraded state.
Joins(g, res, lost) ==
    /\ resolved' = res
    /\ failed' = [failed EXCEPT ![g] = lost]
    /\ \/ /\ ~(Branches(g) \subseteq res)
          /\ gpc' = [gpc EXCEPT ![g] = "joining"]
          /\ UNCHANGED <<status, keepsPause, parks, depts, actVars, main, crossed>>
       \/ /\ Branches(g) \subseteq res /\ lost = {}
          /\ Returns(g, status)
          /\ UNCHANGED <<keepsPause, parks, depts, crossed>>
       \/ /\ Branches(g) \subseteq res /\ lost # {}
          /\ OpenPark(g, lost)

-----------------------------------------------------------------------------
(***************************************************************************)
(* runParallel: a gateway waiting for its branches.                        *)
(***************************************************************************)
Joining(g) == main = "running" /\ gpc[g] = "joining"

Settled(b) == (b \in Leaves /\ leaf[b] \in {"ok", "failed"}) \/ (b \in Inner /\ gpc[b] = "done")

\* Mutants of Lost: a failure counts as a completion; a completion as a failure.
LostNone(b) == {}

LostAlways(b) == {b} \cap Leaves

\* the failure, if any, in the outcome of branch b
Lost(b) == {c \in {b} \cap Leaves : leaf[c] # "ok"}

\* a branch's outcome is received
Settle(g, b) ==
    /\ Joining(g)
    /\ b \in Branches(g) \ resolved /\ Settled(b)
    /\ Joins(g, resolved \cup {b}, failed[g] \cup Lost(b))
    /\ UNCHANGED <<pausedBy, pauseHeld, held, leafVars, respawn, aim, kept, severed, chanVars,
                   cancelIn, lifter, stray, sent>>

\* a message m is received from one of the two admin channels
TakeAdmin(g, m) ==
    \/ /\ m.kind = "cancel" /\ g \notin severed
       /\ gpc' = [gpc EXCEPT ![g] = "cancelling"]
       /\ Schedule(g, "TERMINATED")
       /\ UNCHANGED <<aim, stray>>
    \/ /\ m.kind = "cancel" /\ g \in severed
       /\ gpc' = [gpc EXCEPT ![g] = "done"]
       /\ stray' = TRUE
       /\ UNCHANGED <<aim, actVars>>
    \/ /\ m.kind = "fwd" /\ BranchRunning(g, m.at) # {}
       /\ gpc' = [gpc EXCEPT ![g] = "redirect"]
       /\ \E b \in BranchRunning(g, m.at) : aim' = [aim EXCEPT ![g] = b]
       /\ UNCHANGED <<actVars, stray>>
    \/ /\ m.kind = "back" \/ (m.kind = "fwd" /\ BranchRunning(g, m.at) = {})
       /\ UNCHANGED <<gpc, aim, actVars, stray>>

TakeShared(g) ==
    /\ Joining(g)
    /\ adminq # <<>>
    /\ adminq' = Tail(adminq)
    /\ TakeAdmin(g, Head(adminq))
    /\ UNCHANGED <<interpVars, leafVars, resolved, failed, respawn, depts, kept, severed, mail, own,
                   main, cancelIn, lifter, crossed, sent>>

TakeOwn(g) ==
    /\ Joining(g)
    /\ own[g] # <<>>
    /\ own' = [own EXCEPT ![g] = Tail(@)]
    /\ TakeAdmin(g, Head(own[g]))
    /\ UNCHANGED <<interpVars, leafVars, resolved, failed, respawn, depts, kept, severed, mail, adminq,
                   main, cancelIn, lifter, crossed, sent>>

\* The branch's context is cancelled: a task still open is abandoned, and an
\* inner gateway keeps waiting for branches that no longer report to it.
Sever(b) ==
    LET cut == IF b \in Leaves THEN {b} ELSE Branches(b)
    IN  /\ leaf' = [c \in Leaves |->
                      IF c = b THEN "bypassed"
                      ELSE IF c \in cut /\ leaf[c] \in {"starting", "waiting"} THEN "abandoned"
                      ELSE leaf[c]]
        /\ inbox' = [c \in Leaves |-> IF c \in cut THEN None ELSE inbox[c]]
        /\ severed' = severed \cup ({b} \cap Inner)

\* handleParallelForceForward after its activities
Redirected(g) ==
    /\ main = "running" /\ gpc[g] = "redirect"
    /\ Sever(aim[g])
    /\ aim' = [aim EXCEPT ![g] = None]
    /\ Joins(g, resolved \cup {aim[g]}, failed[g])
    /\ stray' = (stray \/ aim[g] \in Inner)
    /\ UNCHANGED <<pausedBy, pauseHeld, held, respawn, kept, chanVars, cancelIn, lifter, sent>>

\* cancelInstance has returned to a gateway below a park or a join
CancelReturns(g) ==
    /\ main = "running" /\ gpc[g] = "cancelling"
    /\ act[g] # None /\ committed[g]
    /\ ReturnsTerminated(g)
    /\ IF Parked(g) THEN ClosePark(g) ELSE UNCHANGED <<parks, keepsPause>>
    /\ UNCHANGED <<pausedBy, pauseHeld, held, leafVars, resolved, failed, respawn, depts, aim,
                   kept, severed, chanVars, cancelIn, lifter, crossed, sent>>

-----------------------------------------------------------------------------
(***************************************************************************)
(* enterDegraded: a gateway whose park is open.                            *)
(***************************************************************************)
DegradedReturns(g) ==
    /\ main = "running" /\ gpc[g] = "writeDegraded"
    /\ Finished(g)
    /\ gpc' = [gpc EXCEPT ![g] = "parked"]
    /\ UNCHANGED <<interpVars, leafVars, resolved, failed, respawn, depts, aim, kept, severed, chanVars,
                   main, ghostVars, sent>>

\* The end of an iteration of the park's loop with its failed and respawned
\* branches: wait on, or leave the park.
Waits(g, lost, again) ==
    /\ failed' = [failed EXCEPT ![g] = lost]
    /\ respawn' = [respawn EXCEPT ![g] = again]
    /\ \/ /\ lost \cup again # {}
          /\ gpc' = [gpc EXCEPT ![g] = "parked"]
          /\ UNCHANGED <<status, keepsPause, parks, kept, actVars>>
       \/ /\ lost \cup again = {} /\ Len(parks) > 1
          /\ gpc' = [gpc EXCEPT ![g] = "rewrite"]
          /\ ClosePark(g)
          /\ Schedule(g, "DEGRADED")
          /\ UNCHANGED <<status, kept>>
       \/ /\ lost \cup again = {} /\ Len(parks) = 1 /\ keepsPause /\ pauseHeld
          /\ gpc' = [gpc EXCEPT ![g] = "leavePaused"]
          /\ ClosePark(g)
          /\ Schedule(g, "PAUSED")
          /\ status' = "PAUSED"
          /\ UNCHANGED kept
       \/ /\ lost \cup again = {} /\ Len(parks) = 1 /\ ~(keepsPause /\ pauseHeld)
          /\ gpc' = [gpc EXCEPT ![g] = "writeRunning"]
          /\ Schedule(g, "RUNNING")
          /\ kept' = IF keepsPause THEN kept \cup {g} ELSE kept \ {g}
          /\ UNCHANGED <<status, keepsPause, parks>>

\* failedBranchFor.  A signal that names no branch is for the only failed one;
\* of several it is for the first that has completed no node, if there is one.
FailedBranchFor(g, t) ==
    CASE t # None -> {{t} \cap failed[g]}
      [] t = None /\ Cardinality(failed[g]) = 1 -> {failed[g]}
      [] OTHER -> {{}} \cup {{b} : b \in failed[g]}

\* force-forward and force-back signals of the park's channel
ParkTakes(g) ==
    /\ main = "running" /\ gpc[g] = "parked"
    /\ mail[g] # <<>>
    /\ mail' = [mail EXCEPT ![g] = Tail(@)]
    /\ LET m == Head(mail[g]) IN \E hit \in FailedBranchFor(g, m.at) :
       \/ /\ m.kind = "fwd" /\ hit # {}
          /\ gpc' = [gpc EXCEPT ![g] = "parkRedirect"]
          /\ \E b \in hit : aim' = [aim EXCEPT ![g] = b]
          /\ UNCHANGED <<leaf, failed, respawn>>
       \/ /\ m.kind = "back" /\ hit # {}
          /\ failed' = [failed EXCEPT ![g] = @ \ hit]
          /\ respawn' = [respawn EXCEPT ![g] = @ \cup hit]
          /\ leaf' = [b \in Leaves |-> IF b \in hit THEN "starting" ELSE leaf[b]]
          /\ UNCHANGED <<gpc, aim>>
       \/ /\ m.kind \in {"fwd", "back"} /\ hit = {}
          /\ UNCHANGED <<gpc, aim, leaf, failed, respawn>>
    /\ UNCHANGED <<interpVars, inbox, resolved, depts, kept, severed, own, adminq, actVars, main,
                   ghostVars, sent>>

\* handleDegradedForceForward after its activities
ParkRedirected(g) ==
    /\ main = "running" /\ gpc[g] = "parkRedirect"
    /\ leaf' = [leaf EXCEPT ![aim[g]] = "bypassed"]
    /\ aim' = [aim EXCEPT ![g] = None]
    /\ Waits(g, failed[g] \ {aim[g]}, respawn[g])
    /\ UNCHANGED <<pausedBy, pauseHeld, held, inbox, resolved, depts, severed, chanVars, main,
                   ghostVars, sent>>

\* a respawned branch's outcome is received
ParkSettle(g, b) ==
    /\ main = "running" /\ gpc[g] = "parked"
    /\ b \in respawn[g] /\ leaf[b] \in {"ok", "failed", "abandoned"}
    /\ Waits(g, failed[g] \cup Lost(b), respawn[g] \ {b})
    /\ depts' = [depts EXCEPT ![g] = @ \cup Lost(b)]
    /\ UNCHANGED <<pausedBy, pauseHeld, held, leafVars, resolved, aim, severed, chanVars, main,
                   ghostVars, sent>>

\* the park is told that the instance is cancelled
ParkCancel(g) ==
    /\ main = "running" /\ gpc[g] = "parked"
    /\ mail[g] # <<>> /\ Head(mail[g]).kind = "cancel"
    /\ mail' = [mail EXCEPT ![g] = Tail(@)]
    /\ gpc' = [gpc EXCEPT ![g] = "cancelling"]
    /\ Schedule(g, "TERMINATED")
    /\ UNCHANGED <<interpVars, leafVars, resolved, failed, respawn, depts, aim, kept, severed, own,
                   adminq, main, ghostVars, sent>>

\* the park is told that another one takes the cancel
ParkTerminate(g) ==
    /\ main = "running" /\ gpc[g] = "parked"
    /\ mail[g] # <<>> /\ Head(mail[g]).kind = "terminate"
    /\ mail' = [mail EXCEPT ![g] = Tail(@)]
    /\ ReturnsTerminated(g)
    /\ ClosePark(g)
    /\ UNCHANGED <<pausedBy, pauseHeld, held, leafVars, resolved, failed, respawn, depts, aim,
                   kept, severed, own, adminq, cancelIn, lifter, crossed, sent>>

\* The park closed while another stays open, or closed into a pause: its
\* write returned and the gateway returns.
ParkClosedReturns(g) ==
    /\ main = "running" /\ gpc[g] \in {"rewrite", "leavePaused"}
    /\ act[g] # None /\ committed[g]
    /\ Returns(g, status)
    /\ UNCHANGED <<pausedBy, pauseHeld, keepsPause, parks, held, leafVars, resolved, failed,
                   respawn, depts, aim, kept, severed, chanVars, ghostVars, sent>>

\* The write of RUNNING returned.  A pause taken meanwhile is applied now.
RunningReturns(g) ==
    /\ main = "running" /\ gpc[g] = "writeRunning"
    /\ act[g] # None /\ committed[g]
    /\ parks' = ParksWithout(g)
    /\ \/ /\ g \in kept /\ pauseHeld
          /\ keepsPause' = FALSE
          /\ status' = "PAUSED"
          /\ gpc' = [gpc EXCEPT ![g] = "leavePaused"]
          /\ FinishedThen(g, "PAUSED")
          /\ UNCHANGED <<pauseHeld, main>>
       \/ /\ ~(g \in kept /\ pauseHeld)
          /\ keepsPause' = (keepsPause /\ Len(parks) > 1)
          /\ pauseHeld' = FALSE
          /\ Returns(g, "RUNNING")
    /\ UNCHANGED <<pausedBy, held, leafVars, resolved, failed, respawn, depts, aim, kept, severed,
                   chanVars, ghostVars, sent>>

\* An activity of a gateway whose context is cancelled fails at once.
SeveredReturns(g) ==
    /\ main = "running" /\ g \in severed
    /\ act[g] # None
    /\ gpc' = [gpc EXCEPT ![g] = "done"]
    /\ act' = [act EXCEPT ![g] = None]
    /\ committed' = [committed EXCEPT ![g] = FALSE]
    /\ IF Parked(g) THEN ClosePark(g) ELSE UNCHANGED <<parks, keepsPause>>
    /\ stray' = TRUE
    /\ UNCHANGED <<status, pausedBy, pauseHeld, held, leafVars, resolved, failed, respawn, depts,
                   aim, kept, severed, chanVars, row, overlap, main, cancelIn, lifter, crossed, sent>>

\* Execute's final write returned
Closes ==
    /\ main = "finishing"
    /\ Finished(Main)
    /\ main' = "closed"
    /\ UNCHANGED <<interpVars, leafVars, gatewayVars, chanVars, ghostVars, sent>>

-----------------------------------------------------------------------------
Signals ==
    \/ \E i \in Initiators : \/ HoldPause(i)
                             \/ HoldResume(i)
                             \/ InstancePause(i)
                             \/ InstanceResume(i)
    \/ \E b \in Leaves, r \in Results : StageResult(b, r)
    \/ \E t \in Leaves : ForceForward(t)
    \/ \E t \in Leaves \cup {None} : ForceBack(t)
    \/ Cancel

GatewayNext(g) ==
    \/ \E b \in Leaves \cup Inner : Settle(g, b)
    \/ TakeShared(g)
    \/ TakeOwn(g)
    \/ Redirected(g)
    \/ CancelReturns(g)
    \/ DegradedReturns(g)
    \/ ParkTakes(g)
    \/ ParkRedirected(g)
    \/ \E b \in Leaves : ParkSettle(g, b)
    \/ ParkCancel(g)
    \/ ParkTerminate(g)
    \/ ParkClosedReturns(g)
    \/ RunningReturns(g)
    \/ SeveredReturns(g)

Next ==
    \/ Signals
    \/ PauseReturns
    \/ ResumeReturns
    \/ \E b \in Leaves : CreateTask(b) \/ ResolveStage(b)
    \/ \E g \in Gateways : GatewayNext(g)
    \/ \E p \in Processes : CommitWrite(p)
    \/ Closes

\* Temporal retries an activity until it answers and runs every coroutine
\* that can go on; nobody has to send a signal.
Fairness ==
    /\ WF_vars(PauseReturns) /\ WF_vars(ResumeReturns) /\ WF_vars(Closes)
    /\ \A b \in Leaves : WF_vars(CreateTask(b)) /\ WF_vars(ResolveStage(b))
    /\ \A g \in Gateways :
         /\ WF_vars(TakeShared(g)) /\ WF_vars(TakeOwn(g)) /\ WF_vars(Redirected(g))
         /\ WF_vars(CancelReturns(g)) /\ WF_vars(DegradedReturns(g)) /\ WF_vars(ParkTakes(g))
         /\ WF_vars(ParkRedirected(g)) /\ WF_vars(ParkCancel(g)) /\ WF_vars(ParkTerminate(g))
         /\ WF_vars(ParkClosedReturns(g)) /\ WF_vars(RunningReturns(g))
         /\ WF_vars(SeveredReturns(g))
         /\ \A b \in Leaves \cup Inner : WF_vars(Settle(g, b))
         /\ \A b \in Leaves : WF_vars(ParkSettle(g, b))
    /\ \A p \in Processes : WF_vars(CommitWrite(p))

Spec == Init /\ [][Next]_vars

FairSpec == Spec /\ Fairness

-----------------------------------------------------------------------------
(***************************************************************************)
(* Properties.                                                             *)
(***************************************************************************)

\* A pause, once taken, ends only through a resume of its own initiator or
\* of the administrator, and no other pause replaces it: not a park that
\* opens under it, not the end of a park, not a second pause.  (The premise
\* ~crossed is needed: see PauseNeverLost.)
PauseOwnership ==
    [][(pauseHeld /\ ~crossed /\ (~pauseHeld' \/ pausedBy' # pausedBy)) =>
         \E i \in {Admin, pausedBy} : HoldResume(i) \/ InstanceResume(i)]_vars

\* The interpreter is PAUSED only while it holds a pause, RUNNING only
\* without one, and knows who owns a pause it holds.
PauseFollowsStatus ==
    /\ status = "PAUSED" => pauseHeld
    /\ status = "RUNNING" => ~pauseHeld
    /\ pauseHeld => pausedBy \in Initiators

\* The interpreter is DEGRADED exactly while a park is open, and holds
\* pauses for the park's end exactly then.
DegradedWhileParked ==
    (status \in Live /\ ~crossed /\ ~stray) =>
        /\ status = "DEGRADED" <=> parks # <<>>
        /\ keepsPause <=> parks # <<>>

\* A gateway that waits in its park or writes RUNNING has that park open; and
\* until a park opens under another's write of RUNNING, only the last park
\* open writes RUNNING, it will look for a held pause when the write returns,
\* and every open park keeps pauses.
LastParkWritesRunning ==
    /\ \A g \in Gateways :
         gpc[g] \in {"writeDegraded", "parked", "parkRedirect", "writeRunning"} => Parked(g)
    /\ ~crossed =>
         /\ \A g \in Gateways : gpc[g] = "writeRunning" => Len(parks) = 1 /\ g \in kept
         /\ parks # <<>> => keepsPause

\* When no status write is in flight, and no two ever overlapped, the stored
\* status is the interpreter's.
StoredStatusFollows ==
    (~overlap /\ ~stray /\ \A p \in Processes : act[p] = None) => row = status

\* An instance completes only when every task branch is completed or was
\* bypassed by a force-forward.
CompletesWhenJoined ==
    (status = "COMPLETED" /\ ~stray) => \A b \in Leaves : leaf[b] \in {"ok", "bypassed"}

\* A result a task still waits for is held only while the pause stands or is
\* being lifted: nothing else would ever deliver it.
HeldResultsHaveAPause ==
    (main = "running" /\ \E b \in Leaves : held[b] # None /\ leaf[b] = "waiting") =>
        pauseHeld \/ act[Router] = "RUNNING"

\* A park with nothing left to resolve ends.
ResolvedParkEnds ==
    (status = "DEGRADED" /\ \A b \in Leaves : leaf[b] \in {"ok", "bypassed"})
        ~> status # "DEGRADED"

\* The instance's life as those who pause it see it.
Abs == INSTANCE InstanceStatus WITH owner <- IF pauseHeld THEN pausedBy ELSE None

\* With one gateway, every step is a step of the abstract life or none.
ImplementsInstanceStatus == Abs!AbsSpec

-----------------------------------------------------------------------------
(***************************************************************************)
(* What the design document says and the code does not keep.               *)
(***************************************************************************)

\* Only the last park to close ends the DEGRADED status.
OnlyLastParkEndsDegraded ==
    [][(status = "DEGRADED" /\ status' \in {"RUNNING", "PAUSED"}) => parks' = <<>>]_vars

\* PauseOwnership without a premise: only a resume ends a pause.
PauseNeverLost ==
    [][(pauseHeld /\ ~pauseHeld') =>
         \E i \in {Admin, pausedBy} : HoldResume(i) \/ InstanceResume(i)]_vars

\* While gateways are parked and nothing is being written, the stored status
\* is DEGRADED.
StoredStatusStaysDegraded ==
    (main = "running" /\ parks # <<>> /\ \A p \in Processes : act[p] = None) =>
        row = "DEGRADED"

\* A cancel accepted while the instance is degraded ends it.
CancelEndsParks ==
    (main = "closed" /\ cancelIn = "DEGRADED") => status = "TERMINATED"

\* A cancel accepted while the instance is degraded exits the whole
\* instance: once it is stored and no write is in flight, the workflow is over.
CancelExitsInstance ==
    (cancelIn = "DEGRADED" /\ row = "TERMINATED" /\ \A p \in Processes : act[p] = None) =>
        status = "TERMINATED"
=============================================================================
