------------------------------ MODULE TaskStage ------------------------------
(***************************************************************************)
(* One human task node in the middle of a sequential plan: the step before *)
(* it ("prev"), the node itself ("task") and the step after it ("next").   *)
(* The stage creates a task row per visit, waits for a result, completes   *)
(* the assignment and closes the row; meanwhile users claim, complete and  *)
(* defer, an administrator reassigns, forces routes, cancels, terminates.  *)
(*                                                                         *)
(* Every activity is an attempt: it commits on its own, it may commit and  *)
(* be run again because its answer was lost, and an attempt the workflow   *)
(* no longer waits for may still commit.                                   *)
(***************************************************************************)
EXTENDS Integers, Sequences

CONSTANTS
    Users,      \* people a task can be assigned to
    Teams,      \* the lists of assignees the plan and the start may name for the node
    None,       \* no user, no result
    MaxVisits,  \* bound on the visits of the node
    Budgets     \* bounds on the calls from outside, by kind of call: a behaviour has one

Kinds == {"complete", "defer", "claim", "reassign", "forward", "back", "cancel", "terminate"}

ASSUME UsersAssumption == None \notin Users
ASSUME TeamsAssumption ==
    \A team \in Teams :
        /\ team \in Seq(Users) /\ Len(team) > 0
        /\ \A i, j \in DOMAIN team : team[i] = team[j] => i = j
ASSUME VisitsAssumption == MaxVisits \in Nat \ {0}
ASSUME BudgetAssumption == Budgets \subseteq [Kinds -> Nat]

VARIABLES
    inst,      \* status of the instance row
    task,      \* the task row of every visit
    visit,     \* taskVisits of the node
    pc,        \* where the run coroutine is
    from,      \* the step the list "steps" of the top-level loop begins with
    hist,      \* the stack of completed nodes
    prevDone,  \* the step before has a COMPLETED row
    chan,      \* resolveCh, the channel of the waiting stage
    buffered,  \* pendingSignals: a result per visit that nobody waited for
    got,       \* the result the stage is applying
    results,   \* stage-transition signals not yet read by the router
    reassigns, \* instance-reassign signals not yet read
    admin,     \* force and cancel signals not yet read
    router,    \* what the router coroutine is doing
    routes,    \* baseAdmin, envelopes for the top-level loop
    main,      \* what the top-level loop is doing
    updates,   \* stage-defer updates sent and not yet accepted
    claims,    \* claims that have read and not yet written
    att,       \* activity attempts that may commit
    left       \* calls still allowed, by kind

dbvars   == <<inst, task, prevDone>>
runvars  == <<visit, pc, from, hist, chan, got>>
sigvars  == <<results, reassigns, admin, updates, claims, left>>
loopvars == <<buffered, router, routes, main>>
vars     == <<dbvars, runvars, sigvars, loopvars, att>>

Visits == 1..MaxVisits
Steps  == {"prev", "task", "next"}

\* AssigneeMode of a task, "all" when more than one assignee is named for it.
Mode(t) == IF Len(t.team) > 1 THEN "all" ELSE "single"

Open == {"READY", "IN_PROGRESS"}

(***************************************************************************)
(* Task rows.                                                              *)
(***************************************************************************)
Active(t) == {i \in DOMAIN t.asg : t.asg[i].st = "active"}

HeldBy(t, u) == {i \in Active(t) : t.asg[i].user = u}

Leads(t) == {i \in Active(t) : t.asg[i].lead}

Put(t, S, s) ==
    [t EXCEPT !.asg = [i \in DOMAIN t.asg |->
        IF i \in S THEN [t.asg[i] EXCEPT !.st = s] ELSE t.asg[i]]]

Bump(t) == [t EXCEPT !.ver = @ + 1]

WithStatus(t, s) == [Bump(t) EXCEPT !.st = s]

\* Closing a row that withdraws it from its assignees.
Withdrawn(t, s) ==
    IF t.st \in Open THEN Put(WithStatus(t, s), Active(t), "vacated") ELSE t

\* The row of a visit that has none yet, and the assignees it will be made for.
NoTask(team) == [st |-> "NONE", ver |-> 0, asg |-> <<>>, team |-> team]

\* A row is inserted once per visit: the insert of a second attempt violates the
\* primary key, and with it the whole transaction is lost.
Created(t) ==
    IF t.st # "NONE" THEN t
    ELSE [t EXCEPT !.st = "READY", !.ver = 1,
                   !.asg = [i \in DOMAIN t.team |-> [user |-> t.team[i], st |-> "active", lead |-> FALSE]]]

\* CompleteAssignment looks for the assignment of the user of the result.
Completed(t, u) ==
    IF HeldBy(t, u) = {} THEN t ELSE Bump(Put(t, HeldBy(t, u), "done"))

\* UpdateTaskStatus(COMPLETED) writes over whatever the row says.
Finished(t) == IF t.st = "COMPLETED" THEN t ELSE WithStatus(t, "COMPLETED")

\* DeferTask looks at its own assignment only.
Deferred(t, i) ==
    IF t.asg[i].st = "done" THEN t
    ELSE Bump(Put(WithStatus(t, "DEFERRED"), {i}, "done"))

AppointedWithoutLead(t, r) ==
    [Bump(Put(t, HeldBy(t, r.old), "vacated")) EXCEPT
        !.asg = Append(@, [user |-> r.new, st |-> "active", lead |-> FALSE])]

Appointed(t, r) ==
    LET old == HeldBy(t, r.old) IN
    [Bump(Put(t, old, "vacated")) EXCEPT
        !.asg = Append(@, [user |-> r.new, st |-> "active",
                           lead |-> \E i \in old : t.asg[i].lead])]

ReassignedBlindly(t, r) ==
    IF HeldBy(t, r.new) # {} THEN t ELSE Appointed(t, r)

Reassigned(t, r) ==
    IF HeldBy(t, r.new) # {} \/ t.ver # r.ver THEN t ELSE Appointed(t, r)

LeadSetBlindly(t, c) ==
    [Bump(t) EXCEPT !.asg = [i \in DOMAIN t.asg |-> [t.asg[i] EXCEPT !.lead = (i = c.i)]]]

\* SetLead bumps the version the claim was made with, or fails.
LeadSet(t, c) ==
    IF t.ver # c.ver THEN t
    ELSE [Bump(t) EXCEPT !.asg = [i \in DOMAIN t.asg |-> [t.asg[i] EXCEPT !.lead = (i = c.i)]]]

(***************************************************************************)
(* The run coroutine: runSteps over the plan, runTaskStage for the node.   *)
(***************************************************************************)
Attempt(op, v, u, i) == [op |-> op, v |-> v, u |-> u, i |-> i, live |-> FALSE, id |-> 0]

RouterIdle == [op |-> "idle", what |-> None]

Running == main.st = "run"

\* The coroutines run and signals are applied; once the plan is done the
\* router drops what it reads.
Alive == main.st \in {"run", "route", "cancel"}

\* in.pending has the channel of a visit from its registration to the return.
Registered == pc \in {"waiting", "completing", "marking"}

PendingAnyVisit(v) == Registered

Pending(v) == Registered /\ visit = v

\* runSteps begins at a step of the plan: where the run is, and what it creates.
BeginAt(step) ==
    /\ pc' = CASE step = "prev" -> "away" [] step = "task" -> "creating" [] OTHER -> "past"
    /\ visit' = IF step = "task" THEN visit + 1 ELSE visit
    /\ chan' = <<>> /\ got' = None

Begun(step) == IF step = "task" THEN {Attempt("create", visit + 1, None, 0)} ELSE {}

MayBegin(step) == step = "task" => visit < MaxVisits

\* The task of the step before is completed and the node is visited.
PrevCompletes ==
    /\ Running /\ pc = "away" /\ MayBegin("task")
    /\ prevDone' = TRUE
    /\ hist' = Append(hist, "prev")
    /\ BeginAt("task")
    /\ att' = att \cup Begun("task")
    /\ UNCHANGED <<inst, task, from, sigvars, loopvars>>

\* The stage waits for this attempt.
Awaited(a, at) == Running /\ pc = at /\ a.v = visit

\* CreateTask reads the instance at the start of its transaction; an instance
\* that is over is refused and the attempt ends.  An attempt whose row is there
\* fails and is made again, for ever unless the instance ends.
CreateReads(a) ==
    /\ a.op = "create" /\ (a.live => task[a.v].st # "NONE")
    /\ att' = IF inst = "RUNNING" THEN (att \ {a}) \cup {[a EXCEPT !.live = TRUE]} ELSE att \ {a}
    /\ UNCHANGED <<dbvars, runvars, sigvars, loopvars>>

CreateCommits(a) ==
    /\ a.op = "create" /\ a.live /\ task[a.v].st = "NONE"
    /\ task' = [task EXCEPT ![a.v] = Created(@)]
    /\ att' = att \ {a}
    /\ pc' = IF Awaited(a, "creating") THEN "recording" ELSE pc
    /\ UNCHANGED <<inst, prevDone, visit, from, hist, chan, got, sigvars, loopvars>>

\* updateInstanceNodes answers; a result buffered for the visit is taken first.
Registers ==
    /\ Running /\ pc = "recording"
    /\ pc' = "waiting"
    /\ chan' = IF buffered[visit] = None THEN <<>> ELSE <<buffered[visit]>>
    /\ buffered' = [buffered EXCEPT ![visit] = None]
    /\ UNCHANGED <<dbvars, visit, from, hist, got, sigvars, router, routes, main, att>>

\* The stage takes a result; a send blocked on its channel goes through then.
StageReceives ==
    LET blocked == router.op = "send" /\ Pending(router.what.v) IN
    /\ Running /\ pc = "waiting" /\ chan # <<>>
    /\ got' = Head(chan)
    /\ chan' = IF blocked THEN Append(Tail(chan), router.what) ELSE Tail(chan)
    /\ router' = IF blocked THEN RouterIdle ELSE router
    /\ pc' = "completing"
    /\ att' = att \cup {Attempt("complete", visit, Head(chan).u, 0)}
    /\ UNCHANGED <<dbvars, visit, from, hist, sigvars, buffered, routes, main>>

\* The stage returns: the node is pushed on the history and the next step runs.
Moves == pc' = "past" /\ hist' = Append(hist, "task") /\ chan' = <<>> /\ got' = None

CompleteCommits(a) ==
    LET t == Completed(task[a.v], a.u) IN
    /\ a.op = "complete"
    /\ task' = [task EXCEPT ![a.v] = t]
    /\ IF ~Awaited(a, "completing") THEN att' = att \ {a} /\ UNCHANGED runvars
       ELSE IF Active(t) = {}
       THEN /\ att' = (att \ {a}) \cup {Attempt("mark", visit, None, 0)}
            /\ pc' = "marking"
            /\ UNCHANGED <<visit, from, hist, chan, got>>
       ELSE att' = att \ {a} /\ Moves /\ UNCHANGED <<visit, from>>
    /\ UNCHANGED <<inst, prevDone, sigvars, loopvars>>

MarkCommits(a) ==
    /\ a.op = "mark"
    /\ task' = [task EXCEPT ![a.v] = Finished(@)]
    /\ att' = att \ {a}
    /\ IF Awaited(a, "marking") THEN Moves /\ UNCHANGED <<visit, from>> ELSE UNCHANGED runvars
    /\ UNCHANGED <<inst, prevDone, sigvars, loopvars>>

\* UpdateTaskStatus(SUPERSEDED) of a stage that was left while it waited.
SupersedeCommits(a) ==
    /\ a.op = "supersede"
    /\ task' = [task EXCEPT ![a.v] = Withdrawn(@, "SUPERSEDED")]
    /\ att' = att \ {a}
    /\ UNCHANGED <<inst, prevDone, runvars, sigvars, loopvars>>

\* An attempt commits and its answer is lost: Temporal runs the activity again.
AnswerLost(a) ==
    /\ a.op = "create" => a.live
    /\ task' = [task EXCEPT ![a.v] =
          CASE a.op = "create" -> Created(@)
            [] a.op = "complete" -> Completed(@, a.u)
            [] a.op = "mark" -> Finished(@)
            [] a.op = "supersede" -> Withdrawn(@, "SUPERSEDED")
            [] OTHER -> Deferred(@, a.i)]
    /\ UNCHANGED <<inst, prevDone, runvars, sigvars, loopvars, att>>

\* The step after is completed: the plan is done and the row is closed.
NextCompletes ==
    /\ Running /\ pc = "past"
    /\ main' = [main EXCEPT !.st = "finish"]
    /\ pc' = "gone"
    /\ UNCHANGED <<dbvars, visit, from, hist, chan, got, sigvars, buffered, router, routes, att>>

Closes ==
    /\ main.st = "finish"
    /\ inst' = "COMPLETED"
    /\ main' = [main EXCEPT !.st = "closed"]
    /\ UNCHANGED <<task, prevDone, runvars, sigvars, buffered, router, routes, att>>

(***************************************************************************)
(* The top-level loop.                                                     *)
(***************************************************************************)
Idle == [st |-> "run", to |-> "prev", sup |-> FALSE]

\* The stage is left without a route being recorded: a stage that knows its
\* task supersedes it, unless a result reached its channel first.
LeftBehind ==
    IF pc = "recording" \/ (pc = "waiting" /\ chan = <<>>)
    THEN {Attempt("supersede", visit, None, 0)} ELSE {}

\* A stage that finds a result as it is left takes it, and lets a blocked send go.
Unblocked ==
    IF pc = "waiting" /\ router.op = "send" /\ Pending(router.what.v) THEN RouterIdle ELSE router

\* The run is cancelled and its coroutine ends; attempts in flight go on.
Abandon == pc' = "gone" /\ chan' = <<>> /\ got' = None

\* A forced route is taken: in.routing is set while it is recorded, unless it
\* comes from a defer. The nodes it closes are those registered now.
TakesRoute(to, fromDefer) ==
    /\ MayBegin(to)
    /\ Abandon
    /\ main' = [st |-> "route", to |-> to, sup |-> Registered /\ ~fromDefer]
    /\ att' = IF fromDefer THEN att \cup LeftBehind ELSE att

TakesForward(e) ==
    /\ e.kind = "forward"
    /\ TakesRoute(e.to, FALSE)
    /\ UNCHANGED hist

TakesBack(e) ==
    /\ e.kind = "back" /\ hist # <<>>
    /\ TakesRoute(hist[Len(hist)], e.fromDefer)
    /\ hist' = SubSeq(hist, 1, Len(hist) - 1)

\* A force-back without a completed node is dropped, after the run it would
\* have left was cancelled: the loop runs its steps from the first one again.
DropsBack(e) ==
    /\ e.kind = "back" /\ hist = <<>>
    /\ MayBegin(from)
    /\ BeginAt(from)
    /\ att' = att \cup LeftBehind \cup Begun(from)
    /\ UNCHANGED <<hist, main>>

TakesCancel(e) ==
    /\ e.kind = "cancel"
    /\ Abandon
    /\ main' = [main EXCEPT !.st = "cancel"]
    /\ UNCHANGED <<hist, att>>

LoopTakes ==
    /\ Running /\ routes # <<>>
    /\ routes' = Tail(routes)
    /\ \/ TakesForward(Head(routes)) /\ UNCHANGED visit
       \/ TakesBack(Head(routes)) /\ UNCHANGED visit
       \/ DropsBack(Head(routes))
       \/ TakesCancel(Head(routes)) /\ UNCHANGED visit
    /\ router' = Unblocked
    /\ UNCHANGED <<dbvars, from, sigvars, buffered>>

\* RecordForceRoute supersedes every open row of the nodes it is given, of any
\* visit; then the steps from the target are run.
RouteRecorded ==
    /\ main.st = "route"
    /\ task' = IF main.sup THEN [v \in Visits |-> Withdrawn(task[v], "SUPERSEDED")] ELSE task
    /\ main' = Idle
    /\ from' = main.to
    /\ BeginAt(main.to)
    /\ att' = att \cup Begun(main.to)
    /\ UNCHANGED <<inst, prevDone, hist, sigvars, buffered, router, routes>>

\* CancelInstance fails the open rows it sees and ends the instance.
CancelCommits ==
    /\ main.st = "cancel"
    /\ IF inst = "TERMINATED" THEN UNCHANGED <<inst, task>>
       ELSE inst' = "TERMINATED" /\ task' = [v \in Visits |-> Withdrawn(task[v], "FAILED")]
    /\ main' = [main EXCEPT !.st = "closed"]
    /\ UNCHANGED <<prevDone, runvars, sigvars, buffered, router, routes, att>>

(***************************************************************************)
(* The signal router and the update handler.                               *)
(***************************************************************************)
\* Capacity of resolveCh.
ChannelCap == 1

\* A send goes through when the channel has room or the stage is receiving.
Room == Len(chan) < ChannelCap \/ (pc = "waiting" /\ chan = <<>>)

RoutesResult ==
    LET r == Head(results) IN
    /\ Alive /\ router.op = "idle" /\ results # <<>>
    /\ results' = Tail(results)
    /\ \/ /\ Pending(r.v) /\ Room
          /\ chan' = Append(chan, r)
          /\ UNCHANGED <<buffered, router>>
       \/ /\ Pending(r.v) /\ ~Room
          /\ router' = [op |-> "send", what |-> r]
          /\ UNCHANGED <<buffered, chan>>
       \/ /\ ~Pending(r.v)
          /\ buffered' = [buffered EXCEPT ![r.v] = r]
          /\ UNCHANGED <<router, chan>>
    /\ UNCHANGED <<dbvars, visit, pc, from, hist, got, reassigns, admin, updates, claims, left, routes, main, att>>

RoutesReassign ==
    /\ Alive /\ router.op = "idle" /\ reassigns # <<>>
    /\ router' = [op |-> "reassign", what |-> Head(reassigns)]
    /\ reassigns' = Tail(reassigns)
    /\ UNCHANGED <<dbvars, runvars, results, admin, updates, claims, left, buffered, routes, main, att>>

\* ReassignAssignment commits, and answers; the conflict of a version that is
\* no longer current is logged.
ReassignCommits ==
    /\ router.op = "reassign" /\ Alive
    /\ task' = [task EXCEPT ![router.what.v] = Reassigned(@, router.what)]
    /\ router' = RouterIdle
    /\ UNCHANGED <<inst, prevDone, runvars, sigvars, buffered, routes, main, att>>

\* It commits and its answer is lost, or the workflow is over.
ReassignAnswerLost ==
    /\ router.op = "reassign"
    /\ task' = [task EXCEPT ![router.what.v] = Reassigned(@, router.what)]
    /\ UNCHANGED <<inst, prevDone, runvars, sigvars, loopvars, att>>

\* Cancel, force-forward and force-back are channels of their own: any may be
\* read first.
RoutesAdmin ==
    /\ Alive /\ router.op = "idle"
    /\ \E i \in DOMAIN admin :
          /\ \A j \in 1..(i - 1) : admin[j].kind # admin[i].kind
          /\ routes' = Append(routes, admin[i])
          /\ admin' = SubSeq(admin, 1, i - 1) \o SubSeq(admin, i + 1, Len(admin))
    /\ UNCHANGED <<dbvars, runvars, results, reassigns, updates, claims, left, buffered, router, main, att>>

\* validateStageDefer accepts or refuses an update; an accepted one runs
\* DeferTask in a coroutine of its own.
AcceptsDefer(d) ==
    /\ Alive
    /\ updates' = updates \ {d}
    /\ att' = IF hist = <<>> THEN att ELSE att \cup {d}
    /\ UNCHANGED <<dbvars, runvars, results, reassigns, admin, claims, left, loopvars>>

DeferEnvelope == [kind |-> "back", to |-> "prev", fromDefer |-> TRUE]

AfterDeferNothing == routes

\* applyStageDefer routes a force-back whatever DeferTask did.
AfterDefer == IF Alive THEN Append(routes, DeferEnvelope) ELSE routes

DeferCommits(a) ==
    /\ a.op = "defer"
    /\ task' = [task EXCEPT ![a.v] = Deferred(@, a.i)]
    /\ att' = att \ {a}
    /\ routes' = AfterDefer
    /\ UNCHANGED <<inst, prevDone, runvars, sigvars, buffered, router, main>>

(***************************************************************************)
(* Calls from outside, with the checks of TaskService and InstanceService. *)
(* A caller passes the version it read; one that is not current is refused.*)
(***************************************************************************)
Spends(k) == left[k] > 0 /\ left' = [left EXCEPT ![k] = @ - 1]

\* currentAssignee: in mode "all" only the lead may act.
MayAct(t) == IF Mode(t) = "all" THEN Leads(t) ELSE Active(t)

Actionable(v) == Alive /\ task[v].st \in Open

Complete(v) ==
    /\ Spends("complete") /\ Actionable(v) /\ inst = "RUNNING"
    /\ \E i \in MayAct(task[v]) :
          results' = Append(results, [v |-> v, u |-> task[v].asg[i].user, ver |-> task[v].ver])
    /\ UNCHANGED <<dbvars, runvars, reassigns, admin, updates, claims, loopvars, att>>

\* hasCompletedStep reads the rows, the workflow asks its own history later.
HasCompletedStep == prevDone \/ \E v \in Visits : task[v].st = "COMPLETED"

Defer(v) ==
    /\ Spends("defer") /\ Actionable(v) /\ inst = "RUNNING" /\ HasCompletedStep
    /\ \E i \in MayAct(task[v]) :
          updates' = updates \cup {[Attempt("defer", v, task[v].asg[i].user, i) EXCEPT !.id = left["defer"]]}
    /\ UNCHANGED <<dbvars, runvars, results, reassigns, admin, claims, loopvars, att>>

\* The user whose assignment a reassignment vacates: the assignee, or the lead.
OldUsers(t) ==
    IF MayAct(t) = {} THEN {None} ELSE {t.asg[i].user : i \in MayAct(t)}

Reassign(v, new) ==
    /\ Spends("reassign") /\ Actionable(v)
    /\ \E old \in OldUsers(task[v]) \ {new} :
          reassigns' = Append(reassigns, [v |-> v, old |-> old, new |-> new, ver |-> task[v].ver])
    /\ UNCHANGED <<dbvars, runvars, results, admin, updates, claims, loopvars, att>>

\* Claim reads the task and its assignments ...
Claim(v) ==
    /\ Spends("claim") /\ task[v].st \in Open
    /\ Mode(task[v]) = "all" /\ Leads(task[v]) = {}
    /\ \E i \in Active(task[v]) : claims' = claims \cup {[v |-> v, i |-> i, ver |-> task[v].ver]}
    /\ UNCHANGED <<dbvars, runvars, results, reassigns, admin, updates, loopvars, att>>

\* ... and writes the lead with the version it was called with.
ClaimCommits(c) ==
    /\ claims' = claims \ {c}
    /\ task' = [task EXCEPT ![c.v] = LeadSet(@, c)]
    /\ UNCHANGED <<inst, prevDone, runvars, results, reassigns, admin, updates, left, loopvars, att>>

ForceRoute(kind, to) ==
    /\ Spends(kind) /\ Alive /\ inst = "RUNNING"
    /\ kind = "back" => to = "prev" /\ HasCompletedStep
    /\ admin' = Append(admin, [kind |-> kind, to |-> to, fromDefer |-> FALSE])
    /\ UNCHANGED <<dbvars, runvars, results, reassigns, updates, claims, loopvars, att>>

Cancel ==
    /\ Spends("cancel") /\ Alive /\ inst = "RUNNING"
    /\ admin' = Append(admin, [kind |-> "cancel", to |-> "prev", fromDefer |-> FALSE])
    /\ UNCHANGED <<dbvars, runvars, results, reassigns, updates, claims, loopvars, att>>

\* Terminate ends the workflow first ...
Terminate ==
    /\ Spends("terminate") /\ (Alive \/ main.st = "finish") /\ inst = "RUNNING"
    /\ main' = [main EXCEPT !.st = "killed"]
    /\ UNCHANGED <<dbvars, runvars, results, reassigns, admin, updates, claims, buffered, router, routes, att>>

\* ... and then closes the row and every open task it sees.
TerminateCommits ==
    /\ main.st = "killed" /\ inst = "RUNNING"
    /\ inst' = "TERMINATED"
    /\ task' = [v \in Visits |-> Withdrawn(task[v], "FAILED")]
    /\ UNCHANGED <<prevDone, runvars, sigvars, loopvars, att>>

(***************************************************************************)
(* The specification.                                                      *)
(***************************************************************************)
Init ==
    /\ inst = "RUNNING" /\ prevDone = FALSE
    /\ \E team \in Teams : task = [v \in Visits |-> NoTask(team)]
    /\ visit = 0 /\ pc = "away" /\ from = "prev" /\ hist = <<>> /\ chan = <<>> /\ got = None
    /\ results = <<>> /\ reassigns = <<>> /\ admin = <<>> /\ updates = {} /\ claims = {}
    /\ left \in Budgets
    /\ buffered = [v \in Visits |-> None]
    /\ router = RouterIdle /\ routes = <<>> /\ main = Idle
    /\ att = {}

\* Steps of people; nobody has to take one.
Outside ==
    \/ PrevCompletes
    \/ NextCompletes
    \/ \E v \in Visits : Complete(v) \/ Defer(v) \/ Claim(v)
    \/ \E v \in Visits, u \in Users : Reassign(v, u)
    \/ \E to \in {"task", "next"} : ForceRoute("forward", to)
    \/ ForceRoute("back", "prev")
    \/ Cancel
    \/ Terminate

\* What the database and the workers do.
Commits ==
    \/ \E a \in att : \/ CreateReads(a) \/ CreateCommits(a) \/ CompleteCommits(a)
                      \/ MarkCommits(a) \/ SupersedeCommits(a) \/ DeferCommits(a)
    \/ RouteRecorded
    \/ CancelCommits
    \/ ReassignCommits
    \/ Closes

Coroutines ==
    \/ Registers
    \/ StageReceives
    \/ LoopTakes
    \/ RoutesResult
    \/ RoutesReassign
    \/ RoutesAdmin
    \/ \E d \in updates : AcceptsDefer(d)

Next ==
    \/ Outside
    \/ Commits
    \/ Coroutines
    \/ \E a \in att : AnswerLost(a)
    \/ ReassignAnswerLost
    \/ TerminateCommits
    \/ \E c \in claims : ClaimCommits(c)

Spec == Init /\ [][Next]_vars

\* Temporal runs every enabled coroutine and retries an activity until it answers.
FairSpec == Spec /\ WF_vars(Coroutines) /\ WF_vars(Commits)

(***************************************************************************)
(* Properties.                                                             *)
(***************************************************************************)
Results   == [v : Visits, u : Users, ver : Nat]
Reassigns == [v : Visits, old : Users \cup {None}, new : Users, ver : Nat]
Claims    == [v : Visits, i : Nat, ver : Nat]
Envelopes == [kind : {"forward", "back", "cancel"}, to : Steps, fromDefer : BOOLEAN]
Statuses  == Open \cup {"NONE", "COMPLETED", "FAILED", "DEFERRED", "SUPERSEDED"}
Assignments == [user : Users, st : {"active", "vacated", "done"}, lead : BOOLEAN]
Rows == [st : Statuses, ver : Nat, asg : Seq(Assignments), team : Teams]
Attempts ==
    [op : {"create", "complete", "mark", "supersede", "defer"}, v : Visits,
     u : Users \cup {None}, i : Nat, live : BOOLEAN, id : Nat]

\* The database, the run, the calls on their way and the other coroutines.
DbOK == /\ inst \in {"RUNNING", "COMPLETED", "TERMINATED"} /\ prevDone \in BOOLEAN
        /\ task \in [Visits -> Rows]
RunOK ==
    /\ visit \in 0..MaxVisits
    /\ pc \in {"away", "creating", "recording", "waiting", "completing", "marking", "past", "gone"}
    /\ pc \in {"creating", "recording", "waiting", "completing", "marking"} => visit > 0
    /\ from \in Steps /\ hist \in Seq({"prev", "task"})
    /\ chan \in Seq(Results) /\ Len(chan) <= ChannelCap
    /\ got \in Results \cup {None}
    /\ pc \in {"completing", "marking"} => got \in Results
SignalsOK ==
    /\ results \in Seq(Results) /\ reassigns \in Seq(Reassigns) /\ admin \in Seq(Envelopes)
    /\ updates \subseteq Attempts /\ claims \subseteq Claims
    /\ left \in [Kinds -> Nat]
LoopsOK ==
    /\ buffered \in [Visits -> Results \cup {None}]
    /\ \/ router = RouterIdle
       \/ router.op = "send" /\ router.what \in Results
       \/ router.op = "reassign" /\ router.what \in Reassigns
    /\ routes \in Seq(Envelopes)
    /\ main \in [st : {"run", "route", "cancel", "finish", "closed", "killed"}, to : Steps, sup : BOOLEAN]
    /\ main.st = "route" => MayBegin(main.to)
    /\ att \subseteq Attempts

\* Every variable has its type; the channel of the stage never holds more than
\* its capacity (NewBufferedChannel(ctx, 1), stage.go:90), and a node that is run
\* has a visit.
TypeOK == DbOK /\ RunOK /\ SignalsOK /\ LoopsOK

\* A stage only applies a result that was sent for the task of its own visit,
\* however late the result is and however often the node was left in between
\* (nodeVisitKey, signals.go:188 and stage.go:88).
ResultOfItsVisit ==
    /\ pc \in {"completing", "marking"} => got.v = visit
    /\ \A i \in DOMAIN chan : chan[i].v = visit

\* An open task that is made for one assignee never has two, whatever
\* reassignments cross (ReassignAssignment's version check).
SingleHasOneAssignee ==
    \A v \in Visits : Mode(task[v]) = "single" /\ task[v].st \in Open =>
        \A i, j \in Active(task[v]) : i = j

\* A stage that waits, with nothing on its way to it, waits for a task that
\* somebody can still act on: no call leaves it waiting for a closed row
\* (runTaskStage, DeferTask and the route applyStageDefer sends after it).
WaitingTaskActionable ==
    (/\ Running /\ pc = "waiting" /\ chan = <<>> /\ routes = <<>>
     /\ \A a \in att : a.op # "defer")
        => task[visit].st \in Open /\ Active(task[visit]) # {}

\* A claim that was granted is not taken by another claim (SetLead's version).
ClaimSurvives ==
    [][\A v \in Visits : \A i \in Leads(task[v]) :
          i \in Active(task'[v]) => task'[v].asg[i].lead]_vars

\* A claimed task that stays open keeps a lead: a reassignment hands the lead
\* over (leadHeldBy), so that somebody may complete it.
LeadHandedOver ==
    [][\A v \in Visits :
          /\ Leads(task[v]) # {}
          /\ task'[v].st \in Open
          /\ \A i \in Leads(task[v]) : task'[v].asg[i].st # "done"
          => Leads(task'[v]) # {}]_vars

(***************************************************************************)
(* What the documentation says and the code does not do.                   *)
(***************************************************************************)
\* "Graceful cancel: marks active tasks FAILED, then exits": a cancel that was
\* accepted is carried out, unless the instance ends first (runSignalRouter and
\* the Select of runTopLevel).
CancelCarriedOut ==
    (\E i \in DOMAIN admin : admin[i].kind = "cancel")
        ~> main.st \in {"cancel", "finish", "closed", "killed"}

StageMovesOn == pc \in {"completing", "marking"} /\ pc' = "past"

\* "`all` (every assignee must act, with claim semantics)": the stage moves on
\* when no assignment is left (resolveTaskStage).
EveryAssigneeActs == [][StageMovesOn => Active(task'[visit]) = {}]_vars

\* "the in-workflow Activity's own check stays in place": a completion whose
\* user lost the assignment after the call is not applied (CompleteAssignment).
StaleCompletionRefused ==
    [][pc = "completing" /\ pc' \in {"marking", "past"} =>
          \E i \in DOMAIN task[visit].asg :
              task[visit].asg[i].user = got.u /\ task[visit].asg[i].st \in {"active", "done"}]_vars

\* "The regressed task is closed out, not abandoned": an administrator's route
\* leaves no open row of the visit it left (runTopLevel, RecordForceRoute).
ForceRouteClosesTask ==
    [][main.st = "route" /\ main'.st = "run" /\ visit > 0 =>
          task'[visit].st \notin Open]_vars

\* "an activity still in flight when its instance is terminated leaves no READY
\* task behind" (CreateTask).
EndedInstanceHasNoOpenTask ==
    inst = "TERMINATED" => \A v \in Visits : task[v].st \notin Open

\* Only an open task is deferred (DeferTask, UpdateTaskStatus).
ClosedTaskStaysClosed ==
    [][\A v \in Visits : task[v].st \notin Open \cup {"NONE"} => task'[v].st = task[v].st]_vars

=============================================================================
