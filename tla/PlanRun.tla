------------------------------ MODULE PlanRun ------------------------------
(***************************************************************************)
(* The interpreter running a plan without parallel gateways: departments   *)
(* of task, send, receive and outside-wait stages, exclusive gateways with *)
(* reverts, sub-workflows, and the boundaries of stages and sub-workflows, *)
(* under forced routes and a cancel.                                       *)
(*                                                                         *)
(* Every wf.Go is a coroutine here: a run of the top-level steps, the body *)
(* of a sub-workflow, the path of a non-interrupting boundary.  Coroutines *)
(* are run as the SDK runs them, in the order of their creation, each      *)
(* until it blocks, until all are blocked; only then does an event from    *)
(* outside arrive.  Events that arrive together are one of their orders.   *)
(*                                                                         *)
(* There is one message name.  Pauses are not modelled here.               *)
(***************************************************************************)
EXTENDS Integers, Sequences, FiniteSets, SequencesExt

CONSTANTS
    Plans,      \* the compiled plans: steps, the stages of every department, what its tasks
                \* return; and a bound on forced routes
    Lists(_),   \* the lists of steps of a plan, at any depth
    Redirects(_, _), \* redirectSteps: where a forced route to a department re-enters a plan
    Results,    \* the results a task can be completed with
    Codes,      \* the error classes a task can fail with
    MaxCycles,  \* maxRevertCycles
    MaxCo,      \* the coroutines the liveness property looks at
    None        \* no result, no department, no stage, no error class

ASSUME RunAssumption ==
    /\ MaxCycles \in Nat /\ MaxCo \in Nat
    /\ \A p \in Plans : p.routes \in Nat /\ p.returns \subseteq Results \cup Codes
    /\ None \notin Results \cup Codes \cup {"ok", "abandoned", "error"} /\ Results \cap Codes = {}

(***************************************************************************)
(* A compiled plan.  A gateway counts its reverts in cycle, which is 0 in  *)
(* the plan.  A branch's condition is the set of results it is true of;    *)
(* empty: the else.                                                        *)
(***************************************************************************)
Targets(p) == DOMAIN p.depts \cup {None}

Paths(p) ==
    [kind: {"timer", "message", "external"}, inter: BOOLEAN, target: Targets(p), steps: Lists(p)]

ErrorPaths(p) == [code: Codes \cup {None}, target: Targets(p), steps: Lists(p)]

Branches(p) ==
    [cond: SUBSET Results, steps: Lists(p), ends: BOOLEAN, target: Targets(p), at: Nat, revert: Targets(p)]

Stages(p) == [k: {"task", "send", "receive", "external"}, bnds: Seq(Paths(p))]

Steps(p, cycles) ==
         [k: {"seq"}, depts: Seq(DOMAIN p.depts)]
    \cup [k: {"excl"}, branches: Seq(Branches(p)), cycle: cycles]
    \cup [k: {"call"}, name: STRING, body: Lists(p), bnds: Seq(Paths(p)), errs: Seq(ErrorPaths(p))]

\* A step names departments of the plan, and so does what a route re-enters with.
ASSUME PlanAssumption ==
    \A p \in Plans :
        /\ p.depts \in [DOMAIN p.depts -> Seq(Stages(p))]
        /\ p.steps \in Lists(p) /\ Lists(p) \subseteq Seq(Steps(p, {0}))
        /\ \A d \in DOMAIN p.depts : Redirects(p, d) \subseteq Seq(Steps(p, {0}))

VARIABLES
    plan,      \* the plan of this execution
    co,        \* the coroutines, in the order of their creation
    turn,      \* the coroutine the dispatcher is at; 0 is the top-level loop
    cancelled, \* the coroutines whose own context was cancelled
    msg,       \* messageBuffer and externalWaiting, and the channels with something in them
    hist,      \* nodeHistory
    root,      \* the top-level loop: what it does, its current run and its steps
    status,    \* in.status
    panicked,  \* a coroutine panicked: the workflow task is retried and fails for good
    left       \* forced routes still allowed

vars == <<plan, co, turn, cancelled, msg, hist, root, status, panicked, left>>

(***************************************************************************)
(* History, messages, outside waits.  A waiter is a channel: the           *)
(* coroutine, the number of the wait in it, and which of the channels of   *)
(* that wait, 0 for the stage's own and j for its boundary j.              *)
(***************************************************************************)
PopTo(h, node) ==
    LET at == {j \in DOMAIN h : h[j] = node} IN
    IF at = {} THEN <<>> ELSE SubSeq(h, 1, Max(at) - 1)

Popped(h, node) ==
    LET at == {j \in DOMAIN h : h[j] = node} IN
    IF at = {} THEN ToSet(h) ELSE {h[j] : j \in Max(at)..Len(h)}

\* A sequence without the members of a set.
Without(s, S) ==
    LET kept[i \in 0..Len(s)] ==
            IF i = 0 THEN <<>> ELSE IF s[i] \in S THEN kept[i - 1] ELSE Append(kept[i - 1], s[i])
    IN kept[Len(s)]

\* Mutant: the sends of the nodes that are taken back stay in the buffer.
ResetNothing(m, span) == m

ResetSpan(m, span) == [m EXCEPT !.buf = Without(@, span)]

SendMessage(m, node) ==
    IF m.blocked # <<>>
    THEN [m EXCEPT !.box = @ \cup {Head(m.blocked)}, !.blocked = Tail(@)]
    ELSE [m EXCEPT !.buf = Append(@, node)]

\* Channels that begin to wait, in this order: each takes a send from the
\* buffer, and those it has none for queue up.
WaitChannel(m, ws) ==
    LET t == IF Len(ws) <= Len(m.buf) THEN Len(ws) ELSE Len(m.buf) IN
    [m EXCEPT !.box = @ \cup {ws[k] : k \in 1..t},
              !.buf = SubSeq(@, t + 1, Len(@)),
              !.blocked = @ \o SubSeq(ws, t + 1, Len(ws))]

CancelWait(m, ws) == [m EXCEPT !.blocked = Without(@, ws)]

\* A wait key: the node or the sub-workflow, and the boundary (0: the node itself).
Key(host, j) == [host |-> host, bnd |-> j]

\* Wait n of coroutine i is under these keys, whoever waited under them before.
WaitExternal(m, keys, i, n) ==
    [m EXCEPT !.ext = [k \in DOMAIN @ \cup keys |-> IF k \in keys THEN <<i, n, k.bnd>> ELSE @[k]]]

Forgotten(m, keys) == [m EXCEPT !.ext = [k \in DOMAIN @ \ keys |-> @[k]]]

\* Mutant: the waits under the keys are dropped, whosever they are.
CancelByKey(m, keys, i, n) == Forgotten(m, keys)

CancelExternal(m, keys, i, n) ==
    Forgotten(m, {k \in keys \cap DOMAIN m.ext : m.ext[k] = <<i, n, k.bnd>>})

OfKind(bnds, kind) == {j \in DOMAIN bnds : bnds[j].kind = kind}

ExternalKeys(host, bnds) == {Key(host, j) : j \in OfKind(bnds, "external")}

AddBoundaries(m, host, bnds, i, n) ==
    LET all   == [j \in DOMAIN bnds |-> <<i, n, j>>]
        other == {<<i, n, j>> : j \in DOMAIN bnds \ OfKind(bnds, "message")}
    IN WaitExternal(WaitChannel(m, Without(all, other)), ExternalKeys(host, bnds), i, n)

CancelBoundaries(m, host, bnds, i, n) ==
    CancelExternal(CancelWait(m, {<<i, n, j>> : j \in DOMAIN bnds}), ExternalKeys(host, bnds), i, n)

(***************************************************************************)
(* Coroutines.  todo is what a coroutine has still to run.  An error and   *)
(* errPathEnded both travel up to the runSteps the coroutine began with,   *)
(* so that a path that ends is one whose todo is cut short.                *)
(***************************************************************************)
Coroutine(steps, under, errs) ==
    [st |-> "run", todo |-> steps, res |-> None, under |-> under, errs |-> errs, n |-> 0,
     host |-> <<None, 0>>, bnds |-> <<>>, got |-> None, child |-> 0, fired |-> 0, out |-> None, raised |-> FALSE]

Dept(d, at) == [k |-> "dept", d |-> d, at |-> at]

Cancelled(i) == co[i].under \cap cancelled # {}

Waiter(i, j) == <<i, co[i].n, j>>

FiredOf(i) == {j \in DOMAIN co[i].bnds : Waiter(i, j) \in msg.box}

TimersOf(i) == OfKind(co[i].bnds, "timer")

\* Mutant: a body that fails reports nothing.
DoneIfSucceeded(i) == co[co[i].child].st = "over" /\ co[co[i].child].out = "ok"

DoneReady(i) == co[co[i].child].st = "over" /\ ~co[co[i].child].raised

ErrReady(i) == co[co[i].child].st = "over" /\ co[co[i].child].raised

MainEnded == root.op = "run" /\ co[root.run].st = "over" /\ co[root.run].out # "abandoned"

\* What keeps a blocked coroutine from being blocked.
Runnable(i) ==
    IF i = 0 THEN MainEnded
    ELSE CASE co[i].st = "run"      -> TRUE
           [] co[i].st = "create"   -> co[i].got # None \/ Cancelled(i)
           [] co[i].st = "task"     -> co[i].got # None \/ Cancelled(i) \/ FiredOf(i) # {}
           [] co[i].st = "hosttask" -> co[i].got # None
           [] co[i].st = "receive"  -> Waiter(i, 0) \in msg.box
           [] co[i].st = "call"     -> \/ DoneReady(i) \/ ErrReady(i) \/ FiredOf(i) # {}
                                       \/ Cancelled(i) /\ TimersOf(i) # {}
           [] co[i].st = "wind"     -> DoneReady(i) \/ co[i].got # None \/ Cancelled(i)
           [] co[i].st = "host"     -> DoneReady(i)
           [] co[i].st = "over"     -> FALSE

Quiet == \A i \in 0..Len(co) : ~Runnable(i)

\* The dispatcher goes on with the coroutine it is at until that one blocks.
Scheduled(i) ==
    /\ Runnable(i) /\ ~panicked
    /\ LET later(j) == IF j >= turn THEN j - turn ELSE j - turn + Len(co) + 1 IN
       \A j \in 0..Len(co) : Runnable(j) => later(i) <= later(j)

\* An error ends the coroutine.  A body hands one its sub-workflow has a
\* path for to errCh, and everything else to doneCh.
MatchErrorPath(errs, code) ==
    LET named == {j \in DOMAIN errs : errs[j].code = code}
        any   == {j \in DOMAIN errs : errs[j].code = None}
    IN IF named # {} THEN Min(named) ELSE IF any # {} THEN Min(any) ELSE 0

Over(c, out) ==
    [c EXCEPT !.st = "over", !.out = out, !.todo = <<>>,
              !.raised = out \in Codes /\ MatchErrorPath(c.errs, out) # 0]

\* runFiredPath: steps end the path after them, no target ends it at once.
FiredTodo(f, rest) ==
    IF f.steps # <<>> THEN f.steps
    ELSE IF f.target = None THEN <<>> ELSE <<Dept(f.target, 1)>> \o rest

OnPath(c, f) ==
    [c EXCEPT !.st = "run", !.todo = FiredTodo(f, @), !.res = IF f.steps # <<>> THEN None ELSE @]

\* spawnFiredPath: the path runs under the context of its host's coroutine.
Spawned(cs, i, f) ==
    IF f.steps = <<>> /\ f.target = None THEN cs
    ELSE Append(cs, Coroutine(FiredTodo(f, <<>>), co[i].under, <<>>))

(***************************************************************************)
(* A coroutine takes its next step.                                        *)
(***************************************************************************)
Becomes(i, c) == co' = [co EXCEPT ![i] = c]

Rest(i) == Tail(co[i].todo)

Head1(i) == co[i].todo[1]

AtItem(i, k) == co[i].st = "run" /\ co[i].todo # <<>> /\ co[i].todo[1].k = k

StepList(i) ==
    /\ co[i].st = "run"
    /\ \/ co[i].todo = <<>> /\ Becomes(i, Over(co[i], "ok"))
       \/ /\ AtItem(i, "seq")
          /\ Becomes(i, [co[i] EXCEPT
                !.todo = [j \in DOMAIN Head1(i).depts |-> Dept(Head1(i).depts[j], 1)] \o Rest(i)])
       \/ /\ AtItem(i, "ret")
          /\ Becomes(i, [co[i] EXCEPT !.todo = Rest(i), !.res = IF @ = None THEN Head1(i).saved ELSE @])
       \/ /\ AtItem(i, "dept") /\ Head1(i).at > Len(plan.depts[Head1(i).d])
          /\ Becomes(i, [co[i] EXCEPT !.todo = Rest(i)])
    /\ UNCHANGED <<plan, cancelled, msg, hist, root, status, panicked, left>>

\* runStage.  A receive first records its node: under a cancelled context
\* that activity fails.
RunStage(i) ==
    /\ AtItem(i, "dept") /\ Head1(i).at <= Len(plan.depts[Head1(i).d])
    /\ LET item  == Head1(i)
           node  == <<item.d, item.at>>
           stage == plan.depts[item.d][item.at]
           c     == [co[i] EXCEPT !.todo = <<Dept(item.d, item.at + 1)>> \o Rest(i)]
           w     == [c EXCEPT !.st = "receive", !.n = @ + 1, !.host = node]
       IN \/ /\ stage.k = "send"
             /\ msg' = SendMessage(msg, node)
             /\ hist' = Append(hist, node)
             /\ Becomes(i, c)
          \/ /\ stage.k \in {"receive", "external"} /\ Cancelled(i)
             /\ Becomes(i, Over(c, "error"))
             /\ UNCHANGED <<msg, hist>>
          \/ /\ stage.k = "receive" /\ ~Cancelled(i)
             /\ msg' = WaitChannel(msg, <<<<i, w.n, 0>>>>)
             /\ Becomes(i, w)
             /\ UNCHANGED hist
          \/ /\ stage.k = "external" /\ ~Cancelled(i)
             /\ msg' = WaitExternal(msg, {Key(node, 0)}, i, w.n)
             /\ Becomes(i, w)
             /\ UNCHANGED hist
          \/ /\ stage.k = "task"
             /\ Becomes(i, [c EXCEPT !.st = "create", !.got = None, !.host = node, !.bnds = stage.bnds])
             /\ UNCHANGED <<msg, hist>>
    /\ UNCHANGED <<plan, cancelled, root, status, panicked, left>>

\* The receive has its message or its answer.
Received(i) ==
    /\ co[i].st = "receive"
    /\ LET m == [msg EXCEPT !.box = @ \ {Waiter(i, 0)}]
       IN msg' = CancelExternal(m, {Key(co[i].host, 0)}, i, co[i].n)
    /\ hist' = Append(hist, co[i].host)
    /\ Becomes(i, [co[i] EXCEPT !.st = "run"])
    /\ UNCHANGED <<plan, cancelled, root, status, panicked, left>>

\* The task exists: wait for its result, its boundaries and the context.
AwaitTask(i) ==
    /\ co[i].st = "create"
    /\ \/ /\ Cancelled(i)
          /\ Becomes(i, Over(co[i], "abandoned"))
          /\ UNCHANGED msg
       \/ /\ ~Cancelled(i)
          /\ LET c == [co[i] EXCEPT !.st = "task", !.got = None, !.n = @ + 1] IN
             /\ msg' = AddBoundaries(msg, c.host, c.bnds, i, c.n)
             /\ Becomes(i, c)
    /\ UNCHANGED <<plan, cancelled, hist, root, status, panicked, left>>

Unregistered(i) == CancelBoundaries(msg, co[i].host, co[i].bnds, i, co[i].n)

\* resolveTaskStage: its activities fail under a cancelled context.
Resolve(i) ==
    /\ co[i].st \in {"task", "hosttask"} /\ co[i].got # None
    /\ msg' = Unregistered(i)
    /\ \/ Cancelled(i) /\ Becomes(i, Over(co[i], "error")) /\ UNCHANGED hist
       \/ ~Cancelled(i) /\ co[i].got \in Codes /\ Becomes(i, Over(co[i], co[i].got)) /\ UNCHANGED hist
       \/ /\ ~Cancelled(i) /\ co[i].got \in Results
          /\ hist' = Append(hist, co[i].host)
          /\ Becomes(i, [co[i] EXCEPT !.st = "run", !.res = co[i].got])
    /\ UNCHANGED <<plan, cancelled, root, status, panicked, left>>

Abandon(i) ==
    /\ co[i].st = "task" /\ co[i].got = None /\ Cancelled(i)
    /\ msg' = Unregistered(i)
    /\ Becomes(i, Over(co[i], "abandoned"))
    /\ UNCHANGED <<plan, cancelled, hist, root, status, panicked, left>>

\* A boundary of a task: the task is superseded, or goes on beside the path
\* and then listens to nothing but its result.
TaskBoundary(i) ==
    /\ co[i].st = "task" /\ co[i].got = None /\ ~Cancelled(i)
    /\ LET f == co[i].bnds[Min(FiredOf(i))] IN
       /\ msg' = [Unregistered(i) EXCEPT !.box = @ \ {Waiter(i, Min(FiredOf(i)))}]
       /\ \/ f.inter /\ Becomes(i, OnPath(co[i], f))
          \/ ~f.inter /\ co' = Spawned([co EXCEPT ![i].st = "hosttask", ![i].bnds = <<>>], i, f)
    /\ UNCHANGED <<plan, cancelled, hist, root, status, panicked, left>>

\* selectBranch: the branch taken, 0 for none, -1 for a result it cannot read.
SelectBranch(branches, res) ==
    LET cond == {j \in DOMAIN branches : branches[j].cond # {}}
        true == {j \in cond : res \in branches[j].cond}
        else == DOMAIN branches \ cond
    IN IF cond # {} /\ res = "unreadable" THEN -1
       ELSE IF true # {} THEN Min(true) ELSE IF else # {} THEN Min(else) ELSE 0

From(d, at) == Dept(d, IF at = 0 THEN 1 ELSE at)

Exhausted(cycle) == cycle >= MaxCycles

\* runExclusive.  A list of steps knows the last result of its own steps
\* only; "ret" gives the list of the gateway its own back.  A revert runs
\* its department and comes back to the gateway.
Exclusive(i) ==
    /\ AtItem(i, "excl")
    /\ LET item == Head1(i)
           pick == SelectBranch(item.branches, co[i].res)
           rest == IF item.cycle = 0 THEN <<[k |-> "ret", saved |-> co[i].res]>> \o Rest(i) ELSE Rest(i)
           b    == item.branches[pick]
           goes(todo, res) == Becomes(i, [co[i] EXCEPT !.todo = todo, !.res = res])
           fails == \/ pick = -1
                    \/ pick = 0 /\ item.cycle = 0
                    \/ pick > 0 /\ b.revert # None /\ Exhausted(item.cycle)
       IN \/ fails /\ Becomes(i, Over(co[i], "error")) /\ UNCHANGED <<msg, hist>>
          \/ pick = 0 /\ ~fails /\ goes(rest, co[i].res) /\ UNCHANGED <<msg, hist>>
          \/ /\ pick > 0 /\ ~fails /\ b.revert # None
             /\ hist' = PopTo(hist, <<b.revert, b.at>>)
             /\ msg' = ResetSpan(msg, Popped(hist, <<b.revert, b.at>>))
             /\ goes(<<From(b.revert, b.at), [item EXCEPT !.cycle = @ + 1]>> \o rest, None)
          \/ /\ pick > 0 /\ ~fails /\ b.revert = None
             /\ \/ b.steps # <<>> /\ goes(b.steps \o (IF b.ends THEN <<>> ELSE rest), None)
                \/ b.steps = <<>> /\ b.ends /\ goes(<<>>, co[i].res)
                \/ b.steps = <<>> /\ ~b.ends /\ b.target = None /\ goes(rest, co[i].res)
                \/ b.steps = <<>> /\ ~b.ends /\ b.target # None /\ goes(<<From(b.target, b.at)>> \o rest, None)
             /\ UNCHANGED <<msg, hist>>
    /\ UNCHANGED <<plan, cancelled, root, status, panicked, left>>

\* runSubWorkflow: the body is a coroutine under a context of its own.
Call(i) ==
    /\ AtItem(i, "call")
    /\ LET item == Head1(i)
           body == Len(co) + 1
           c    == [co[i] EXCEPT !.todo = Rest(i), !.st = "call", !.n = @ + 1, !.child = body,
                                 !.host = <<item.name, 0>>, !.bnds = item.bnds, !.got = None]
       IN /\ co' = Append([co EXCEPT ![i] = c], Coroutine(item.body, co[i].under \cup {body}, item.errs))
          /\ msg' = AddBoundaries(msg, c.host, c.bnds, i, c.n)
    /\ UNCHANGED <<plan, cancelled, hist, root, status, panicked, left>>

\* doneCh: the error of the body is the error of the step.
EndCall(i) ==
    /\ co[i].st \in {"call", "host"} /\ DoneReady(i)
    /\ msg' = IF co[i].st = "call" THEN Unregistered(i) ELSE msg
    /\ LET out == co[co[i].child].out IN
       Becomes(i, IF out = "ok" THEN [co[i] EXCEPT !.st = "run"] ELSE Over(co[i], out))
    /\ UNCHANGED <<plan, cancelled, hist, root, status, panicked, left>>

\* Mutant: an interrupting boundary leaves the context of the body alone.
CallBoundaryKeeping(i) ==
    /\ co[i].st = "call" /\ ~DoneReady(i)
    /\ LET ready == FiredOf(i) \cup (IF Cancelled(i) THEN TimersOf(i) ELSE {})
           j     == Min(ready)
           f     == co[i].bnds[j]
       IN /\ ready # {}
          /\ msg' = [msg EXCEPT !.box = @ \ {Waiter(i, j)}]
          /\ \/ /\ j \notin FiredOf(i)
                /\ panicked' = TRUE
                /\ UNCHANGED <<co, cancelled>>
             \/ /\ j \in FiredOf(i) /\ f.inter
                /\ Becomes(i, [co[i] EXCEPT !.st = "wind", !.fired = j])
                /\ UNCHANGED <<cancelled, panicked>>
             \/ /\ j \in FiredOf(i) /\ ~f.inter
                /\ co' = Spawned([co EXCEPT ![i].st = "host"], i, f)
                /\ UNCHANGED <<cancelled, panicked>>
    /\ UNCHANGED <<plan, hist, root, status, left>>

\* The Select of a sub-workflow returned and doneCh was not it.  The timer of
\* a cancelled context is ready too, and fires nothing: fired is nil.
CallBoundary(i) ==
    /\ co[i].st = "call" /\ ~DoneReady(i)
    /\ LET ready == FiredOf(i) \cup (IF Cancelled(i) THEN TimersOf(i) ELSE {})
           j     == Min(ready)
           f     == co[i].bnds[j]
       IN /\ ready # {}
          /\ msg' = [msg EXCEPT !.box = @ \ {Waiter(i, j)}]
          /\ \/ /\ j \notin FiredOf(i)
                /\ panicked' = TRUE
                /\ UNCHANGED <<co, cancelled>>
             \/ /\ j \in FiredOf(i) /\ f.inter
                /\ cancelled' = cancelled \cup {co[i].child}
                /\ Becomes(i, [co[i] EXCEPT !.st = "wind", !.fired = j])
                /\ UNCHANGED panicked
             \/ /\ j \in FiredOf(i) /\ ~f.inter
                /\ co' = Spawned([co EXCEPT ![i].st = "host"], i, f)
                /\ UNCHANGED <<cancelled, panicked>>
    /\ UNCHANGED <<plan, hist, root, status, left>>

\* An error path: interrupting, and nothing to wait for.
ErrorBoundary(i) ==
    /\ co[i].st = "call" /\ ErrReady(i)
    /\ FiredOf(i) = {} /\ (Cancelled(i) => TimersOf(i) = {})
    /\ LET body == co[co[i].child] IN
       Becomes(i, OnPath(co[i], body.errs[MatchErrorPath(body.errs, body.out)]))
    /\ cancelled' = cancelled \cup {co[i].child}
    /\ UNCHANGED <<plan, msg, hist, root, status, panicked, left>>

\* awaitWindDown is over: the body ended, thirty seconds passed, or this
\* coroutine was cancelled too.
WindDown(i) ==
    /\ co[i].st = "wind"
    /\ Becomes(i, [OnPath(co[i], co[i].bnds[co[i].fired]) EXCEPT !.got = None])
    /\ UNCHANGED <<plan, cancelled, msg, hist, root, status, panicked, left>>

\* runTopLevel receives doneCh, cancels what is left of the run and returns.
EndRun ==
    /\ cancelled' = cancelled \cup {root.run}
    /\ status' = IF co[root.run].out = "ok" THEN "COMPLETED" ELSE "FAILED"
    /\ root' = [root EXCEPT !.op = "over"]
    /\ UNCHANGED <<plan, co, msg, hist, panicked, left>>

(***************************************************************************)
(* What comes from outside: activities, results, timers, answers, routes.  *)
(***************************************************************************)
\* Coroutines run first; the workflow that is closing takes nothing more.
Outside == Quiet /\ ~panicked /\ root.op # "over" /\ turn' = 0

CreateTask(i) ==
    /\ co[i].st = "create"
    /\ Becomes(i, [co[i] EXCEPT !.got = "created"])
    /\ UNCHANGED <<plan, cancelled, msg, hist, root, status, panicked, left>>

TaskResult(i, r) ==
    /\ co[i].st \in {"task", "hosttask"}
    /\ Becomes(i, [co[i] EXCEPT !.got = r])
    /\ UNCHANGED <<plan, cancelled, msg, hist, root, status, panicked, left>>

TimerFires(i, j) ==
    /\ co[i].st \in {"task", "call"} /\ j \in TimersOf(i)
    /\ msg' = [msg EXCEPT !.box = @ \cup {Waiter(i, j)}]
    /\ UNCHANGED <<plan, co, cancelled, hist, root, status, panicked, left>>

WindTimeout(i) ==
    /\ co[i].st = "wind"
    /\ Becomes(i, [co[i] EXCEPT !.got = "timeout"])
    /\ UNCHANGED <<plan, cancelled, msg, hist, root, status, panicked, left>>

\* handleExternalAnswer.
ExternalAnswer(key) ==
    /\ key \in DOMAIN msg.ext
    /\ msg' = [Forgotten(msg, {key}) EXCEPT !.box = @ \cup {msg.ext[key]}]
    /\ UNCHANGED <<plan, co, cancelled, hist, root, status, panicked, left>>

NewRun(steps) == Append(co, Coroutine(steps, {Len(co) + 1}, <<>>))

\* Mutant: a forced route leaves the context of the run alone.
ForceForwardKeeping(d) ==
    /\ root.op = "run" /\ left > 0 /\ left' = left - 1
    /\ \E steps \in Redirects(plan, d) : root' = [root EXCEPT !.op = "redirect", !.steps = steps]
    /\ UNCHANGED <<plan, co, msg, cancelled, hist, status, panicked>>

ForceForward(d) ==
    /\ root.op = "run" /\ left > 0 /\ left' = left - 1
    /\ cancelled' = cancelled \cup {root.run}
    /\ \E steps \in Redirects(plan, d) : root' = [root EXCEPT !.op = "redirect", !.steps = steps]
    /\ UNCHANGED <<plan, co, msg, hist, status, panicked>>

\* With nothing to return to the loop goes round again, and the run it has
\* just cancelled begins anew.
ForceBack ==
    /\ root.op = "run" /\ left > 0 /\ left' = left - 1
    /\ cancelled' = cancelled \cup {root.run}
    /\ \/ /\ hist = <<>>
          /\ co' = NewRun(root.steps)
          /\ root' = [root EXCEPT !.run = Len(co')]
          /\ UNCHANGED <<msg, hist>>
       \/ /\ hist # <<>>
          /\ hist' = PopTo(hist, Last(hist))
          /\ msg' = ResetSpan(msg, Popped(hist, Last(hist)))
          /\ \E steps \in Redirects(plan, Last(hist)[1]) :
               root' = [root EXCEPT !.op = "redirect", !.steps = steps]
          /\ UNCHANGED co
    /\ UNCHANGED <<plan, status, panicked>>

\* The route is recorded: the loop starts its next run.
Redirected ==
    /\ root.op = "redirect"
    /\ co' = NewRun(root.steps)
    /\ root' = [root EXCEPT !.op = "run", !.run = Len(co')]
    /\ UNCHANGED <<plan, cancelled, msg, hist, status, panicked, left>>

CancelInstance ==
    /\ root.op = "run"
    /\ cancelled' = cancelled \cup {root.run}
    /\ root' = [root EXCEPT !.op = "over"]
    /\ status' = "TERMINATED"
    /\ UNCHANGED <<plan, co, msg, hist, panicked, left>>

Init ==
    /\ plan \in Plans
    /\ co = <<Coroutine(plan.steps, {1}, <<>>)>>
    /\ turn = 0 /\ cancelled = {} /\ hist = <<>>
    /\ msg = [buf |-> <<>>, blocked |-> <<>>, box |-> {}, ext |-> <<>>]
    /\ root = [op |-> "run", run |-> 1, steps |-> plan.steps]
    /\ status = "RUNNING" /\ panicked = FALSE /\ left = plan.routes

CoroutineStep ==
    \/ Scheduled(0) /\ EndRun /\ turn' = 0
    \/ \E i \in DOMAIN co :
         /\ Scheduled(i) /\ turn' = i
         /\ \/ StepList(i) \/ RunStage(i) \/ Received(i) \/ AwaitTask(i) \/ Resolve(i) \/ Abandon(i)
            \/ TaskBoundary(i) \/ Exclusive(i) \/ Call(i) \/ EndCall(i) \/ CallBoundary(i)
            \/ ErrorBoundary(i) \/ WindDown(i)

Activity == Outside /\ (Redirected \/ \E i \in DOMAIN co : CreateTask(i))

Timeout == Outside /\ \E i \in DOMAIN co : WindTimeout(i)

Arrival ==
    /\ Outside
    /\ \/ \E i \in DOMAIN co :
            \/ \E r \in plan.returns : TaskResult(i, r)
            \/ \E j \in DOMAIN co[i].bnds : TimerFires(i, j)
       \/ \E key \in DOMAIN msg.ext : ExternalAnswer(key)
       \/ \E d \in DOMAIN plan.depts : ForceForward(d)
       \/ ForceBack \/ CancelInstance

Next == CoroutineStep \/ Activity \/ Timeout \/ Arrival

Spec == Init /\ [][Next]_vars

\* The SDK runs a coroutine that is not blocked, an activity is retried until
\* it answers, and a timer of thirty seconds fires.
FairSpec ==
    Spec /\ WF_vars(CoroutineStep) /\ WF_vars(Activity) /\ WF_vars(Timeout)

(***************************************************************************)
(* Properties.                                                             *)
(***************************************************************************)
Nodes == {node \in (DOMAIN plan.depts) \X Nat : node[2] \in 1..Len(plan.depts[node[1]])}

Waiters == (DOMAIN co) \X Nat \X Nat

Hosts == (DOMAIN plan.depts \cup STRING \cup {None}) \X Nat

\* What todo holds: steps, and departments and gateways that were begun.
Items ==
         Steps(plan, 0..MaxCycles)
    \cup [k: {"dept"}, d: DOMAIN plan.depts, at: Nat \ {0}]
    \cup [k: {"ret"}, saved: Results \cup {None}]

Coroutines ==
    [st: {"run", "create", "task", "hosttask", "receive", "call", "wind", "host", "over"},
     todo: Seq(Items), res: Results \cup {None}, under: SUBSET Nat, errs: Seq(ErrorPaths(plan)),
     n: Nat, host: Hosts, bnds: Seq(Paths(plan)),
     got: Results \cup Codes \cup {None, "created", "timeout"}, child: Nat, fired: Nat,
     out: Codes \cup {None, "ok", "abandoned", "error"}, raised: BOOLEAN]

\* What belongs together in coroutine c, the i-th of so many: it waits at a node
\* of the plan, its body is younger, the boundary that fired and the error path
\* are there, and it has an outcome once it is over.
CoroutineOK(c, i, many) ==
    /\ c.under \subseteq 1..many
    /\ c.st \in {"create", "task", "hosttask", "receive"} => c.host \in Nodes
    /\ c.st \in {"call", "wind", "host"} => c.child \in (i + 1)..many
    /\ c.st = "wind" => c.fired \in DOMAIN c.bnds
    /\ c.raised => MatchErrorPath(c.errs, c.out) \in DOMAIN c.errs
    /\ (c.st = "over") <=> (c.out # None)

MessagesOK(m, nodes, hosts, waiters) ==
    /\ m = [buf |-> m.buf, blocked |-> m.blocked, box |-> m.box, ext |-> m.ext]
    /\ m.buf \in Seq(nodes) /\ m.blocked \in Seq(waiters) /\ m.box \subseteq waiters
    /\ m.ext = [k \in DOMAIN m.ext |-> m.ext[k]]
    /\ \A k \in DOMAIN m.ext : k \in [host: hosts, bnd: Nat] /\ m.ext[k] \in waiters

\* Every coroutine, channel and node is what the interpreter can hold; a
\* gateway goes round at most MaxCycles times and a body is younger than its
\* sub-workflow.
TypeOK ==
    /\ plan \in Plans
    /\ co \in Seq(Coroutines) /\ \A i \in DOMAIN co : CoroutineOK(co[i], i, Len(co))
    /\ turn \in 0..Len(co) /\ cancelled \subseteq DOMAIN co
    /\ hist \in Seq(Nodes) /\ MessagesOK(msg, Nodes, Hosts, Waiters)
    /\ root \in [op: {"run", "redirect", "over"}, run: DOMAIN co, steps: Seq(Steps(plan, {0}))]
    /\ status \in {"RUNNING", "COMPLETED", "FAILED", "TERMINATED"}
    /\ panicked \in BOOLEAN /\ left \in 0..plan.routes

\* A send that waits in the buffer is one the history still has: reverts and
\* forced routes that take the node back take its message back
\* (ResetSpan, message_buffer.go:57, after PopTo and PopOne).
BufferedSendsAreInHistory == ToSet(msg.buf) \subseteq ToSet(hist)

\* Coroutine i waits at channel j, for a message or for an answer from outside.
ListensTo(i, j, kind) ==
    IF j = 0
    THEN /\ co[i].st = "receive"
         /\ plan.depts[co[i].host[1]][co[i].host[2]].k = IF kind = "message" THEN "receive" ELSE kind
    ELSE co[i].st \in {"task", "call"} /\ j \in OfKind(co[i].bnds, kind)

\* A wait that still counts: of a coroutine that goes on, and not yet answered.
LiveWait(i, j, kind) == ListensTo(i, j, kind) /\ ~Cancelled(i) /\ Waiter(i, j) \notin msg.box

\* A receive or boundary that still counts can be reached: its channel is in
\* the queue of its message, and an answer for its key goes to it and not to a
\* wait some cancelled run left under the same key, nor is the key forgotten
\* when that one is cleaned up (waitChannel, waitExternal, external.go:38).
LiveWaitsAreReachable ==
    \A i \in DOMAIN co : \A j \in 0..Len(co[i].bnds) :
        /\ LiveWait(i, j, "message") => Waiter(i, j) \in ToSet(msg.blocked)
        /\ LiveWait(i, j, "external") =>
             LET key == Key(co[i].host, j) IN key \in DOMAIN msg.ext /\ msg.ext[key] = Waiter(i, j)

\* Coroutine x begins to wait under the key of a wait of i that still counts.
TakesKey(x, i) ==
    \E y \in 0..Len(co'[x].bnds), j \in 0..Len(co[i].bnds) :
        /\ co'[x].n # co[x].n /\ ListensTo(x, y, "external")'
        /\ LiveWait(i, j, "external") /\ Key(co'[x].host, y) = Key(co[i].host, j)

\* No two coroutines come to wait under one key: the code keeps one waiter per
\* key, so it is for the plan to see to it (waitExternal, external.go:34).
KeysApart == [][\A x, i \in DOMAIN co : x # i => ~TakesKey(x, i)]_vars

\* The body is awaited, ended by itself, or ended its sub-workflow with its error.
Attached(o) ==
    \/ o = root.run \/ co[o].out = "ok"
    \/ \E p \in DOMAIN co :
         /\ co[p].child = o
         /\ co[p].st = "over" => co[p].out = co[o].out
         /\ co[p].st \in {"call", "host", "over"}

\* A task is completed only where the plan still is: in the current run, and in
\* bodies no boundary has interrupted.  Nothing an interrupted host or a routed
\* run would have gone on to is done (cancelChild, subworkflow.go:51; cancelRun,
\* workflow.go:115).
LeftWorkStops ==
    [][\A i \in DOMAIN co :
         co[i].st \in {"task", "hosttask"} /\ co'[i].st = "run" /\ hist' # hist
            => \A o \in co[i].under : Attached(o)]_vars

\* A sub-workflow whose body is over, or which was interrupted, goes on: with
\* the plan, with the path, or with the error of the body (runSubWorkflow,
\* awaitWindDown).  A body that raises after a non-interrupting boundary fired
\* leaves its sub-workflow in "host", which this does not speak of.
CallEnds ==
    \A i \in 1..MaxCo :
        (/\ i \in DOMAIN co /\ root.op # "over"
         /\ \/ co[i].st = "wind"
            \/ co[i].st = "call" /\ co[co[i].child].st = "over")
            ~> (i \in DOMAIN co => co[i].st \notin {"call", "wind"}) \/ panicked \/ root.op = "over"

(***************************************************************************)
(* What the documentation says and the code does not do.                   *)
(***************************************************************************)
\* A forced route, a cancel or an interruption from outside ends a sub-workflow
\* that has a timer (runSubWorkflow, subworkflow.go:50).
NoPanic == ~panicked

=============================================================================
