# A TLA+ model of the workflow execution service

The service runs compiled workflow plans. Each instance is one Temporal workflow
(`internal/workflow`) that walks its plan, creates tasks for people and connectors,
waits for their results and reacts to signals of administrators, tenants and
reconcilers. HTTP handlers and services (`internal/core/service`) check a request
against PostgreSQL and forward it as a signal or an update; activities
(`internal/adapter/outbound/temporal`) write the rows back. This directory models
the parts where those three clocks (the workflow's coroutines, the activities'
commits and the callers) can disagree.

Paths below are relative to `src/`; "LLD" is `docs/lld/execution_service.md`.

## Inventory

| Component | State | Operations | Talks to | What is hard | What makes it correct |
|---|---|---|---|---|---|
| Signal router (`workflow/signals.go`) | status, pause and its initiator, held results, results nobody waits for yet | pause, resume, cancel, forced routes, results, reassignments, defer update | every stage and gateway through channels; status activities | one coroutine that blocks in activities and sends; pauses taken while a gateway is degraded | a pause ends only through its owner or the administrator; a signal that was accepted is carried out |
| Parallel gateways (`workflow/degraded.go`) | branches, failed branches, parks, respawned branches | join, park, force-forward, force-back, cancel, sever | router, branches, status activities | parks of nested gateways that open, close and write at once | the instance completes only when joined; DEGRADED while a park is open; parks end |
| Task stages (`workflow/stage.go`, `temporal/task.go`, `assignment.go`, `audit.go`) | visit count, channel, task row, assignments | create, register, complete, close, supersede, defer, reassign | router, task API, top-level loop | activities left behind by a cancelled context; a row per visit; version checks | a result stays with its visit; a waiting stage has a task someone can act on; closed work is nobody's |
| Top-level loop (`workflow/workflow.go`, `history.go`) | steps, history, routing flag | run, forced route, cancel | stages, router | the route arrives at any point of a stage | the step that is left is closed |
| Exclusive gateways, redirects (`workflow/exclusive.go`, `dispatch.go`) | revert counters, the rest of the plan | choose, revert, redirect | loop, history | nested plans, a bound on reverts | a revert takes back what the reverted nodes did; a redirect continues at the named department |
| Sub-workflows, boundaries, SLA (`workflow/subworkflow.go`, `boundary.go`, `sla.go`) | body and boundaries of a call, timers, the wind-down | start, interrupt, fire | stages | a timer against a result, coroutines that see a cancellation late | what was interrupted does no more work; a call whose body is over goes on |
| Messages, external waits (`workflow/message_buffer.go`, `external.go`) | buffered messages, waiters, waiting keys | send, receive, answer, reset | stages | waiters whose coroutine is gone, two runs under one key | a live wait can be reached; no wait beside a buffered message |
| Instance start and end (`service/instance_service*.go`, `tenant_gate.go`) | instance row, execution and its run id | start, resume a start, terminate | Temporal, PostgreSQL | a crash between row and execution; start against terminate; keys used again | a committed row is launched; a terminated one leaves no execution |
| HTTP idempotency (`http/handler/idempotency.go`) | claim or answer of a key, with expiry | claim, store, replay | handlers, Valkey | a lost answer, a dead holder, a failing cache | a start sent again is answered with the same instance |
| Task API (`service/task_service.go`) | none of its own | claim, complete, defer, reassign | rows, signals | the check and the signal are two steps | stale calls are refused |
| Connector tasks (`service/connector_task_service.go`, `cmd/connector-worker`) | stream entries, lease, outcome, reservation | dispatch, heartbeat, run, callback, dead letter | Valkey, router | redelivery, expiry against a slow call, crashes | a connector runs again only if its outcome was lost; every entry leaves the stream |
| Delegation, availability, safety nets (`service/delegation_reconciler.go`, `ooo_availability_reconciler.go`, `workflow_client.go`, `user_*`) | assignments with a delegation's tag, availability, pauses | hand over, give back, pause, resume, vacate | task rows, router, lock | rows read before a lock, events out of order, half-done reversals | work stays held; an absent user's work waits, a present one's runs |
| Tenant lifecycle (`service/tenant_*`) | tenant status, ledger, queue registry | suspend, resume, offboard, return, purge | router, rows, starts | a tenant that returns during a purge, a start that crosses an offboarding | the newest status wins; a returned tenant is not purged |
| Event ingestion (`http/handler/internal_events*.go`, `recency_guard_repo.go`, `inbox.go`) | inbox, recency timestamps, advisory locks | consume | reconcilers | redelivery, reordering, failure between effect and record | an older event does not undo a newer one; every event settles |

`PROJECT.json` lists every component with its status, and under `hazards` the
places where each is hard to test.

## Modules

| Module | Models | Extended by |
|---|---|---|
| `InstanceStatus` | what those who pause an instance may rely on: status, owner of the pause, who lifted it | refined by `InstanceLifecycle` |
| `InstanceLifecycle` | router, parallel gateways with parks, status activities and the instance row | `MCInstanceLifecycle`, `InstanceLifecycleProofs` |
| `TaskStage` | one human task node between two other steps: top-level loop, stage, router, task rows, task API, cancel and terminate | `MCTaskStage`, `TaskStageProofs` |
| `PlanRun` | the interpreter on whole plans: coroutines, exclusive gateways, messages, outside waits, boundaries, sub-workflows, history | `MCPlanRun`, `PlanRunProofs` |
| `PlanRoutes` | what is read off a plan: where a forced route re-enters it, its lists of steps | `MCPlanRun` |
| `InstanceStart` | starting and terminating instances whose keys are used again | `MCInstanceStart`, `IdempotentStart`, `TenantLifecycle`, `InstanceStartProofs` |
| `IdempotentStart` | starts behind the Idempotency-Key middleware | `MCIdempotentStart`, `IdempotentStartProofs` |
| `TenantLifecycle` | events about a tenant, purge and queue registry, composed with the starts | `MCTenantLifecycle`, `TenantLifecycleProofs` |
| `Delegation` | events about a user and what they do to assignments and pauses | `MCDelegation`, `DelegationProofs` |
| `ConnectorDispatch` | a connector task's job: stream, workers, lease, outcome, callback | `MCConnectorDispatch`, `ConnectorDispatchProofs` |

### InstanceLifecycle

The plan is one parallel step `Outer` whose branches are tasks or inner parallel
steps. The interpreter's fields keep their meaning: `status`, `pausedBy`
(`pauseInitiator`), `pauseHeld`, `keepsPause` (`degradedKeepsPause`), `parks`,
`held` (`heldResults`). A gateway's coroutine is `gpc[g]`: joining, recording a
route, writing DEGRADED, parked, writing RUNNING, leaving PAUSED, done. A status
activity is `act[p]` for the coroutine `p` that scheduled it: `CommitWrite(p)`
commits it (again, when an answer was lost) and the coroutine goes on only after a
commit. One action stands for what a coroutine does between two points at which it
can block, because the Temporal dispatcher runs one coroutine at a time.

Abstractions: a task is waiting, completed, failed or bypassed (its row is
`TaskStage`'s subject). Which of several gateways waiting on the shared admin
channel receives a message is a free choice. Status writes never fail for good.
A ninth message in a channel of capacity eight is not sent. The fork has no entry
node, so a force-back that reaches a joining gateway finds nothing to rerun.
Attempts of a severed gateway do not commit late. Every change id of `version.go`
is at its newest version.

### TaskStage

The node is visited up to `MaxVisits` times; `task[v]` is the row of visit `v` with
its status, record version and assignments in order of creation. `pc` is where the
run coroutine is: at the step before (`away`), in `CreateTask`, in
`UpdateInstanceNodes` (`recording`), `waiting` on its channel, in
`CompleteAssignment`, in `UpdateTaskStatus` (`marking`), at the step after
(`past`), or `gone` once its context was cancelled. `main` is the top-level loop,
`router` the router, and `att` the set of activity attempts that may still commit:
an attempt commits and answers, commits with its answer lost and is run again, or
commits when nobody waits for it any more. `CreateTask` reads the instance and
writes in two steps, because its transaction is read committed and takes no lock
on the instance; the other transactions compare the record version they read and
are one step.

A send blocked on the stage's channel goes through in the step that receives from
it, as in the Temporal SDK. A stage that finds both a result and its cancelled
context takes the result first, as its selector does. Only READY is ever written
for an open task; IN_PROGRESS is in the guards because it is in the code's.

Abstractions: no pause and no gateway (see `InstanceLifecycle`); connector tasks,
SLA timers and boundaries are not modelled; eligibility always passes; the version
of the instance row, which administrative calls must name, is not tracked; results
carry their user, visit and version and no content. Events in the outbox are
written in the transactions that are modelled and have no effect here.

### PlanRun

Every `wf.Go` is an entry of `co`: a run of the top-level steps, the body of a
sub-workflow, the path of a non-interrupting boundary. `turn` goes through them in
the order of their creation, each runs until it blocks, and an event from outside
(a result, a timer, an answer, a forced route, a cancel) arrives when all are
blocked; that is how the SDK's dispatcher runs a workflow task. `msg` holds the
buffered messages, the queue of waiters and the waits registered for outside
answers, `hist` the node history, `root` the top-level loop.

A plan nests to any depth, so what walks it is recursive. Those operators are in
`PlanRoutes`, and `PlanRun` takes them as the constants `Redirects` (`redirectSteps` of
`workflow.go`: where a forced route re-enters a plan) and `Lists` (the lists of steps of
a plan, at any depth); the configurations set them to `RedirectSteps` and `StepLists`.
Of `Redirects` the module assumes only that it yields steps of the plan
(`PlanAssumption`), and `PlanRunProofs` can prove about it.

Abstractions: no parallel gateways and no pauses (see `InstanceLifecycle`), one
message name, a condition reads the result of the last task, no variables and no
I/O mapping, no SLA timers. `CreateTask` takes time, the other activities answer at
once. Events that arrive in one workflow task are one of their orders.

### InstanceStart and IdempotentStart

A key is a subject with a business key. `row` is `workflow_instance`, `runs` the
executions, oldest first; the workflow id is the key, so executions of several
instances follow each other under it, and `StartWorkflow` returns the one that is
open. A start goes through the gate, the look for a match, the insert under the
partial unique index, up to `startWorkflowMaxAttempts` attempts to launch, the
record of the run id and the check whether it was terminated meanwhile. Which queue the
instance runs on is read before the transaction that writes the row; a terminate
closes the execution, writes the row and closes once more. Every call may fail, with
its effect or without it, and a process may die between any two steps.

`IdempotentStart` puts the middleware around the start handler: `entry` is the cache
entry of the clients' key, `phase` where each request is. The claim is one call and
the look-up another, the answer is kept in a third, and each may fail. An entry does
not expire under a running handler (its TTL is a day). Two starters are one client's
attempts over two connections.

Abstractions: what a start asks for is one value; the eligibility checks and the
plan are one refusal; the events written with the row have no effect here.

### TenantLifecycle

`TenantStateChanged` runs under the advisory lock of its tenant and behind the
recency guard, from which offboarding is exempt; `TenantMembershipsPurged` has
neither. A delivery records the status, the ledger, sweeps the instances (one signal
or one termination at a time, on the list it read), changes the queue registry and
commits its timestamp. The purgers of the replicas list what is due, delete in
batches against the ledger version they read and mark the tenant as purged. A batch is
one transaction, which keeps the row of the ledger locked from its first statement on,
but each of its statements sees what is committed by then: it goes through the instances,
the queue and the guards (`PurgeBatch`, `PurgeInstances`, `PurgeQueues`, `PurgeGuards`)
and ends with the first table of which it deletes something.

Abstractions: the retention period has passed when a purger looks, and outlasts every
request that was under way; a sweep works on one instance at a time, and so does a batch;
the tables of a tenant without a part here are left out of it; the histories of events
are those of `MCTenantLifecycle`.

### Delegation

`rows[t]` are the assignment rows of a task, `inst` whether the workflow is paused
and by whom and what the row says, `avail` the recorded availability of the
delegator, `lock` and `guard` its scope. A delivery reads rows, takes the lock,
signals, commits and is marked in separate steps, each of which may fail; two
deliveries of one event may overlap. The calls of Definition Service
(`ReassignDelegate`, `CancelByDelegate`, `PauseUserTasks`) run beside them row by row, on
the rows of a delegation or, when they name none, on all of the delegate. The tasks
`Joint` (assignee mode `all`) can be claimed meanwhile: `lead` are the rows with the lead
flag, `led` those a delivery or the call read with it, `claim` the row a claim has checked
and is about to write. A new row has the flag as it was read, not as it is.

Abstractions: one delegator, one delegate and a bystander; tasks do not close
meanwhile; of the claims that read one version of a task only one is kept, because the
write of a second finds the version changed; whom a scope covers and who is eligible are
sets of tasks. The end of a delegation is one event with a reason.

### ConnectorDispatch

`entry` is the stream entry with its delivery count, `job` the goroutine of an entry
in a worker, `lease`, `outcome` and `reserved` the three Valkey keys, `call` the
callback inside the service. Workers read new entries, reclaim idle ones, wait for
the pool of their type, run under the lease with heartbeats and retries, record,
report and acknowledge; they drain, crash and restart. The reservation and the lease
expire, the lease also under a run: its span is the time limit of a run and ten seconds
more, but the limit only cancels the context of the run, and nothing limits the reads and
writes around it (`cmd/connector-worker/heartbeat.go` 42-52 stops the heartbeat of such a
run). That counts as a fault, and `outlived` counts such runs.

Abstractions: a connector's result is one of two verdicts; secrets, aliases and
documents are part of the run; backoff is not timed.

## Runs

All configurations say `CHECK_DEADLOCK FALSE`: an instance that waits for people
may wait for ever, and the other models stop when everything has been handled.

| Run | Instance | Distinct states | Shows |
|---|---|---|---|
| `LifecycleFlat` | one gateway, two tasks, two initiators, four signals, a cancel, fair | 709,578 | pause ownership through parks, the stored status against the interpreter's, held results, that it implements `InstanceStatus`, and that a park with nothing left to resolve ends |
| `LifecycleNested` | an outer gateway over two inner ones, two signals, a cancel | 578,760 | with two parks open at once: the instance is degraded while one is open, the last one writes RUNNING, and it completes only when every branch is joined |
| `TaskCalls` | one or two default assignees of three users, two visits; two results, a defer, a forced route each way and a cancel, or two reassignments, two results and a cancel, or two claims, a reassignment, a result, a defer and a termination | 1,313,205 | late results stay with their visit; a waiting stage has a task someone can act on; at most one assignee in mode `single`; claims are not stolen; a reassignment hands the lead over |
| `Routing` | six plans, up to two forced routes, a cancel, fair | 127,833 | messages go back with their senders, live waits are reachable and have their keys for themselves, interrupted work stops, calls end |
| `Start` | two starts under one idempotency key, one terminate, two instances, two faults, fair | 954,890 | one instance per key; no execution of a terminated instance; the recorded run is the instance's own; a committed row is launched |
| `Tenant` | one start, two instances, two events in four histories, two purgers, one fault | 2,823,774 | the newest status wins; offboarding leaves nothing; a returned tenant is spared; a tenant marked as purged has nothing left |
| `Delegation` | two tasks, two instances, eight scenarios of up to four deliveries and a call, claims of one task, one fault, fair | 778,862 | work stays held and a claim moves with it; an absent user's work waits, a present one's runs; an ended delegation holds nothing; every event settles |
| `Dispatch` | one task and entry, two workers, a pool configured as zero, two attempts, two deliveries, two faults, fair | 564,386 | a connector runs again only when its outcome was lost or a run outlived its lease; otherwise one verdict; one signal; acknowledged means settled; every entry leaves the stream |

Each module states the shape of its variables in a `TypeOK`, and each is proved; TLC
checked them before, and the configurations leave them out.

Bounds. Two branches are the least for which one can fail while the other runs, two
inner gateways the least for two parks, two initiators the least for a pause of
somebody else. Four signals hold a pause, its lifting, a second pause and a route.
`MaxMail` is one because a park takes messages one at a time and a second message
only repeats the first. Two visits are the least for a result to meet the wrong
one; two claims or two reassignments the least that can cross; a second result is the
least that can come too late. Each call from outside has a budget of its own, given in
`MCTaskStage`. The plans of `Routing` each combine one group of features: a
non-interrupting timer whose path sends what a receive waits for, reverts to a stage
and to a department, a call with message, outside and error boundaries, nested calls
with an interrupting timer, and a path beside a task whose call fails while a path of
its body goes on; two cycles are the least that tell the bound on reverts
from none. Two starts and two instances are the least for a key to be used again;
two faults let a request fail and its retry fail too, or let the cache fail for one
attempt and the process die in the next. Four deliveries hold an absence, a
delegation, its end and a return, or two deliveries of one of them. Two workers are
the least for a reclaim to meet the one that still runs. A pool of size zero is
what a configuration can ask for and `buildPools` must correct.

Premises. `crossed` (a park opened while another one was writing RUNNING), `overlap`
(two status writes were in flight at once) and `stray` (a cancel ended a gateway
below `Outer`, or one was severed) are history variables of `InstanceLifecycle`.
`PauseOwnership`, `DegradedWhileParked`, `LastParkWritesRunning`,
`StoredStatusFollows` and `CompletesWhenJoined` are stated up to those events because
the code does not keep them after. The other modules do the same with what the code
leaves open, each in a history variable of its own: `missed` (a best-effort close or
record failed), `shared` (the key was still in use), `late` (a start had passed the
gate; a reroute committed after the reversal read), `unclaimed` (a row written while
the cache failed), `unreached` and `unsignalled` (a signal found no execution, or
failed and was only logged), `unseen` (a resume skipped because of an older read),
`skipped`, `unheld`, `crossed` of `Delegation` (the last claim was of a row that was
being moved), `uncommitted`, `gaveWay` and `refused`; `lost` and `outlived` count the runs
of a connector that pay for another one. `KeysApart` of `PlanRun` is
not a history but a property of its own: `externalWaiting` has one waiter per key, so two
coroutines that come to wait under one key overwrite each other, and nothing in the
interpreter prevents it. The plans of `Routing` have it because an interruption and a
forced route cancel the wait they leave before anyone waits under its key again. The section on
disagreements says what happens then.

Fairness. Temporal retries an activity until it answers (`MaximumAttempts: 0` in
`workflow/activities.go`) and runs every coroutine that can go on, so commits,
answers and coroutine steps are weakly fair. A request runs on; a client sends again
what failed; an idempotency entry, a lease and an idle time expire; a connector ends in
the end, because its context has a time limit; SQS delivers an
event again until it was answered; a worker that stopped is restarted and reads its
stream. A reclaim is strongly fair, because an entry may be touched or taken by
another worker again and again but every worker reclaims on a timer. Nobody has to
send a signal, complete a task, answer a park or terminate an instance.

## Disagreements between the documents and the code

Each of these runs checks one sentence of the LLD and finds a behaviour of the code
that breaks it.

| Run | Sentence | What happens |
|---|---|---|
| `FindBlockedRouter` | LLD 364: a cancel marks the active tasks FAILED, then the instance exits | while a stage writes a first result a second one fills its channel and the router blocks in `ch.Send` (`workflow/signals.go` 210) with a third; the stage goes on without reading the channel again, and the cancel behind it is never routed |
| `FindReuse` | LLD 2657: a close issued after the key was reused cannot end the newer execution | a start whose instance was terminated before its `StartWorkflow` arrived is given the newer instance's run; `afterWorkflowStarted` (`service/instance_service.go` 263) then closes exactly that one |
| `FindCoAssignee` | LLD 408: a delegate's own assignment stands and inherits the claim | `Create` (`service/delegation_reconciler.go` 157) fails on the unique index, which aborts the transaction `adoptExistingAssignment` goes on in; the event fails on every redelivery |
| `FindCancelledTimer` | LLD 231 and 324: `Select` returns when one case fired; after a forced route the interpreter re-enters at the popped node | cancelling the run makes the timer future of a sub-workflow boundary ready with an error, no case sets anything, and `fired.Interrupting` (`workflow/subworkflow.go` 50) dereferences nil |

The modules state further sentences of the LLD that do not hold either. TLC refutes
them on instances of this size when they are added to a configuration; they are not
among the runs:

- `HeldResultsHaveAPause` with nested gateways (LLD 887): a pause taken before a park
  is lifted during it; `recordHeldPause` (`workflow/signals.go` 341) releases nothing;
- `CancelExitsInstance` (LLD 453): the park of an inner gateway takes the cancel, the
  outer one sees a completed branch (`workflow/degraded.go` 64) and the workflow runs
  on with its row TERMINATED;
- `StaleCompletionRefused` (LLD 1245): `CompleteAssignment` accepts the result of a
  user who was reassigned (`temporal/assignment.go` 101);
- `ForceRouteClosesTask` (LLD 326): a route that arrives after `CreateTask` and before
  the stage registers leaves the row open;
- `EndedInstanceHasNoOpenTask` (LLD 381): `CreateTask` read the instance before the
  termination and inserts after it;
- `OnlyLastParkEndsDegraded` and `PauseNeverLost` (LLD 1350, 2658): a park that
  opens while another one writes RUNNING is open when that write ends DEGRADED, and
  a pause taken in between may be reset (`workflow/degraded.go` 284-296);
- `StoredStatusStaysDegraded` (LLD 1348): a pause or resume write in flight when a
  park opens may commit after the write of DEGRADED;
- `CancelEndsParks` (LLD 1350): a cancel put in the channel of a park that has left
  its loop is never read;
- `EveryAssigneeActs` (LLD 2500): the lead's result moves a task of mode `all` on
  while the other assignments are active;
- `ClosedTaskStaysClosed` (LLD 511): a defer accepted before a route superseded its
  task writes DEFERRED over SUPERSEDED, and its force-back undoes the route;
- `AckedIsDelivered` (LLD 887, 2611): a callback that dies between its reservation and
  its signal makes the next one answer as done (`service/connector_task_service.go`
  188); the entry is acknowledged and the task waits;
- `ExecutedOnce` (LLD 2074): an attempt to launch whose answer was lost may have
  started an execution that completes before the retry, which starts another;
- `QueueOutlivesInstances` (LLD 418, 713): a second replica that finds its chosen row
  deleted by the first goes on to the queue of the tenant while other rows are left, and
  a start that has read the queue (`service/instance_service.go` 109) writes its row
  after a purge has deleted it;
- `ClaimedStaysClaimed` (LLD 406): a claim between the read of a reroute and its commit
  marks a row that is then vacated, and the new row has the flag as it was read
  (`service/delegation_reconciler.go` 155): the task is claimed by nobody;
- `AvailableEndsThePause` (LLD 1334, 1376): an instance whose work was delegated away
  while it was paused is not among the delegator's instances when the delegator
  returns (`service/ooo_availability_reconciler.go` 58).

Other behaviours met while modelling, for a reader of the code:

- a start that matches an instance between its COMPLETED row and the return of its
  execution is given the old run and is never executed (`shared` in `InstanceStart`);
- the middleware answers 409 when the look-up of a taken key fails, where LLD 1141
  says that a lookup fails open; a request that died holds its key for the whole TTL;
  and a row written while the cache failed may be left without an execution, because
  the retry is answered from the cache (`unclaimed` in `IdempotentStart`);
- a second close of a swept instance names the run the sweep had listed;
- `CreateTask` takes a primary key violation for its own earlier attempt
  (`temporal/task.go` 86), inside the transaction the violation has aborted: an attempt
  whose answer was lost is made again until the instance ends, and the stage never registers;
- a start that passed the gate before the tenant was offboarded and writes its row after
  it is ended by nobody (`late` in `InstanceStart`), and an offboarding applied after a
  later return ends instances of a tenant that is back;
- `ReassignDelegate` vacates a row and creates the next one in two transactions: when the
  second fails, which is only logged, the task has nobody (`unheld` in `Delegation`);
- a `TenantStateChanged` that only changes the plan records no return and resumes
  nothing (`Apply` compares `Status` with `PreviousStatus`), but its time goes into the
  recency guard. When it overtakes the event that brought the tenant back, that one is
  skipped: the status says active, the ledger still says offboarded and the purge goes
  on; after a suspension the instances stay paused (`Overtaken` in `TenantLifecycle`, and
  the premise `changed` of `NewestStatusWins`);
- a `DelegationStarted` handled after its `DelegationEnded` leaves the work with the
  delegate; two deliveries of it with the reversal in between leave a task with two
  assignees; `ReassignDelegate` keeps the tag, but a reversal looks only at the rows
  of the delegate its event names;
- a message handed to a receive whose run was cancelled is lost (LLD 259); a call
  whose body raises after a non-interrupting boundary fired never ends (LLD 230); a
  force-back with an empty history is logged as dropped and restarts the run all the
  same; a redirect into a terminating branch runs on past its end; two coroutines
  that wait under one outside key overwrite each other.

## Proofs

`InstanceLifecycleProofs` proves for every plan of this shape (any set of gateways,
branches and initiators, any bound on signals and mail), from the assumptions
`GatewayAssumption`, `InitiatorAssumption`, `NoneAssumption`, `ProcessAssumption`
and `BoundAssumption` of `InstanceLifecycle`:

- `TypeCorrect`: `Spec => []TypeOK`. `TypeOK` is not inductive: a gateway that
  records a route resolves the branch `aim[g]`, which has to be one of its own. The
  proof carries `TypeInv`, which adds that (`AimOK`).
- `PauseFollowsStatusHolds`: the interpreter is PAUSED only with a pause and RUNNING
  only without one. Inductive together with `TypeInv`.
- `LastParkWritesRunningHolds`: a gateway in its park has it open and, until two
  parks cross, only the last one writes RUNNING and will look for a held pause. The
  lemmas `ParksWithoutType`, `ParksClosed` and `ParksOpened` say what closing and
  opening do to the sequence of parks.
- `PauseOwnershipHolds`: the action property, from `PauseInvariant` (the three above
  together). The one step that could drop a pause is `RunningReturns`, and there
  `LastParkWritesRunning` gives that the gateway looks at it.
- `Refinement`: with one gateway, `Spec => ImplementsInstanceStatus`. Lemma
  `AbsStep` maps every action to a step of `InstanceStatus` or to none; it needs
  `PauseInvariant` and that the only gateway is done exactly when the run is over
  (`AliveOK`). With two gateways it is false, as `PauseNeverLost` shows.

Its second half is about the join, with the same assumptions. It uses one more part
of `GatewayAssumption`, that a leaf is no gateway: a branch is a task step or a parallel
step, never both.

- `DegradedWhileParkedHolds`, from `DegradedInv`: until two parks cross or a gateway is
  ended from outside, the status is DEGRADED exactly while the list of parks is not
  empty, and only a park keeps a pause for later (`KeepsOnlyParked`).
- `CompletesWhenJoinedHolds`, from `JoinInv`: a gateway that leaves its park or is done
  has every branch resolved and none failed or to be started again, and the branch of a
  resolved leaf is completed, bypassed, failed or started again. A run that completes
  has this of `Outer` (`Clean`), so of every inner gateway, which is a branch of `Outer`.
- `StoredStatusFollowsHolds`, from `ParkListInv`, `MailInv` and `WriteInv`: who has a
  write in flight is told by its state (`WritesByState`), and while writes never
  overlapped, what is stored is the status or the one write in flight brings it
  (`Written`). The write to be afraid of is that of a gateway that was ended: the list of
  parks names a gateway once, and only one with every branch resolved, so `Outer` parks
  alone (`OuterParksAlone`) and no terminate gets into its mail. A park that opens under
  another's write of RUNNING is an overlap, so `crossed` needs no premise of its own.
- `HeldResultsHaveAPauseHolds`, for one gateway, from `HeldInv`: a failed branch has no
  result held for it, so one started again has none; and while the gateway is in its
  park no branch has both an open task and a result held for it.

`ConnectorDispatchProofs` proves for any tasks, workers, attempts, deliveries and
faults and any finite set of entries, from `DispatchAssumption` of
`ConnectorDispatch`:

- `DispatchTypeCorrect`: `Spec => []TypeOK`. What is recorded and signalled is what a
  job carried there, so the proof needs `VerdictsCarried`: a job that has run and a
  request under way have a verdict. `TypeInv` is both.
- `RunsOnceUnlessLostHolds`, from `RunInv`: an entry nobody was given has no job
  (`UndeliveredUnclaimed`); as long as no run of a task outlived its lease, a run is under
  it (`RunsUnderLease`) and nothing is recorded meanwhile (`RunsUnrecorded`); and a run
  that is neither recorded nor under the lease was counted, as lost or as one that
  outlived its lease (`RunsAccounted`). No assumption is made on how long a run takes.
- `SignalledOnceHolds`, from `ReservationGuards`: until the reservation gives way, at
  most one request is between it and its signal.
- `AckedMeansSettledHolds`, from `AcksAnswered`: a job goes on to acknowledge only
  after an answer that means so. Lemma `SettledStays`: a settled task stays settled.
- `OneVerdictHolds`, from `VerdictsAgree`: every job and request of a task with no lost
  outcome and no run that outlived its lease carries the recorded verdict, or the failure that an unknown
  connector type is answered with. Inductive together with `RunInv`.

TLC checked these invariants before they were proved, with one entry and two faults
and with two entries and one fault (2,349,624 states).

`InstanceStartProofs` and `IdempotentStartProofs` prove for any starters, closers,
keys, instances, attempts and faults, from `StartAssumption` of `InstanceStart`:

- `StartTypeCorrect`: `Spec => []TypeOK`, by `StartInv` below and `MiddlewareOK` (what
  the cache holds and what a request was answered with names an instance).
- `OneAtATime`: a key has at most one live row (the unique index) and at most one open
  execution (the workflow id). The two do not follow each other: a live row may face the
  execution of a dead one, which is why the next layer needs `shared`.
- `RecordedRunIsItsOwnHolds`, from `OwnKeys`: unless the key was still in use, all that
  is under way for the key of a live instance belongs to it: every start that launches,
  every terminate, the open execution, the run on its row.
- `TerminatedLeavesNoRunHolds`, from `ClosesCovered`: the open execution of a TERMINATED
  row is the one that a start is about to check or a terminate is about to close again.
  When the row becomes TERMINATED, `OwnKeys` says whose these are.
- `OneInstancePerKeyHolds`, from `ServedOnce` and `OutsideRests`: one request holds the
  claim, nothing is answered while it does, and what was answered is what is kept. A
  request that is not with the handler has no step of a start to take.

`StartInv` is a fact about `InstanceStart` alone, so `TenantLifecycleProofs` uses its
first layer (`StartTypeOK`, `KeysAgree`) again for the starts it is composed with.

`TaskStageProofs` proves for any users, default assignees, modes, visits and budgets,
from `UsersAssumption`, `TeamsAssumption`, `VisitsAssumption` and `BudgetAssumption`
of `TaskStage`:

- `TaskTypeCorrect`: `Spec => []TypeOK`, with the channel within its capacity.
- `ResultOfItsVisitHolds`, from `OwnResults`: the channel, the result being applied and
  the buffer hold results of their visit; a redirect drops the channel with its stage.
- `SingleHasOneAssigneeHolds`, from `OneActive` and `Guarded`: a reassignment whose
  version is still current read the row as it is, so the row it vacates is the only
  active one. Every write to a row raises its version (`RowStep`).
- `ClaimSurvivesHolds` and `LeadHandedOverHolds`, the action properties, from the same:
  a claim whose version is current found no lead.
- `WaitingTaskActionableHolds`, from `Actable` and `ClosersBehind`: while a stage creates
  its task or waits, every activity that closes a row is about an earlier visit, so its
  own row is open and held, unless a defer or a route is on its way.

`DelegationProofs` proves for any deliveries, tasks, instances, scenarios and faults,
from four assumptions of `Delegation`. `ScenarioAssumption` types the scenarios;
`RowsAssumption` says that every task is assigned at first, that a claimed one is claimed
by somebody who holds it, and that nobody holds it twice; `EventsAssumption` that an event
id names one event and that two availability events of one time say the same (the guard
and the record compare times only, so the code has no answer for two that differ);
`NoneAssumption` keeps the null value apart.

- `DelegationTypeCorrect`: `Spec => []TypeOK`, which includes the unique index. It needs
  `ListsRead`: a row that was read is still there.
- `WorkStaysHeldHolds`: whoever vacates a row creates the next one, in one transaction or,
  for `ReassignDelegate`, with the row it still has to create.
- `ClaimIsCarriedHolds`, from `LeadsRead` and `ClaimKept`: a row with the lead flag that
  somebody is about to move was read with it, unless a claim crossed the move; so whoever
  vacates the lead appoints a lead. A claim that crosses no move makes the task's claim
  whole again (`SetLead` clears `crossed`), and the proof needs that it does so only when
  the row is active and on nobody's list (`Crossing`).
- `HandedBackPausedHolds`, from `Locked` and `Reversing`: between the lock and the commit
  of a reversal nobody else records an absence or lifts a pause (`LockKeeps`), so what it
  has settled agrees with the absence on record.
- `AbsentWorkWaitsHolds` and `PresentWorkRunsHolds`, from `LastApplied`: once the newest
  availability is applied, every instance of what the delegator holds agrees with it, and
  stays so (`InForceStays`), because an instance that comes back later comes from a
  reversal, and that one is `Reversing`.
- `EndedDelegationHoldsNothingHolds`, from `EndedKept`: the rows a reversal could take
  back are among those it read, until it commits, and there are none after it.

`TenantLifecycleProofs` proves for any instances, starters, closers, events, histories,
purgers and faults, from `StartAssumption` and `EventAssumption`. The latter types the
histories, and says that two events of one time carry the same status and agree on
whether it changed; the recency guard and `tenant_state` compare times only.

- `TenantTypeCorrect`: `Spec => []TypeOK`, in which the lock is held by the state change
  between its check and its commit and by nobody else. It needs `Stages` (what a stage
  of a delivery says about its event) and `KeysAgree` of the starts.
- `PurgedLeavesNothingHolds`, from `Batches` and `Emptied`: as soon as a purge has found
  the tenant empty, at the version of the ledger it was listed with, every row there is
  came late. New rows of an offboarded tenant are those of starts that had passed the
  gate, and a new offboarding clears the mark and moves the version (`EventLedger`).
- `OffboardedLeavesNothingHolds`, from `Records`, `Terminating` and `OffLedger`. `Records`
  orders the times: the status on record is that of an event and not older than the
  ledger's offboarding, the guard and any event that got so far. While the sweep of the
  offboarding on record has not failed, everything live is on its list or came late; a
  new row is marked late, because the status was recorded before the list was read.
- `NewestStatusWinsHolds`, from `Signalling`: for the newest change, its return is on the
  ledger before its sweep, every instance that a sweep could reach heeds it after, and
  the guard has its time only then. An older event cannot undo it, because it has not the
  lock or finds the guard newer (`NobodySignals`); a purge that forgets the guard finds no
  return on the ledger, and there is one.
- `PurgeSparesReturnedHolds`, the action property, from `Returning` and `LedgerOrder`: a
  return that was recorded, answered or passed by the guard is on the ledger, older than
  the offboarding there, or `Overtaken`; and a batch deletes only while no return is on
  the ledger (`DeletedByBatch`). Without `Overtaken` the property is false for histories
  of three events, as the section on disagreements says.

TLC checked each of these invariants before the proof, on the instances of the runs and
on larger ones (for the tenant, three events with one purger).

`PlanRunProofs` proves for every plan, whatever its sub-workflows, boundaries, gateways
and departments and however deep they nest, any results and error classes, any bound on
cycles and any number of forced routes, from `RunAssumption` and `PlanAssumption` of
`PlanRun` (a step names departments of the plan, and so does what a route re-enters with):

- `RunTypeCorrect`: `Spec => []TypeOK`. Most of the work is in `CoroutineOK`: a body is
  younger than its sub-workflow, an error that was raised has a path, and a coroutine is
  over exactly when it has an outcome. What it still has to do are steps of the plan, in
  which a gateway goes round at most `MaxCycles` times.
- `BufferFollowsHistory`: a message in the buffer comes from a node of the history.
  Inductive with the types; the lemmas about `PopTo`, `Popped` and `ResetSpan` say that
  what leaves the history leaves the buffer.
- `LeftWorkStopsForEveryPlan`, the action property, from `UnderAttached`: every coroutine
  that somebody runs under is cancelled, or is the current run, ended well, is awaited, or
  gave its own error to the sub-workflow it was the body of. It needs
  `RoutedRunIsCancelled`: the loop goes on to a redirect only from a run it cancelled. A
  task is completed only by a coroutine nobody above has cancelled (`Done`). The last of
  the four cases is needed: a path started beside a task inside a body that fails is not
  cancelled with it (`spawnFiredPath` hangs it on the body's context, and nobody cancels
  that one), and goes on; plan `Aside` is such a case.
- `MessageWaitsStayQueued`: without any premise, a message boundary or a receive that
  still counts is in the queue of waiters, however often others came and went.
- `LiveWaitsStayReachable`: given `KeysApart`, the same for outside waits
  (`OutsideWaitsHaveTheirKey`): the key leads to the wait that counts. A wait that is
  cleaned up takes the key with it only if it is its own.

The proofs do not look at the steps of a coroutine one by one. Each step is first
shown to keep the types and to be a `Step(i)`: only coroutine i moves or hears, children
are new and under their parent, a wait that begins is entered, what was somebody else's
stays. Each event is shown to be an `OuterStep`. The invariants use these two alone.
Where an argument is an induction (the least position in a sequence, what `Without`
leaves of one), the least element of a set of naturals stands for it (`Least`, from
`WFMin`), since the induction theorems themselves cannot be used.

TLC checked these invariants before the proof, on the plans of `Routing`.

Only model-checked:

- the liveness properties (`ResolvedParkEnds`, `CallEnds`,
  `CommittedRowIsLaunched`, `EveryEventSettles`, `EntryLeavesStream`), which are out of
  the prover's reach, as is `ENABLED`;
- what the recursive operators of `PlanRoutes` compute: `PlanAssumption` is evaluated on
  the plans of `MCPlanRun`;
- `KeysApart`, which is a property of those plans and not of every plan.

## Plan

Proofs: every safety property that a passing run checks is proved, save `KeysApart`,
which a plan has or has not.

Models worth adding after that: SLA timers beside the boundaries of a task, parallel
gateways inside `PlanRun`, and tasks that close while `Delegation` moves them.

## Not modelled

HTTP binding and error mapping, configuration and wiring, metrics, encodings, secret
reads, and the read-only clients of the definition and eligibility services keep no
state the properties speak of. The worker's topology loop starts a worker for every
row of the queue registry and never stops one; the registry is in `TenantLifecycle`.
Retention sweeps delete rows past their age, and nothing waits for them. SLA timers
write an event and change nothing else. Pagination, row-level security and the outbox
table of the repositories are left out; a transaction is the commit of the action that
uses it.
