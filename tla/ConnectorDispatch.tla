------------------------- MODULE ConnectorDispatch -------------------------
(***************************************************************************)
(* How a connector-typed task gets its result.  The consumer of            *)
(* WorkflowTaskCreated puts a job on a Valkey stream; the connector        *)
(* workers of one consumer group read it, run the connector under a lease, *)
(* record the outcome, call the service back and acknowledge the entry;    *)
(* the callback reserves the signal of the task, assigns the automation    *)
(* principal and signals the workflow.                                     *)
(*                                                                         *)
(* Everything in between can fail, be delivered again or run twice: a      *)
(* bounded number of faults is spread over every place the code handles.   *)
(***************************************************************************)
EXTENDS Integers, FiniteSets

CONSTANTS
    Task, Entry, Worker,
    TaskOf,         \* the task a stream entry is about
    None,           \* no holder, no outcome
    PoolSize,       \* CONNECTOR_POOL_SIZE_*, as configured
    MaxAttempts,    \* CONNECTOR_RETRY_MAX_ATTEMPTS
    MaxDeliveries,  \* CONNECTOR_STREAM_MAX_DELIVERIES
    MaxFaults       \* bound on failures, crashes and shutdowns

Verdicts == {"ok", "fail"}
Shapes   == {"job", "unknown", "malformed"}
Job      == Worker \X Entry

\* checkRequiredConfig refuses to start with less than one delivery.
ASSUME DispatchAssumption ==
    /\ TaskOf \in [Entry -> Task] /\ IsFiniteSet(Entry)
    /\ None \notin Job \cup Verdicts
    /\ PoolSize \in Int /\ MaxAttempts \in Int
    /\ MaxDeliveries \in Nat \ {0} /\ MaxFaults \in Nat

VARIABLES
    entry,      \* the stream: where an entry is, its delivery count, whether it idled out
    processed,  \* the event of the task is in processed_event
    shape,      \* what parseDispatchJob and the pool table make of the task's jobs
    up,         \* worker process: "running" or "draining" (its context is cancelled)
    job,        \* inflightSet and goroutine of an entry in a worker
    lease,      \* connector-lease:<task>, the job that set it
    outcome,    \* connector-outcome:<task>
    call,       \* the callback request of a job, inside the service
    reserved,   \* connector-signal:<task>
    row,        \* the task row: "open" or "closed"
    inst,       \* its instance: "live" or "over"
    faults,     \* faults so far
    \* History.
    runs,       \* runs of the connector that were started
    lost,       \* of these, the ones whose outcome was not recorded
    outlived,   \* and the ones that went on, or began, after their lease had run out
    sent,       \* verdicts signalled to the workflow
    signals,    \* number of signals, counted up to two
    gaveWay,    \* the reservation of the task expired or did not hold
    refused     \* a callback was answered because of another's reservation

streamvars  == <<entry, processed, shape>>
workervars  == <<up, job, lease, outcome>>
servicevars == <<call, reserved, row, inst>>
history     == <<runs, lost, outlived, sent, signals, gaveWay, refused>>
vars        == <<streamvars, workervars, servicevars, history, faults>>

NoJob  == [pc |-> "idle", verdict |-> None, attempt |-> 0, seen |-> 0, due |-> FALSE]
NoCall == [at |-> "none", verdict |-> None]

PCs == {"idle", "claimed", "resend", "waiting", "entered", "leased", "running",
        "executed", "report", "posted", "ack"}
\* A goroutine of the pool is under the lease it took.
Leased  == {"leased", "running", "executed"}
Running == {"running", "executed"}
Pooled  == {"entered", "leased", "running", "executed", "report"}

Init ==
    /\ entry = [e \in Entry |-> [at |-> "none", deliveries |-> 0, idle |-> FALSE]]
    /\ processed = [t \in Task |-> FALSE]
    /\ shape \in [Task -> Shapes]
    /\ up = [w \in Worker |-> "running"]
    /\ job = [j \in Job |-> NoJob]
    /\ lease = [t \in Task |-> None]
    /\ outcome = [t \in Task |-> None]
    /\ call = [j \in Job |-> NoCall]
    /\ reserved = [t \in Task |-> FALSE]
    /\ row = [t \in Task |-> "open"]
    /\ inst = [t \in Task |-> "live"]
    /\ faults = 0
    /\ runs = [t \in Task |-> 0]
    /\ lost = [t \in Task |-> 0]
    /\ outlived = [t \in Task |-> 0]
    /\ sent = [t \in Task |-> {}]
    /\ signals = [t \in Task |-> 0]
    /\ gaveWay = [t \in Task |-> FALSE]
    /\ refused = [t \in Task |-> FALSE]

Fault   == faults < MaxFaults /\ faults' = faults + 1
NoFault == UNCHANGED faults

T(j) == TaskOf[j[2]]
Goto(j, p) == job' = [job EXCEPT ![j].pc = p]
\* inflight.remove: the goroutine or the loop is done with the entry.
Leave(j) == job' = [job EXCEPT ![j] = NoJob]

(***************************************************************************)
(* The producer: handleWorkflowTaskCreated.                                *)
(***************************************************************************)
\* alreadyProcessed; every delivery of the event gets an entry of its own.
CheckEvent(e) ==
    /\ entry[e].at = "none" /\ ~processed[TaskOf[e]]
    /\ entry' = [entry EXCEPT ![e].at = "checked"]
    /\ UNCHANGED <<processed, shape, workervars, servicevars, history, faults>>

\* XADD: the fields of the event become those of the entry.
Published(e) == entry' = [entry EXCEPT ![e].at = "new"]

\* The entry is on the stream before the event is marked; the mark may fail.
PublishTaskCreated(e) ==
    /\ entry[e].at = "checked"
    /\ Published(e)
    /\ \/ processed' = [processed EXCEPT ![TaskOf[e]] = TRUE] /\ NoFault
       \/ UNCHANGED processed /\ Fault
    /\ UNCHANGED <<shape, workervars, servicevars, history>>

(***************************************************************************)
(* Deliveries.                                                             *)
(***************************************************************************)
\* XREADGROUP and XAUTOCLAIM put an entry on the pending list of the consumer.
Delivered(e, n) == entry' = [entry EXCEPT ![e] = [at |-> "pending", deliveries |-> n, idle |-> FALSE]]

\* inflight.claim succeeds, and the entry is handled with the count it came with.
Claimed(j, seen) == job' = [job EXCEPT ![j] = [NoJob EXCEPT !.pc = "claimed", !.seen = seen]]

ReadGroup(w, e) ==
    /\ up[w] = "running"
    /\ entry[e].at = "new"
    /\ Delivered(e, 1)
    /\ Claimed(<<w, e>>, 1)
    /\ UNCHANGED <<processed, shape, up, lease, outcome, servicevars, history, faults>>

\* XAUTOCLAIM counts a delivery; the count stops one past the cap.
NextDelivery(e) == IF entry[e].deliveries > MaxDeliveries THEN entry[e].deliveries
                                                          ELSE entry[e].deliveries + 1

\* XPENDING reads the count, or leaves 0 when it fails.  An entry this worker
\* still has in flight is not dispatched again.
ReclaimStale(w, e) ==
    /\ up[w] = "running"
    /\ entry[e].at = "pending" /\ entry[e].idle
    /\ Delivered(e, NextDelivery(e))
    /\ \/ job[<<w, e>>].pc # "idle" /\ UNCHANGED job /\ NoFault
       \/ /\ job[<<w, e>>].pc = "idle"
          /\ \/ Claimed(<<w, e>>, NextDelivery(e)) /\ NoFault
             \/ Claimed(<<w, e>>, 0) /\ Fault
    /\ UNCHANGED <<processed, shape, up, lease, outcome, servicevars, history>>

\* inflightSet.live: no deadline yet, or the time of the lease has not passed.
Live(j) == job[j].pc # "idle" /\ (job[j].due => lease[T(j)] = j)

\* CONNECTOR_STREAM_CLAIM_MIN_IDLE passes.  Three heartbeats fall into it, and
\* they go on through a drain, so a live entry idles out only when they fail.
IdlesOut(e) ==
    /\ entry[e].at = "pending" /\ ~entry[e].idle
    /\ entry' = [entry EXCEPT ![e].idle = TRUE]
    /\ IF \E w \in Worker : Live(<<w, e>>) THEN Fault ELSE NoFault
    /\ UNCHANGED <<processed, shape, workervars, servicevars, history>>

\* XCLAIM ... JUSTID resets the idle time and counts no delivery.
Touched(ids) ==
    entry' = [e \in Entry |-> IF e \in ids THEN [entry[e] EXCEPT !.idle = FALSE] ELSE entry[e]]

HeartbeatOnce(w) ==
    LET ids == {e \in Entry : Live(<<w, e>>) /\ entry[e].at = "pending"} IN
    /\ \E e \in ids : entry[e].idle
    /\ Touched(ids)
    /\ UNCHANGED <<processed, shape, workervars, servicevars, history, faults>>

(***************************************************************************)
(* handleEntry and the goroutine it starts.                                *)
(***************************************************************************)
Removed(e, at) == entry' = [entry EXCEPT ![e] = [@ EXCEPT !.at = at, !.idle = FALSE]]

\* The entry leaves the pending list, or the command fails and it stays.
LeavesStream(j, at) ==
    /\ \/ Removed(j[2], at) /\ NoFault
       \/ UNCHANGED entry /\ Fault
    /\ Leave(j)

\* With a cancelled context every command of handleEntry fails and the entry
\* stays pending.
HandleEntry(j) ==
    /\ job[j].pc = "claimed"
    /\ \/ up[j[1]] = "draining" /\ Leave(j) /\ UNCHANGED <<entry, faults>>
       \/ /\ up[j[1]] = "running"
          /\ CASE shape[T(j)] = "malformed"      -> LeavesStream(j, "acked")
               [] shape[T(j)] # "malformed" /\ job[j].seen > MaxDeliveries -> LeavesStream(j, "dead")
               [] OTHER ->
                    \/ Leave(j) /\ Fault /\ UNCHANGED entry
                    \/ /\ NoFault /\ UNCHANGED entry
                       /\ IF outcome[T(j)] # None
                          THEN job' = [job EXCEPT ![j] = [NoJob EXCEPT !.pc = "resend", !.verdict = outcome[T(j)]]]
                          ELSE IF shape[T(j)] = "unknown"
                          THEN job' = [job EXCEPT ![j] = [NoJob EXCEPT !.pc = "resend", !.verdict = "fail"]]
                          ELSE job' = [job EXCEPT ![j] = [NoJob EXCEPT !.pc = "waiting"]]
    /\ UNCHANGED <<processed, shape, up, lease, outcome, servicevars, history>>

\* Mutant: a pool of the configured size, zero included.
CapacityAsConfigured == PoolSize

\* buildPools: a pool has one place at least.
Capacity == IF PoolSize <= 0 THEN 1 ELSE PoolSize

EnterPool(j) ==
    /\ job[j].pc = "waiting"
    /\ Cardinality({e \in Entry : job[<<j[1], e>>].pc \in Pooled}) < Capacity
    /\ Goto(j, "entered")
    /\ UNCHANGED <<streamvars, up, lease, outcome, servicevars, history, faults>>

\* Mutant: Set instead of SetNX.
TakeLeaseOver(j) ==
    /\ job[j].pc = "entered" /\ up[j[1]] = "running"
    /\ lease' = [lease EXCEPT ![T(j)] = j]
    /\ job' = [job EXCEPT ![j].pc = "leased", ![j].due = TRUE]
    /\ UNCHANGED <<streamvars, up, outcome, servicevars, history, faults>>

\* runJob gives up when the worker is draining; from here on it is not
\* cancelled any more.  SetNX of the lease, and setDeadline when it is taken.
TakeLease(j) ==
    /\ job[j].pc = "entered"
    /\ \/ up[j[1]] = "draining" /\ Leave(j) /\ UNCHANGED lease /\ NoFault
       \/ /\ up[j[1]] = "running"
          /\ \/ /\ lease[T(j)] = None /\ NoFault
                /\ lease' = [lease EXCEPT ![T(j)] = j]
                /\ job' = [job EXCEPT ![j].pc = "leased", ![j].due = TRUE]
             \/ lease[T(j)] # None /\ Leave(j) /\ UNCHANGED lease /\ NoFault
             \/ Leave(j) /\ UNCHANGED lease /\ Fault
    /\ UNCHANGED <<streamvars, up, outcome, servicevars, history>>

\* Mutant: trusts the record handleEntry read before the lease.
RecheckNothing(j) ==
    /\ job[j].pc = "leased"
    /\ job' = [job EXCEPT ![j].pc = "running", ![j].attempt = 1]
    /\ runs' = [runs EXCEPT ![T(j)] = @ + 1]
    /\ UNCHANGED <<streamvars, up, lease, outcome, servicevars, lost, outlived, sent, signals, gaveWay, refused, faults>>

\* A run that is no longer under the lease its job took.
Outlives(t) == outlived' = [outlived EXCEPT ![t] = @ + 1]

\* resendRecordedOutcome once more, now under the lease; the worker does not
\* look whether it still has it.
Recheck(j) ==
    /\ job[j].pc = "leased"
    /\ \/ Leave(j) /\ Fault /\ UNCHANGED <<runs, outlived>>
       \/ /\ outcome[T(j)] # None /\ NoFault
          /\ job' = [job EXCEPT ![j].pc = "report", ![j].verdict = outcome[T(j)]]
          /\ UNCHANGED <<runs, outlived>>
       \/ /\ outcome[T(j)] = None /\ NoFault
          /\ job' = [job EXCEPT ![j].pc = "running", ![j].attempt = 1]
          /\ runs' = [runs EXCEPT ![T(j)] = @ + 1]
          /\ IF lease[T(j)] = j THEN UNCHANGED outlived ELSE Outlives(T(j))
    /\ UNCHANGED <<streamvars, up, lease, outcome, servicevars, lost, sent, signals, gaveWay, refused>>

\* execute: the secrets and the time limit of the run only add failures.
Executed(j, v) == job' = [job EXCEPT ![j].pc = "executed", ![j].verdict = v, ![j].attempt = 0]

\* executeWithRetry: a failure is final, or retried while attempts are left.
Attempt(j) ==
    /\ job[j].pc = "running"
    /\ \/ \E v \in Verdicts : Executed(j, v)
       \/ job[j].attempt < MaxAttempts /\ job' = [job EXCEPT ![j].attempt = @ + 1]
    /\ UNCHANGED <<streamvars, up, lease, outcome, servicevars, history, faults>>

RecordOutcome(j) ==
    /\ job[j].pc = "executed"
    /\ Goto(j, "report")
    /\ \/ /\ outcome' = [outcome EXCEPT ![T(j)] = job[j].verdict]
          /\ UNCHANGED lost /\ NoFault
       \/ lost' = [lost EXCEPT ![T(j)] = @ + 1] /\ UNCHANGED outcome /\ Fault
    /\ UNCHANGED <<streamvars, up, lease, servicevars, runs, outlived, sent, signals, gaveWay, refused>>

\* The request of the completion client arrives at the service.
Posted(j) == call' = [call EXCEPT ![j] = [at |-> "received", verdict |-> job[j].verdict]]

\* report.  A resend belongs to the cancelled context.
Report(j) ==
    /\ job[j].pc \in {"report", "resend"}
    /\ \/ job[j].pc = "resend" /\ up[j[1]] = "draining" /\ Leave(j) /\ UNCHANGED call
       \/ /\ job[j].pc = "resend" => up[j[1]] = "running"
          /\ call[j] = NoCall
          /\ Posted(j)
          /\ Goto(j, "posted")
    /\ UNCHANGED <<streamvars, up, lease, outcome, reserved, row, inst, history, faults>>

\* A job that took no lease still has the context a shutdown cancels.
Cancelled(j) == up[j[1]] = "draining" /\ ~job[j].due

\* CONNECTOR_COMPLETION_TIMEOUT passes, or the context of the request is
\* cancelled; the request may go on in the service.
CallTimeout(j) ==
    /\ job[j].pc = "posted"
    /\ IF Cancelled(j) THEN NoFault ELSE Fault
    /\ Leave(j)
    /\ UNCHANGED <<streamvars, up, lease, outcome, servicevars, history>>

AckEntry(j) ==
    /\ job[j].pc = "ack"
    /\ \/ ~Cancelled(j) /\ LeavesStream(j, "acked")
       \/ Cancelled(j) /\ Leave(j) /\ UNCHANGED <<entry, faults>>
    /\ UNCHANGED <<processed, shape, up, lease, outcome, servicevars, history>>

(***************************************************************************)
(* ConnectorTaskService.Complete and Fail.                                 *)
(***************************************************************************)
\* Mutant: any answer counts as accepted.
AnswerTaken(j, ok) ==
    /\ call' = [call EXCEPT ![j] = NoCall]
    /\ IF job[j].pc # "posted" THEN UNCHANGED job ELSE Goto(j, "ack")

\* 2xx lets the worker acknowledge, any other answer leaves the entry pending.
Answer(j, ok) ==
    /\ call' = [call EXCEPT ![j] = NoCall]
    /\ IF job[j].pc # "posted" THEN UNCHANGED job ELSE IF ok THEN Goto(j, "ack") ELSE Leave(j)

\* A task that is closed and an instance that is over take no callback, and
\* need none: paused and degraded instances do.
Closed(t) == row[t] = "closed"
Accepting(t) == inst[t] = "live"

\* The automation principal, cached or asked for, may not be found.
PrincipalFails(j) == Answer(j, FALSE) /\ Fault

\* What the callback reads before it changes anything; an output that cannot be
\* mapped fails like a read.
LoadTask(j) ==
    /\ call[j].at = "received"
    /\ \/ (Closed(T(j)) \/ ~Accepting(T(j))) /\ Answer(j, TRUE) /\ NoFault
       \/ /\ ~Closed(T(j)) /\ Accepting(T(j)) /\ NoFault
          /\ call' = [call EXCEPT ![j].at = "loaded"]
          /\ UNCHANGED job
       \/ PrincipalFails(j)
    /\ UNCHANGED <<streamvars, up, lease, outcome, reserved, row, inst, history>>

\* Mutant: the reservation is set but not looked at.
ReserveAnyway(j) ==
    /\ call[j].at = "loaded"
    /\ reserved' = [reserved EXCEPT ![T(j)] = TRUE]
    /\ call' = [call EXCEPT ![j].at = "reserved"]
    /\ UNCHANGED <<streamvars, workervars, row, inst, history, faults>>

\* SetNX; fail-open when the cache answers with an error.
ReserveSignal(j) ==
    /\ call[j].at = "loaded"
    /\ \/ /\ reserved[T(j)] /\ Answer(j, TRUE) /\ NoFault
          /\ refused' = [refused EXCEPT ![T(j)] = TRUE]
          /\ UNCHANGED <<reserved, gaveWay>>
       \/ /\ ~reserved[T(j)] /\ NoFault
          /\ reserved' = [reserved EXCEPT ![T(j)] = TRUE]
          /\ call' = [call EXCEPT ![j].at = "reserved"]
          /\ UNCHANGED <<job, gaveWay, refused>>
       \/ /\ Fault
          /\ gaveWay' = [gaveWay EXCEPT ![T(j)] = TRUE]
          /\ call' = [call EXCEPT ![j].at = "reserved"]
          /\ UNCHANGED <<job, reserved, refused>>
    /\ UNCHANGED <<streamvars, up, lease, outcome, row, inst, runs, lost, outlived, sent, signals>>

\* The reservation is given back, unless the cache fails again.
ReleaseSignalReservation(t) == reserved' \in {reserved, [reserved EXCEPT ![t] = FALSE]}

\* The row of the automation principal; an error gives the reservation back.
AssignActor(j) ==
    /\ call[j].at = "reserved"
    /\ \/ /\ call' = [call EXCEPT ![j].at = "assigned"] /\ NoFault
          /\ UNCHANGED <<job, reserved>>
       \/ /\ Fault /\ Answer(j, FALSE)
          /\ ReleaseSignalReservation(T(j))
    /\ UNCHANGED <<streamvars, up, lease, outcome, row, inst, history>>

Signalled(j) ==
    /\ sent' = [sent EXCEPT ![T(j)] = @ \cup {call[j].verdict}]
    /\ signals' = [signals EXCEPT ![T(j)] = IF @ = 0 THEN 1 ELSE 2]

\* An error releases the reservation, although the signal may have arrived.
SignalWorkflow(j) ==
    /\ call[j].at = "assigned"
    /\ \/ Signalled(j) /\ Answer(j, TRUE) /\ NoFault /\ UNCHANGED <<reserved, gaveWay>>
       \/ /\ Fault /\ Answer(j, FALSE)
          /\ ReleaseSignalReservation(T(j))
          /\ \/ UNCHANGED <<sent, signals, gaveWay>>
             \/ Signalled(j) /\ gaveWay' = [gaveWay EXCEPT ![T(j)] = TRUE]
    /\ UNCHANGED <<streamvars, up, lease, outcome, row, inst, runs, lost, outlived, refused>>

(***************************************************************************)
(* Time, processes and the rest of the system.                             *)
(***************************************************************************)
\* The lease lasts for the time limit of a run and ten seconds more.  The limit
\* only cancels the context of the run, and the reads and writes around it have
\* no limit: a run may outlive its lease, which counts as a fault.
LeaseExpires(t) ==
    /\ lease[t] # None
    /\ lease' = [lease EXCEPT ![t] = None]
    /\ IF job[lease[t]].pc \in Leased THEN Fault ELSE NoFault
    /\ IF job[lease[t]].pc \in Running THEN Outlives(t) ELSE UNCHANGED outlived
    /\ UNCHANGED <<streamvars, up, job, outcome, servicevars, runs, lost, sent, signals, gaveWay, refused>>

\* connectorSignalDedupTTL passes, whatever became of the signal.
ReservationExpires(t) ==
    /\ reserved[t]
    /\ reserved' = [reserved EXCEPT ![t] = FALSE]
    /\ gaveWay' = [gaveWay EXCEPT ![t] = TRUE]
    /\ UNCHANGED <<streamvars, workervars, call, row, inst, runs, lost, outlived, sent, signals, refused, faults>>

\* main: the context is cancelled and the loops stop.
Shutdown(w) ==
    /\ up[w] = "running" /\ Fault
    /\ up' = [up EXCEPT ![w] = "draining"]
    /\ UNCHANGED <<streamvars, job, lease, outcome, servicevars, history>>

\* The drain ends when no goroutine is left, and the next process starts.
Restart(w) ==
    /\ up[w] = "draining"
    /\ \A e \in Entry : job[<<w, e>>].pc = "idle"
    /\ up' = [up EXCEPT ![w] = "running"]
    /\ UNCHANGED <<streamvars, job, lease, outcome, servicevars, history, faults>>

\* The process dies, or the drain elapses with runs still in flight.
WorkerCrash(w) ==
    /\ Fault
    /\ up' = [up EXCEPT ![w] = "running"]
    /\ job' = [j \in Job |-> IF j[1] = w THEN NoJob ELSE job[j]]
    /\ lost' = [t \in Task |-> lost[t] + Cardinality(
                  {e \in Entry : TaskOf[e] = t /\ job[<<w, e>>].pc \in Running})]
    /\ UNCHANGED <<streamvars, lease, outcome, servicevars, runs, outlived, sent, signals, gaveWay, refused>>

\* The service dies: what its requests had reserved stays reserved.
ServiceCrash ==
    /\ Fault
    /\ \E j \in Job : call[j] # NoCall
    /\ call' = [j \in Job |-> NoCall]
    /\ job' = [j \in Job |-> IF job[j].pc = "posted" THEN NoJob ELSE job[j]]
    /\ UNCHANGED <<streamvars, up, lease, outcome, reserved, row, inst, history>>

\* The workflow (TaskStage) applies a signalled result and closes the row.
TaskCloses(t) ==
    /\ row[t] = "open" /\ inst[t] = "live" /\ signals[t] > 0
    /\ row' = [row EXCEPT ![t] = "closed"]
    /\ UNCHANGED <<streamvars, workervars, call, reserved, inst, history, faults>>

InstanceEnds(t) ==
    /\ inst[t] = "live"
    /\ inst' = [inst EXCEPT ![t] = "over"]
    /\ UNCHANGED <<streamvars, workervars, call, reserved, row, history, faults>>

JobStep(j) ==
    \/ HandleEntry(j) \/ EnterPool(j) \/ TakeLease(j) \/ Recheck(j) \/ Attempt(j)
    \/ RecordOutcome(j) \/ Report(j) \/ AckEntry(j)

CallStep(j) == LoadTask(j) \/ ReserveSignal(j) \/ AssignActor(j) \/ SignalWorkflow(j)

Next ==
    \/ \E e \in Entry : CheckEvent(e) \/ PublishTaskCreated(e) \/ IdlesOut(e)
    \/ \E w \in Worker, e \in Entry : ReadGroup(w, e) \/ ReclaimStale(w, e)
    \/ \E w \in Worker : HeartbeatOnce(w) \/ Shutdown(w) \/ Restart(w) \/ WorkerCrash(w)
    \/ \E j \in Job : JobStep(j) \/ CallStep(j) \/ CallTimeout(j)
    \/ \E t \in Task : LeaseExpires(t) \/ ReservationExpires(t) \/ TaskCloses(t) \/ InstanceEnds(t)
    \/ ServiceCrash

Spec == Init /\ [][Next]_vars

\* The loops of a live worker, the goroutines, the requests and the clock go on.
\* Two consumers of one entry share its reclaims, so reclaiming is strongly fair.
Fairness ==
    /\ \A e \in Entry : WF_vars(\E w \in Worker : ReadGroup(w, e))
    /\ \A e \in Entry : SF_vars(\E w \in Worker : job[<<w, e>>].pc = "idle" /\ ReclaimStale(w, e))
    /\ \A e \in Entry : WF_vars(IdlesOut(e))
    /\ \A j \in Job : WF_vars(JobStep(j)) /\ WF_vars(CallStep(j))
    /\ \A w \in Worker : WF_vars(Restart(w))
    /\ \A t \in Task : WF_vars(LeaseExpires(t))

FairSpec == Spec /\ Fairness

-----------------------------------------------------------------------------
(***************************************************************************)
(* Properties.                                                             *)
(***************************************************************************)
\* The shapes of the records.
Deliveries == 0..(MaxDeliveries + 1)
EntryRecord == [at : {"none", "checked", "new", "pending", "acked", "dead"}, deliveries : Deliveries, idle : BOOLEAN]
JobRecord   == [pc : PCs, verdict : Verdicts \cup {None}, attempt : {0, 1} \cup 0..MaxAttempts,
                seen : Deliveries, due : BOOLEAN]
CallRecord  == [at : {"none", "received", "loaded", "reserved", "assigned"}, verdict : Verdicts \cup {None}]

EntryOK == entry \in [Entry -> EntryRecord]
JobOK   == job \in [Job -> JobRecord]
CallOK  == call \in [Job -> CallRecord]
FlagsOK ==
    /\ processed \in [Task -> BOOLEAN] /\ shape \in [Task -> Shapes]
    /\ up \in [Worker -> {"running", "draining"}]
    /\ row \in [Task -> {"open", "closed"}] /\ inst \in [Task -> {"live", "over"}]
    /\ reserved \in [Task -> BOOLEAN] /\ gaveWay \in [Task -> BOOLEAN] /\ refused \in [Task -> BOOLEAN]
LedgerOK ==
    /\ lease \in [Task -> Job \cup {None}] /\ outcome \in [Task -> Verdicts \cup {None}]
    /\ runs \in [Task -> Nat] /\ lost \in [Task -> Nat] /\ outlived \in [Task -> Nat]
    /\ sent \in [Task -> SUBSET Verdicts] /\ signals \in [Task -> 0..2]
FaultsOK == faults \in 0..MaxFaults

\* Every variable keeps its shape; a delivery count stops one past the cap
\* (ReclaimStale) and an attempt never passes MaxAttempts (executeWithRetry).
TypeOK == EntryOK /\ JobOK /\ CallOK /\ FlagsOK /\ LedgerOK /\ FaultsOK

\* Every run of a task's connector after the first is paid for by a run whose
\* outcome was never recorded, or by one that was not under its lease to the end:
\* runJob reads the record again once it has the lease.
RunsOnceUnlessLost == \A t \in Task : runs[t] <= 1 + lost[t] + outlived[t]

\* As long as no outcome was lost and no run outlived its lease, whatever is
\* delivered, resent or run by other workers, the callbacks of a task signal one
\* verdict and never a second one.
OneVerdict == \A t \in Task : lost[t] = 0 /\ outlived[t] = 0 => Cardinality(sent[t]) <= 1

\* Two callbacks of one task (two entries, a redelivery, a late request) signal
\* the workflow twice only if the reservation expired, was skipped because the
\* cache failed, or was released after an error of a signal that did arrive.
SignalledOnce == \A t \in Task : ~gaveWay[t] => signals[t] <= 1

\* The workflow has the result, or needs none any more.
Settled(t) == signals[t] > 0 \/ row[t] = "closed" \/ inst[t] = "over"

\* An entry is acknowledged only when its task is settled, except when a
\* callback was answered because another one held the reservation.
AckedMeansSettled ==
    \A e \in Entry :
        entry[e].at = "acked" /\ shape[TaskOf[e]] # "malformed" /\ ~refused[TaskOf[e]] => Settled(TaskOf[e])

\* The same without the exception: the reservation a callback met belongs to a
\* request that signalled or is still going to.
AckedIsDelivered ==
    \A e \in Entry :
        entry[e].at = "acked" /\ shape[TaskOf[e]] # "malformed" =>
            \/ Settled(TaskOf[e])
            \/ \E j \in Job : T(j) = TaskOf[e] /\ call[j].at \in {"reserved", "assigned"}

\* Every published job is acknowledged or dead-lettered in the end, with pools
\* of any configured size, also after crashes, lost callbacks and held leases.
EntryLeavesStream == \A e \in Entry : entry[e].at = "new" ~> entry[e].at \in {"acked", "dead"}
=============================================================================
