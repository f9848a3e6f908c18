-------------------------- MODULE TenantLifecycle --------------------------
(***************************************************************************)
(* What the events about a tenant do to its instances, composed with the   *)
(* starts and terminates of InstanceStart: TenantStateChanged and          *)
(* TenantMembershipsPurged are delivered at least once and in any order;   *)
(* the first runs under an advisory lock and behind a recency guard, the   *)
(* second does not.  They record the tenant's status, pause, resume or     *)
(* terminate its instances, keep the purge ledger and the queue registry.  *)
(* The purger of every replica deletes what an offboarded tenant left.     *)
(***************************************************************************)
EXTENDS InstanceStart

CONSTANTS
    Event,      \* the events of one tenant
    Histories,  \* what the events may say: kind, status, whether it changed, plan, at
    Purger      \* the purge loops of the API replicas

Running  == {"trial", "active", "past_due"}
Pausing  == {"suspended", "trial_expired", "cancelled"}
Content  == [kind : {"state", "memberships"}, status : Running \cup Pausing \cup {"offboarded"},
             changed : BOOLEAN, plan : {"same", "enterprise", "other"}, at : Nat \ {0}]

\* handleTenantMembershipsPurged makes up an offboarding from "active".  Two events
\* of one time say the same: which of them is the newer, ShouldApply and Record,
\* which compare times, could not tell.
ASSUME EventAssumption ==
    /\ None \notin Event
    /\ Histories \subseteq [Event -> Content]
    /\ \A h \in Histories, e \in Event : h[e].kind = "memberships" =>
         h[e].status = "offboarded" /\ h[e].changed /\ h[e].plan = "same"
    /\ \A h \in Histories, e, f \in Event : h[e].at = h[f].at =>
         h[e].status = h[f].status /\ h[e].changed = h[f].changed

VARIABLES
    about,      \* the content of each event
    event,      \* where the delivery of an event is, the instances of its sweep
    processed,  \* processed_events
    lock,       \* the advisory lock of the tenant's scope
    guard,      \* event_recency_guard: last_applied_at, 0 for no row
    ledger,     \* tenant_retention
    purge,      \* where each purger is, the version it read, the row its batch chose
    unreached,  \* History: live, but without an execution, when a sweep signalled it
    uncommitted \* History: a recency commit failed after its effects

eventvars == <<about, event, processed, lock, guard, ledger, unreached, uncommitted>>
vars == <<startvars, eventvars, purge>>

Queued   == [pc |-> "queued", todo |-> {}, failed |-> FALSE, inst |-> None, run |-> NoRun]
NoPurge  == [pc |-> "idle", version |-> 0, inst |-> None]
NoLedger == [off |-> 0, ret |-> 0, purged |-> FALSE, version |-> 0]

Init ==
    /\ StartInit
    /\ about \in Histories
    /\ event = [e \in Event |-> Queued]
    /\ processed = {} /\ lock = None /\ guard = 0
    /\ ledger = NoLedger
    /\ purge = [p \in Purger |-> NoPurge]
    /\ unreached = {} /\ uncommitted = FALSE

EventAt(e, p) == event' = [event EXCEPT ![e].pc = p]

(***************************************************************************)
(* One delivery of an event.                                               *)
(***************************************************************************)
\* alreadyProcessed; a failed check lets the event through, as does no record.
Received(e, kind, first) ==
    /\ event[e].pc = "queued" /\ about[e].kind = kind
    /\ EventAt(e, IF e \in processed THEN "done" ELSE first)
    /\ UNCHANGED <<startvars, about, processed, lock, guard, ledger, unreached, uncommitted, purge>>

HandleTenantStateChanged(e)      == Received(e, "state", "locking")
\* An offboarding without lock and guard.
HandleTenantMembershipsPurged(e) == Received(e, "memberships", "status")

\* WithLock polls: somebody else may hold the scope.
Locked(e) == lock = None /\ lock' = e
ShouldApply(e) == about[e].at > guard

\* Mutant: the recency guard is not asked.
LockOnly(e) ==
    /\ event[e].pc = "locking" /\ Locked(e)
    /\ EventAt(e, "status")
    /\ UNCHANGED <<startvars, about, processed, guard, ledger, unreached, uncommitted, purge>>

\* The lock, then the recency guard, from which offboarding is exempt.
Lock(e) ==
    /\ event[e].pc = "locking"
    /\ \/ /\ about[e].status # "offboarded" /\ ~ShouldApply(e)
          /\ lock = None /\ UNCHANGED lock
          /\ EventAt(e, "mark")
       \/ /\ about[e].status = "offboarded" \/ ShouldApply(e)
          /\ Locked(e)
          /\ EventAt(e, "status")
    /\ UNCHANGED <<startvars, about, processed, guard, ledger, unreached, uncommitted, purge>>

\* The newest change stays.
NewestState(e) == IF about[e].at >= tenant.at THEN [status |-> about[e].status, at |-> about[e].at] ELSE tenant

\* recordStatus, in front of every effect.
RecordStatus(e) ==
    /\ event[e].pc = "status"
    /\ tenant' = NewestState(e)
    /\ EventAt(e, IF ~about[e].changed THEN "plan"
                  ELSE IF about[e].status = "offboarded" THEN "list" ELSE "returned")
    /\ UNCHANGED <<row, runs, start, close, registry, faults, history, about, processed, lock, guard,
                   ledger, unreached, uncommitted, purge>>

\* The transaction of a batch holds the row of the ledger, shared with the other
\* purgers: who writes that row waits.
InBatch == {"delete", "queues", "guards"}
LedgerFree == \A p \in Purger : purge[p].pc \notin InBatch

\* RecordTenantReturned: unless the offboarding or a return on record is newer.
LedgerReturned(at) ==
    IF ledger.off < at /\ ledger.ret < at THEN [ledger EXCEPT !.ret = at, !.version = @ + 1] ELSE ledger

\* RecordTenantOffboarded: the first offboarding stays, a newer one than the
\* return on record starts afresh.
LedgerOffboarded(at) ==
    IF ledger.version = 0 \/ (ledger.ret # 0 /\ ledger.ret < at)
    THEN [off |-> at, ret |-> 0, purged |-> FALSE, version |-> ledger.version + 1] ELSE ledger

RecordReturned(e) ==
    /\ event[e].pc = "returned" /\ LedgerFree
    /\ ledger' = LedgerReturned(about[e].at)
    /\ EventAt(e, "list")
    /\ UNCHANGED <<startvars, about, processed, lock, guard, unreached, uncommitted, purge>>

\* allNonTerminalInstances: rows as they are now, with the run they name.
ListInstances(e) ==
    /\ event[e].pc = "list"
    /\ event' = [event EXCEPT ![e].pc = "sweep", ![e].failed = FALSE,
                              ![e].todo = {<<i, row[i].run>> : i \in Live}]
    /\ UNCHANGED <<startvars, about, processed, lock, guard, ledger, unreached, uncommitted, purge>>

\* signalAllNonTerminal, one instance.  The channel carries the instance id, so
\* only an execution of the instance takes the signal; none is no failure.
SignalOne(e) ==
    /\ event[e].pc = "sweep" /\ about[e].status # "offboarded"
    /\ \E x \in event[e].todo :
         LET mine == {r \in Open : runs[r].inst = x[1]}
         IN \/ /\ runs' = [r \in DOMAIN runs |->
                             IF r \in mine
                             THEN [runs[r] EXCEPT !.paused = about[e].status \in Pausing]
                             ELSE runs[r]]
               /\ unreached' = IF mine = {} THEN unreached \cup {x[1]} ELSE unreached
               /\ event' = [event EXCEPT ![e].todo = @ \ {x}]
               /\ NoFault
            \/ /\ UNCHANGED <<runs, unreached>>
               /\ event' = [event EXCEPT ![e].todo = @ \ {x}, ![e].failed = TRUE]
               /\ Fault
    /\ UNCHANGED <<row, start, close, ctxvars, history, about, processed, lock, guard, ledger,
                   uncommitted, purge>>

\* terminateOne: the execution first.  A failure is kept, the sweep goes on.
TerminateOne(e) ==
    /\ event[e].pc = "sweep" /\ about[e].status = "offboarded"
    /\ \E x \in event[e].todo :
         \/ /\ runs' = TerminateWorkflow(x[1], x[2])
            /\ event' = [event EXCEPT ![e].pc = "mark one", ![e].todo = @ \ {x},
                                      ![e].inst = x[1], ![e].run = x[2]]
            /\ NoFault
         \/ /\ UNCHANGED runs
            /\ event' = [event EXCEPT ![e].todo = @ \ {x}, ![e].failed = TRUE]
            /\ Fault
    /\ UNCHANGED <<row, start, close, ctxvars, history, about, processed, lock, guard, ledger,
                   unreached, uncommitted, purge>>

\* Its transaction: an instance that is over meanwhile is left as it is.
MarkOne(e) ==
    LET i == event[e].inst
    IN /\ event[e].pc = "mark one"
       /\ \/ /\ row' = IF i \in Live THEN [row EXCEPT ![i].status = "TERMINATED"] ELSE row
             /\ EventAt(e, "confirm one") /\ NoFault
          \/ /\ UNCHANGED row
             /\ event' = [event EXCEPT ![e].pc = "sweep", ![e].failed = TRUE] /\ Fault
       /\ UNCHANGED <<runs, start, close, ctxvars, history, about, processed, lock, guard, ledger,
                      unreached, uncommitted, purge>>

\* The second close still names the run the list read.  Best effort.
ConfirmOne(e) ==
    /\ event[e].pc = "confirm one"
    /\ EventAt(e, "sweep")
    /\ \/ runs' = TerminateWorkflow(event[e].inst, event[e].run) /\ UNCHANGED missed /\ NoFault
       \/ UNCHANGED runs /\ missed' = missed \cup {event[e].inst} /\ Fault
    /\ UNCHANGED <<row, start, close, ctxvars, late, shared, about, processed, lock, guard, ledger,
                   unreached, uncommitted, purge>>

\* Mutant: what failed in the sweep is only logged.
EndSweepAnyway(e) ==
    /\ event[e].pc = "sweep" /\ event[e].todo = {}
    /\ EventAt(e, "plan")
    /\ about[e].status = "offboarded" => LedgerFree
    /\ ledger' = IF about[e].status = "offboarded" THEN LedgerOffboarded(about[e].at) ELSE ledger
    /\ UNCHANGED <<startvars, about, processed, lock, guard, unreached, uncommitted, purge>>

\* The end of a sweep: any failure fails the event, which is delivered again.
EndSweep(e) ==
    /\ event[e].pc = "sweep" /\ event[e].todo = {}
    /\ \/ /\ event[e].failed
          /\ event' = [event EXCEPT ![e] = Queued]
          /\ lock' = IF lock = e THEN None ELSE lock
          /\ UNCHANGED ledger
       \/ /\ ~event[e].failed
          /\ EventAt(e, "plan")
          /\ about[e].status = "offboarded" => LedgerFree
          /\ ledger' = IF about[e].status = "offboarded" THEN LedgerOffboarded(about[e].at) ELSE ledger
          /\ UNCHANGED lock
    /\ UNCHANGED <<startvars, about, processed, guard, unreached, uncommitted, purge>>

\* Register, or StopRouting; a queue's row is kept.
RegistryAfter(plan) ==
    CASE plan = "enterprise" -> "routable"
      [] plan = "other" /\ registry # "none" -> "stopped"
      [] OTHER -> registry

ApplyPlanChange(e) ==
    /\ event[e].pc = "plan"
    /\ registry' = RegistryAfter(about[e].plan)
    /\ EventAt(e, IF about[e].kind = "state" THEN "commit" ELSE "mark")
    /\ UNCHANGED <<row, runs, start, close, tenant, faults, history, about, processed, lock, guard,
                   ledger, unreached, uncommitted, purge>>

\* The recency commit, best effort, and the unlock.
Commit(e) ==
    /\ event[e].pc = "commit"
    /\ \/ /\ guard' = IF ShouldApply(e) THEN about[e].at ELSE guard
          /\ UNCHANGED uncommitted /\ NoFault
       \/ /\ UNCHANGED guard
          /\ uncommitted' = TRUE /\ Fault
    /\ lock' = None
    /\ EventAt(e, "mark")
    /\ UNCHANGED <<row, runs, start, close, ctxvars, history, about, processed, ledger, unreached, purge>>

\* respondOK: the record is the last step, and best effort.
MarkProcessed(e) ==
    /\ event[e].pc = "mark"
    /\ \/ processed' = processed \cup {e} /\ NoFault
       \/ UNCHANGED processed /\ Fault
    /\ EventAt(e, "done")
    /\ UNCHANGED <<row, runs, start, close, ctxvars, history, about, lock, guard, ledger, unreached,
                   uncommitted, purge>>

\* The queue delivers again what it was not told is done, or once too often.
Redeliver(e) ==
    /\ event[e].pc = "done" /\ Fault
    /\ event' = [event EXCEPT ![e] = Queued]
    /\ UNCHANGED <<row, runs, start, close, ctxvars, history, about, processed, lock, guard, ledger,
                   unreached, uncommitted, purge>>

\* The process or one of its calls fails: the lock goes with the connection.
\* Before the status is recorded there is nothing to lose.
EventDies(e) ==
    /\ event[e].pc \notin {"queued", "locking", "status", "done"} /\ Fault
    /\ event' = [event EXCEPT ![e] = Queued]
    /\ lock' = IF lock = e THEN None ELSE lock
    /\ missed' = IF event[e].pc = "confirm one" THEN missed \cup {event[e].inst} ELSE missed
    /\ UNCHANGED <<row, runs, start, close, ctxvars, late, shared, about, processed, guard, ledger,
                   unreached, uncommitted, purge>>

(***************************************************************************)
(* The purge.                                                              *)
(***************************************************************************)
\* Offboarded, not returned and not purged yet, its retention period over.
Due == ledger.off # 0 /\ ledger.ret = 0 /\ ~ledger.purged

\* Tick.  The retention period outlasts every request: none is under way.
ListDue(p) ==
    /\ purge[p].pc = "idle" /\ Due
    /\ \A s \in Starter : start[s].pc \in {"new", "done", "refused", "failed"}
    /\ \A c \in Closer : ~Closing(c)
    /\ purge' = [purge EXCEPT ![p] = [NoPurge EXCEPT !.pc = "batch", !.version = ledger.version]]
    /\ UNCHANGED <<startvars, eventvars>>

\* Mutant: a batch does not look at the ledger again.
CurrentAsListed(p) == purge[p].pc = "batch"
\* lockCurrentRetention: the version the due list read, and not returned.
Current(p) == ledger.version = purge[p].version /\ ledger.ret = 0

Rows == {i \in Inst : row[i].status \notin {"none", "purged"}}
HasRows == Rows # {} \/ registry # "none" \/ guard # 0

PurgeAt(p, pc) == purge' = [purge EXCEPT ![p].pc = pc, ![p].inst = None]
PurgeStops(p)  == purge' = [purge EXCEPT ![p] = NoPurge]
purgeKeeps == <<runs, start, close, tenant, faults, history, about, event, processed, lock,
                unreached, uncommitted>>

\* A batch is one transaction of several statements, each of which sees what is
\* committed by then, and it ends with the first that deletes something.  The
\* delete of the instances, with their tasks, chooses one row here ...
PurgeBatch(p) ==
    /\ purge[p].pc = "batch"
    /\ \/ ~Current(p) /\ PurgeStops(p)
       \/ Current(p) /\ Rows = {} /\ PurgeAt(p, "queues")
       \/ /\ Current(p)
          /\ \E i \in Rows : purge' = [purge EXCEPT ![p].pc = "delete", ![p].inst = i]
    /\ UNCHANGED <<purgeKeeps, row, registry, guard, ledger>>

\* ... and finds it gone when another replica has deleted it meanwhile: then it
\* goes on to the next table, whatever rows are left.
PurgeInstances(p) ==
    /\ purge[p].pc = "delete"
    /\ \/ /\ purge[p].inst \in Rows
          /\ row' = [row EXCEPT ![purge[p].inst].status = "purged"]
          /\ PurgeAt(p, "batch")
       \/ /\ purge[p].inst \notin Rows
          /\ PurgeAt(p, "queues") /\ UNCHANGED row
    /\ UNCHANGED <<purgeKeeps, registry, guard, ledger>>

PurgeQueues(p) ==
    /\ purge[p].pc = "queues"
    /\ registry' = "none"
    /\ PurgeAt(p, IF registry # "none" THEN "batch" ELSE "guards")
    /\ UNCHANGED <<purgeKeeps, row, guard, ledger>>

\* Nothing was deleted at all when the guards are gone too.
PurgeGuards(p) ==
    /\ purge[p].pc = "guards"
    /\ guard' = 0
    /\ PurgeAt(p, IF guard # 0 THEN "batch" ELSE "check")
    /\ UNCHANGED <<purgeKeeps, row, registry, ledger>>

\* RecordFailure and MarkPurged name the version the due list read.
AsListed(p) == ledger.version = purge[p].version
LedgerFailed(p) == IF AsListed(p) THEN [ledger EXCEPT !.version = @ + 1] ELSE ledger
LedgerPurged(p) == IF AsListed(p) THEN [ledger EXCEPT !.purged = TRUE, !.version = @ + 1] ELSE ledger

\* Mutant: a pass that deletes nothing is taken for the end.
EmptyPassIsEmpty(p) ==
    /\ purge[p].pc = "check"
    /\ PurgeAt(p, "empty")
    /\ UNCHANGED <<purgeKeeps, row, registry, guard, ledger>>

\* HasRows: rows that remain, like any failure, are an attempt: next time, after
\* a backoff.
CheckRows(p) ==
    /\ purge[p].pc = "check"
    /\ \/ ~HasRows /\ PurgeAt(p, "empty") /\ UNCHANGED ledger /\ NoFault
       \/ /\ HasRows /\ Fault
          /\ AsListed(p) => LedgerFree
          /\ ledger' = LedgerFailed(p)
          /\ PurgeStops(p)
    /\ UNCHANGED <<row, runs, start, close, ctxvars, history, about, event, processed, lock, guard,
                   unreached, uncommitted>>

MarkPurged(p) ==
    /\ purge[p].pc = "empty"
    /\ AsListed(p) => LedgerFree
    /\ ledger' = LedgerPurged(p)
    /\ PurgeStops(p)
    /\ UNCHANGED <<startvars, about, event, processed, lock, guard, unreached, uncommitted>>

(***************************************************************************)
(* The execution writes the status its last signal gave it.                *)
(***************************************************************************)
WriteStatus(r) ==
    LET i == runs[r].inst
        status == IF runs[r].paused THEN "PAUSED" ELSE "RUNNING"
    IN /\ r \in Open /\ i \in Live /\ row[i].status # status
       /\ row' = [row EXCEPT ![i].status = status]
       /\ UNCHANGED <<runs, start, close, ctxvars, faults, history, about, eventvars, purge>>

Deliver(e) ==
    \/ HandleTenantStateChanged(e) \/ HandleTenantMembershipsPurged(e) \/ Lock(e) \/ RecordStatus(e) \/ RecordReturned(e) \/ ListInstances(e)
    \/ SignalOne(e) \/ TerminateOne(e) \/ MarkOne(e) \/ ConfirmOne(e) \/ EndSweep(e)
    \/ ApplyPlanChange(e) \/ Commit(e) \/ MarkProcessed(e)

PurgeStep(p) ==
    \/ ListDue(p) \/ PurgeBatch(p) \/ PurgeInstances(p) \/ PurgeQueues(p) \/ PurgeGuards(p)
    \/ CheckRows(p) \/ MarkPurged(p)

Next ==
    \/ StartNext /\ UNCHANGED <<eventvars, purge>>
    \/ \E e \in Event : Deliver(e) \/ Redeliver(e) \/ EventDies(e)
    \/ \E p \in Purger : PurgeStep(p)
    \/ \E r \in DOMAIN runs : WriteStatus(r)

Spec == Init /\ [][Next]_vars

-----------------------------------------------------------------------------
\* The events, what the tenant has on record, and the purges.  The scope of the
\* recency lock is held by the state change between its check and its commit and
\* by nobody else (WithLock), and no purge works with a version of the ledger that
\* is still to come.
Held == {"status", "returned", "list", "sweep", "mark one", "confirm one", "plan", "commit"}
EventRecord ==
    [pc : Held \cup {"queued", "locking", "mark", "done"}, todo : SUBSET (Inst \X RunIds),
     failed : BOOLEAN, inst : Inst \cup {None}, run : RunIds]
EventsOK ==
    /\ about \in Histories
    /\ event \in [Event -> EventRecord]
    /\ processed \subseteq Event /\ unreached \subseteq Inst /\ uncommitted \in BOOLEAN
LockOK ==
    /\ lock \in Event \cup {None}
    /\ \A e \in Event : lock = e <=> about[e].kind = "state" /\ event[e].pc \in Held
TenantOK ==
    /\ tenant \in [status : Running \cup Pausing \cup {"offboarded"}, at : Nat]
    /\ guard \in Nat
    /\ ledger \in [off : Nat, ret : Nat, purged : BOOLEAN, version : Nat]
PurgeRecord ==
    [pc : InBatch \cup {"idle", "batch", "check", "empty"}, version : Nat, inst : Inst \cup {None}]
PurgeOK ==
    /\ purge \in [Purger -> PurgeRecord]
    /\ \A p \in Purger : purge[p].version <= ledger.version

\* Every variable keeps its shape.
TypeOK == StartTypeOK /\ EventsOK /\ LockOK /\ TenantOK /\ PurgeOK

\* Once the offboarding is on the ledger, nothing of the tenant is left running:
\* what is live then was written by a start that had passed the gate before the
\* tenant's status was recorded.
OffboardedLeavesNothing ==
    tenant.status = "offboarded" /\ ledger.off = tenant.at /\ ledger.ret = 0 => Live \subseteq late

\* A suspension and a reactivation that arrive in the wrong order, again or in
\* parts do not leave the tenant in the older state: when every event has been
\* handled, its status is the newest event's and its instances are paused or not
\* accordingly, the ones a sweep could reach.
NewestStatusWins ==
    (\A e \in Event : event[e].pc = "done") /\ ~uncommitted =>
      \A e \in Event : (\A f \in Event : about[f].at <= about[e].at) =>
        /\ tenant.status = about[e].status
        /\ \A r \in Open :
             /\ runs[r].inst \in Live \ (late \cup unreached \cup shared)
             /\ Cardinality(RunsOf(runs[r].inst)) = 1
             /\ about[e].changed
             => runs[r].paused = (about[e].status \in Pausing)

\* An event that is not applied because of a newer one: an offboarding, or one that
\* did not change the status and so records no return.
Overtaken(e) ==
    \E f \in Event : /\ about[e].at < about[f].at /\ about[f].at <= tenant.at
                     /\ about[f].status = "offboarded" \/ ~about[f].changed

\* No row of a tenant is deleted after an event that brought it back was handled,
\* unless the tenant was offboarded again or the event was overtaken.
PurgeSparesReturned ==
    [][\A i \in Inst : row'[i].status = "purged" /\ row[i].status # "purged" =>
         \A e \in Event :
           event[e].pc = "done" /\ about[e].changed /\ about[e].status # "offboarded"
           => about[e].at <= ledger.off \/ Overtaken(e)]_vars

\* A tenant that is marked as purged, and was not brought back, has no instance
\* left but those of starts that had passed the gate before it was offboarded:
\* two replicas that take each other's rows do not mark it too early.
PurgedLeavesNothing ==
    tenant.status = "offboarded" /\ ledger.off = tenant.at /\ ledger.ret = 0 /\ ledger.purged
    => Rows \subseteq late

(***************************************************************************)
(* What the documentation says and the code does not do.                   *)
(***************************************************************************)
\* "a row is never deleted while the tenant has an instance (only the tenant's
\* purge removes it, after every instance is gone)".
QueueOutlivesInstances == \A i \in Rows : row[i].queue = "tenant" => registry # "none"

=============================================================================
