----------------------------- MODULE Delegation -----------------------------
(***************************************************************************)
(* What the events about a user do to the work the user holds.             *)
(* DelegationStarted moves the delegator's assignments to the delegate,    *)
(* DelegationEnded moves the tagged ones back, UserAvailabilityChanged     *)
(* records an absence and pauses or resumes the user's instances,          *)
(* UserDeleted and MembershipRevoked vacate, and Definition Service calls  *)
(* the delegate endpoints beside them, and the assignees of a task that    *)
(* all may do claim it.  Events come at least once, in any order, two      *)
(* deliveries of one event may overlap, and a handler may fail or die      *)
(* between any two of its steps.                                           *)
(***************************************************************************)
EXTENDS Integers, Sequences

CONSTANTS
    Task, Inst, InstOf,  \* the tasks and the instance of each
    Joint,               \* the tasks of assignee mode "all", which can be claimed
    Delivery,            \* the deliveries of events
    Scenarios,           \* what the deliveries carry, who holds what, which call is made
    MaxFaults,           \* bound: failed calls, failed statements and crashes
    None

Delegator == "delegator"
Delegate  == "delegate"
User      == {Delegator, Delegate, "other"}

\* id names the event: two deliveries may carry one.  scope: the tasks the
\* delegation covers (all, a department's or a tender's).  ok: the tasks whose
\* level the new assignee has.
Content ==
    [id : STRING, kind : {"started", "ended", "availability", "deleted", "revoked"}, user : User,
     status : {"available", "busy", "ooo", None}, delegate : BOOLEAN, at : Nat,
     reassigned : BOOLEAN, scope : SUBSET Task, ok : SUBSET Task]
Row == [user : User, tag : BOOLEAN, active : BOOLEAN]

ASSUME ScenarioAssumption ==
    /\ InstOf \in [Task -> Inst] /\ Joint \subseteq Task /\ "call" \notin Delivery
    /\ \A s \in Scenarios :
         /\ s.about \in [Delivery -> Content]
         /\ s.rows \in [Task -> Seq(Row)] /\ s.lead \in [Task -> SUBSET Nat]
         /\ s.call \in {"none", "reassign", "cancel", "pause"}
    /\ MaxFaults \in Nat

\* Every task is assigned at first, claimed by somebody who holds it if it is
\* claimed at all, and to nobody twice (the unique index on active rows).
ASSUME RowsAssumption ==
    \A s \in Scenarios, t \in Task :
      /\ \E k \in DOMAIN s.rows[t] : s.rows[t][k].active
      /\ s.lead[t] \subseteq DOMAIN s.rows[t]
      /\ s.lead[t] # {} => \E k \in s.lead[t] : s.rows[t][k].active
      /\ \A k, l \in DOMAIN s.rows[t] :
           s.rows[t][k].active /\ s.rows[t][l].active /\ s.rows[t][k].user = s.rows[t][l].user => k = l

\* An event id names one event; two changes of a user's availability with one
\* time say the same, and every time is after the zero time of a guard without
\* a row.
ASSUME EventsAssumption ==
    \A s \in Scenarios : \A d, e \in Delivery :
      /\ s.about[d].id = s.about[e].id => s.about[d] = s.about[e]
      /\ s.about[d].kind = "availability" =>
           /\ s.about[d].at > 0
           /\ s.about[e].kind = "availability" /\ s.about[d].at = s.about[e].at
              => s.about[d].status = s.about[e].status /\ s.about[d].delegate = s.about[e].delegate

\* An assignment that was read.
Entry == [task : Task, row : Nat]

ASSUME NoneAssumption ==
    None \notin Delivery \cup {"available", "busy", "ooo", "safety_net", "pause", "resume"}
    /\ None \notin Entry

VARIABLES
    about,      \* the event each delivery carries
    delivery,   \* where each delivery is, what it read, whom it still has to signal
    processed,  \* processed_events
    lock,       \* the advisory lock of the delegator's availability scope
    guard,      \* event_recency_guard of that scope, 0 for no row
    avail,      \* user_availability of the delegator
    rows,       \* workflow_task_assignment: the rows of a task, a row's index its id
    lead,       \* the rows of a task with is_lead
    led,        \* the assignments a delivery, or the call, read with is_lead
    claim,      \* the row a claim is about to make the lead, 0 for none
    inst,       \* each instance: who paused the workflow, and the stored status
    call,       \* the delegate or pause-tasks request
    faults,
    unsignalled,\* History: a best-effort pause or resume did not arrive
    unseen,     \* History: paused when a reversal, from an older read, skipped its resume
    late,       \* History: a reroute committed after a reversal had read its rows
    skipped,    \* History: left where it was, because its task or plan could not be read
    unheld,     \* History: vacated for good, by a call, a deletion or a failed create
    crossed     \* History: its last claim was of a row that was being moved, or had been

eventvars == <<about, delivery, processed, lock, guard>>
history   == <<unsignalled, unseen, late, skipped, unheld>>
claims    == <<lead, led, claim, crossed>>
vars == <<eventvars, avail, rows, inst, call, faults, history, claims>>

Queued == [pc |-> "queued", list |-> {}, seen |-> [i \in Inst |-> "RUNNING"],
           todo |-> {}, verb |-> None]

Init ==
    \E s \in Scenarios :
      /\ about = s.about
      /\ delivery = [d \in Delivery |-> Queued]
      /\ processed = {} /\ lock = None /\ guard = 0
      /\ avail = [status |-> None, at |-> 0]
      /\ rows = s.rows /\ lead = s.lead
      /\ led = [r \in Delivery \cup {"call"} |-> {}]
      /\ claim = [t \in Task |-> 0] /\ crossed = {}
      /\ inst = [i \in Inst |-> [paused |-> None, status |-> "RUNNING"]]
      /\ call = [kind |-> s.call, pc |-> "idle", list |-> {}, cur |-> None]
      /\ faults = 0
      /\ unsignalled = {} /\ unseen = {} /\ late = FALSE /\ skipped = {} /\ unheld = {}

Fault   == faults < MaxFaults /\ faults' = faults + 1
NoFault == UNCHANGED faults
At(d, p) == delivery' = [delivery EXCEPT ![d].pc = p]

\* ListActiveByUser: the rows by id.
RowOf(x) == rows[x.task][x.row]
ActiveRows(u) ==
    UNION {{[task |-> t, row |-> k] :
              k \in {k \in DOMAIN rows[t] : rows[t][k].active /\ rows[t][k].user = u}} : t \in Task}
\* The reason of the row names the delegation.
Tagged(list) == {x \in list : RowOf(x).tag}
\* Read with the lead flag set.
Leads(list) == {x \in list : x.row \in lead[x.task]}
InstancesOf(list) == {InstOf[x.task] : x \in list}

(***************************************************************************)
(* The workflow's side (external): the first pause owns the instance, a    *)
(* resume with initiator ooo lifts an ooo pause only, and the stored       *)
(* status follows by an activity of its own.                               *)
(***************************************************************************)
Signalled(i, verb, initiator) ==
    [inst EXCEPT ![i].paused =
       IF verb = "pause" THEN (IF @ = None THEN initiator ELSE @)
                         ELSE (IF @ = initiator THEN None ELSE @)]

StoredStatus(i) == IF inst[i].paused = None THEN "RUNNING" ELSE "PAUSED"

WriteStatus(i) ==
    /\ inst[i].status # StoredStatus(i)
    /\ inst' = [inst EXCEPT ![i].status = StoredStatus(i)]
    /\ UNCHANGED <<eventvars, avail, rows, call, faults, history, claims>>

(***************************************************************************)
(* The deliveries.                                                         *)
(***************************************************************************)
\* Mutant: the event is recorded on arrival.
ReceivedRecorded(d, kind, first) ==
    /\ delivery[d].pc = "queued" /\ about[d].kind = kind
    /\ At(d, IF about[d].id \in processed THEN "done" ELSE first)
    /\ processed' = processed \cup {about[d].id}
    /\ UNCHANGED <<about, lock, guard, avail, rows, inst, call, faults, history, claims>>

\* alreadyProcessed: a failed check lets the event through.
Received(d, kind, first) ==
    /\ delivery[d].pc = "queued" /\ about[d].kind = kind
    /\ \/ At(d, IF about[d].id \in processed THEN "done" ELSE first) /\ NoFault
       \/ about[d].id \in processed /\ At(d, first) /\ Fault
    /\ UNCHANGED <<about, processed, lock, guard, avail, rows, inst, call, history, claims>>

HandleDelegationStarted(d)       == Received(d, "started", "read")
HandleDelegationEnded(d)         == Received(d, "ended", "read")
HandleUserAvailabilityChanged(d) == Received(d, "availability", "locking")
HandleUserDeleted(d)             == Received(d, "deleted", "vacate")
HandleMembershipRevoked(d)       == Received(d, "revoked", "vacate")

ScopeMatches(d, list) == {x \in list : x.task \in about[d].scope}

\* Of a level the new assignee has.
Eligible(d, list) == {x \in list : x.task \in about[d].ok}

\* resolveCandidates: a row whose task, instance or plan cannot be read is
\* skipped and the event goes on without it.
Candidates(d, list, next) ==
    /\ \/ /\ delivery' = [delivery EXCEPT ![d].list = list, ![d].seen = [i \in Inst |-> inst[i].status],
                                          ![d].pc = IF list = {} THEN "mark" ELSE next]
          /\ led' = [led EXCEPT ![d] = Leads(list)]
          /\ UNCHANGED skipped /\ NoFault
       \/ \E x \in list :
            /\ delivery' = [delivery EXCEPT ![d].list = list \ {x}, ![d].seen = [i \in Inst |-> inst[i].status],
                                            ![d].pc = IF list = {x} THEN "mark" ELSE next]
            /\ led' = [led EXCEPT ![d] = Leads(list \ {x})]
            /\ skipped' = skipped \cup {x.task} /\ Fault
    /\ UNCHANGED <<about, processed, lock, guard, avail, rows, inst, call, unsignalled, unseen, late, unheld, lead, claim, crossed>>

\* The assignments, their tasks and instances, the plan and the eligibility of
\* the new assignee, before any lock and any change.  A return looks at the tag
\* of a row, not at the scope.
Reroute(d) ==
    /\ delivery[d].pc = "read" /\ about[d].kind = "started"
    /\ Candidates(d, Eligible(d, ScopeMatches(d, ActiveRows(Delegator))), "commit")

Reverse(d) ==
    /\ delivery[d].pc = "read" /\ about[d].kind = "ended"
    /\ Candidates(d, Eligible(d, Tagged(ActiveRows(Delegate))), "locking")

\* WithLock polls.  UserAvailabilityChanged then asks the recency guard.
LockAvailability(d) ==
    /\ delivery[d].pc = "locking" /\ about[d].kind = "availability" /\ lock = None
    /\ IF guard >= about[d].at THEN At(d, "mark") /\ UNCHANGED lock
                               ELSE At(d, "record") /\ lock' = d
    /\ UNCHANGED <<about, processed, guard, avail, rows, inst, call, faults, history, claims>>

\* Mutant: the arrival order decides.
RecordLatest(d) ==
    /\ delivery[d].pc = "record"
    /\ avail' = [status |-> about[d].status, at |-> about[d].at]
    /\ At(d, IF about[d].status = "busy" \/ (about[d].status = "ooo" /\ about[d].delegate)
             THEN "recency" ELSE "list")
    /\ UNCHANGED <<about, processed, lock, guard, rows, inst, call, faults, history, claims>>

\* The newest change stays.
Newer(d) == about[d].at >= avail.at
\* Apply: a status of none of the three kinds, or an older change, writes
\* nothing and does nothing; busy, and ooo with a delegate, are only recorded.
Record(d) ==
    /\ delivery[d].pc = "record"
    /\ LET written == about[d].status # None /\ Newer(d)
           quiet   == about[d].status = "busy" \/ (about[d].status = "ooo" /\ about[d].delegate)
       IN /\ avail' = IF written THEN [status |-> about[d].status, at |-> about[d].at] ELSE avail
          /\ At(d, IF ~written \/ quiet THEN "recency" ELSE "list")
    /\ UNCHANGED <<about, processed, lock, guard, rows, inst, call, faults, history, claims>>

\* signalActiveInstances: the instances of the rows active now.
ListInstances(d) ==
    /\ delivery[d].pc = "list"
    /\ delivery' = [delivery EXCEPT ![d].pc = "signal", ![d].todo = InstancesOf(ActiveRows(Delegator)),
                      ![d].verb = IF about[d].status = "ooo" THEN "pause" ELSE "resume"]
    /\ UNCHANGED <<about, processed, lock, guard, avail, rows, inst, call, faults, history, claims>>

\* One instance.  A failed signal is logged and the event goes on.
SignalActive(d) ==
    /\ delivery[d].pc = "signal"
    /\ \E i \in delivery[d].todo :
         /\ delivery' = [delivery EXCEPT ![d].todo = @ \ {i}]
         /\ \/ inst' = Signalled(i, delivery[d].verb, "ooo") /\ NoFault /\ UNCHANGED unsignalled
            \/ UNCHANGED inst /\ Fault /\ unsignalled' = unsignalled \cup {i}
    /\ UNCHANGED <<about, processed, lock, guard, avail, rows, call, unseen, late, skipped, unheld, claims>>

\* Commit keeps the newest time; its failure is logged.  Then the unlock.
CommitRecency(d) ==
    /\ \/ delivery[d].pc = "recency"
       \/ delivery[d].pc = "signal" /\ delivery[d].todo = {}
    /\ \/ guard' = (IF about[d].at > guard THEN about[d].at ELSE guard) /\ NoFault
       \/ UNCHANGED guard /\ Fault
    /\ At(d, "mark")
    /\ lock' = None
    /\ UNCHANGED <<about, processed, avail, rows, inst, call, history, claims>>

IsOutOfOffice == avail.status = "ooo"

\* settleOutOfOfficePauses, from the status of the delegator now and the
\* instances as they were read: whom to pause or resume.
Settlement(d) ==
    LET affected == InstancesOf(delivery[d].list)
    IN CASE ~IsOutOfOffice ->
              [verb |-> "resume", todo |-> {i \in affected : delivery[d].seen[i] = "PAUSED"}]
         [] IsOutOfOffice /\ about[d].reassigned -> [verb |-> None, todo |-> {}]
         [] OTHER -> [verb |-> "pause", todo |-> affected]

\* Mutant: the absence is looked up without the user's lock.
SettleUnlocked(d) ==
    /\ delivery[d].pc = "locking" /\ about[d].kind = "ended"
    /\ delivery' = [delivery EXCEPT ![d].pc = "settle", ![d].verb = Settlement(d).verb,
                                    ![d].todo = Settlement(d).todo]
    /\ UNCHANGED <<about, processed, lock, guard, avail, rows, inst, call, faults, history, claims>>

\* Mutant: nobody looks at the instance before it is handed back.
SettleNothing(d) ==
    /\ delivery[d].pc = "locking" /\ about[d].kind = "ended" /\ lock = None
    /\ lock' = d
    /\ At(d, "settle")
    /\ UNCHANGED <<about, processed, guard, avail, rows, inst, call, faults, history, claims>>

\* Reverse takes the delegator's availability lock and reads the status.
LockReversal(d) ==
    /\ delivery[d].pc = "locking" /\ about[d].kind = "ended" /\ lock = None
    /\ lock' = d
    /\ delivery' = [delivery EXCEPT ![d].pc = "settle", ![d].verb = Settlement(d).verb,
                                    ![d].todo = Settlement(d).todo]
    /\ unseen' = IF Settlement(d).verb = "resume"
                 THEN unseen \cup {i \in InstancesOf(delivery[d].list) \ Settlement(d).todo :
                                     inst[i].paused = "ooo"}
                 ELSE unseen
    /\ UNCHANGED <<about, processed, guard, avail, rows, inst, call, faults, unsignalled, late, skipped, unheld, claims>>

\* signalRestoredInstances, one instance; a failed one fails the event (Fail).
SettleOne(d) ==
    /\ delivery[d].pc = "settle"
    /\ \E i \in delivery[d].todo :
         /\ inst' = Signalled(i, delivery[d].verb, "ooo")
         /\ delivery' = [delivery EXCEPT ![d].todo = @ \ {i}]
    /\ UNCHANGED <<about, processed, lock, guard, avail, rows, call, faults, history, claims>>

(***************************************************************************)
(* commitReassignments: one transaction vacates every row that was read,   *)
(* whatever it is by now, and creates the new assignee's rows, which take  *)
(* over the lead flag as it was read.  An active row of the new assignee   *)
(* is a unique violation; Postgres (external) then refuses every further   *)
(* statement of the transaction, so adoptExistingAssignment and the outbox *)
(* write behind it fail and the transaction rolls back.                    *)
(***************************************************************************)
NewAssignee(d) == IF about[d].kind = "started" THEN Delegate ELSE Delegator
Holds(u, t) == \E k \in DOMAIN rows[t] : rows[t][k].active /\ rows[t][k].user = u
Vacated(x) == [rows[x.task] EXCEPT ![x.row].active = FALSE]

Committed(d) ==
    [t \in Task |->
       IF \E x \in delivery[d].list : x.task = t
       THEN LET x == CHOOSE y \in delivery[d].list : y.task = t
            IN Append(Vacated(x), [user |-> NewAssignee(d), tag |-> about[d].kind = "started",
                                   active |-> TRUE])
       ELSE rows[t]]

\* Mutant: the new rows start without the claim.
InheritNothing(d) == lead

\* IsLead: c.assignment.IsLead.
Inherited(d) ==
    [t \in Task |-> IF \E x \in led[d] : x.task = t THEN lead[t] \cup {Len(rows[t]) + 1} ELSE lead[t]]

Release(d) == lock' = IF lock = d THEN None ELSE lock
AtFresh(d, p) ==
    delivery' = [delivery EXCEPT ![d] = [Queued EXCEPT !.pc = p]] /\ led' = [led EXCEPT ![d] = {}]

AtCommit(d) ==
    \/ delivery[d].pc = "commit"
    \/ delivery[d].pc = "settle" /\ delivery[d].todo = {}

\* Mutant: the statements are not one transaction.
CommitStepwise(d) ==
    /\ AtCommit(d)
    /\ \A x \in delivery[d].list : ~Holds(NewAssignee(d), x.task)
    /\ \/ rows' = Committed(d) /\ lead' = Inherited(d) /\ AtFresh(d, "mark") /\ NoFault
       \/ /\ rows' = [t \in Task |-> IF \E x \in delivery[d].list : x.task = t
                                     THEN Vacated(CHOOSE y \in delivery[d].list : y.task = t)
                                     ELSE rows[t]]
          /\ AtFresh(d, "queued") /\ Fault /\ UNCHANGED lead
    /\ late' = (late \/ \E e \in Delivery : about[e].kind = "ended"
                                               /\ delivery[e].pc \notin {"queued", "read"})
    /\ Release(d)
    /\ UNCHANGED <<about, processed, guard, avail, inst, call, unsignalled, unseen, skipped, unheld, claim, crossed>>

Commit(d) ==
    /\ AtCommit(d)
    /\ \A x \in delivery[d].list : ~Holds(NewAssignee(d), x.task)
    /\ rows' = Committed(d) /\ lead' = Inherited(d)
    /\ late' = (late \/ (/\ about[d].kind = "started"
                         /\ \E e \in Delivery : about[e].kind = "ended"
                                                  /\ delivery[e].pc \notin {"queued", "read"}))
    /\ AtFresh(d, "mark")
    /\ Release(d)
    /\ UNCHANGED <<about, processed, guard, avail, inst, call, faults, unsignalled, unseen, skipped, unheld, claim, crossed>>

RollBack(d) ==
    /\ AtCommit(d)
    /\ \E x \in delivery[d].list : Holds(NewAssignee(d), x.task)
    /\ AtFresh(d, "queued")
    /\ Release(d)
    /\ UNCHANGED <<about, processed, guard, avail, rows, inst, call, faults, history, lead, claim, crossed>>

\* handleUserDeleted and handleMembershipRevoked: one statement.
VacateAssignments(d) ==
    LET gone == ActiveRows(about[d].user)
    IN /\ delivery[d].pc = "vacate"
       /\ rows' = [t \in Task |-> [k \in DOMAIN rows[t] |->
                     IF rows[t][k].user = about[d].user THEN [rows[t][k] EXCEPT !.active = FALSE]
                                                         ELSE rows[t][k]]]
       /\ unheld' = unheld \cup {x.task : x \in gone}
       /\ AtFresh(d, "mark")
       /\ UNCHANGED <<about, processed, lock, guard, avail, inst, call, faults, unsignalled, unseen, late, skipped, lead, claim, crossed>>

\* respondOK: a failed MarkProcessed is logged, the event is acknowledged all the same.
MarkProcessed(d) ==
    /\ delivery[d].pc = "mark"
    /\ \/ processed' = processed \cup {about[d].id} /\ NoFault
       \/ UNCHANGED processed /\ Fault
    /\ AtFresh(d, "done")
    /\ UNCHANGED <<about, lock, guard, avail, rows, inst, call, history, lead, claim, crossed>>

\* Mutant: the lock stays with a handler that failed.
FailLocked(d) ==
    /\ delivery[d].pc \notin {"queued", "done"}
    /\ AtFresh(d, "queued")
    /\ Fault
    /\ UNCHANGED <<about, processed, lock, guard, avail, rows, inst, call, history, lead, claim, crossed>>

\* A failed read, statement, signal of a reversal or wait for the lock answers
\* 5xx, and a crash answers nothing: the unlock (or the closed connection)
\* frees the lock, and the event is delivered again.
Fail(d) ==
    /\ delivery[d].pc \notin {"queued", "done"}
    /\ AtFresh(d, "queued")
    /\ Release(d)
    /\ Fault
    /\ UNCHANGED <<about, processed, guard, avail, rows, inst, call, history, lead, claim, crossed>>

(***************************************************************************)
(* The synchronous calls of Definition Service, not one transaction: a     *)
(* request with no delegation's id is about every row of the delegate.     *)
(***************************************************************************)
CallRead ==
    /\ call.kind # "none" /\ call.pc = "idle"
    /\ \E list \in IF call.kind = "pause" THEN {ActiveRows(Delegator)}
                    ELSE {ActiveRows(Delegate), Tagged(ActiveRows(Delegate))} :
         /\ call' = [call EXCEPT !.pc = "rows", !.list = list]
         /\ led' = [led EXCEPT !["call"] = Leads(list)]
    /\ UNCHANGED <<eventvars, avail, rows, inst, faults, history, lead, claim, crossed>>

\* An unreadable task, an ineligible delegate or a failed vacate leaves the
\* row as it is.
Passed(x) == call' = [call EXCEPT !.list = @ \ {x}] /\ UNCHANGED <<rows, unheld>>

\* ReassignDelegate, one row: vacated first, the replacement comes after it.
CallReassign ==
    /\ call.kind = "reassign" /\ call.pc = "rows" /\ call.cur = None
    /\ \E x \in call.list :
         \/ /\ rows' = [rows EXCEPT ![x.task] = Vacated(x)]
            /\ call' = [call EXCEPT !.list = @ \ {x}, !.cur = x]
            /\ UNCHANGED unheld
         \/ Passed(x)
    /\ UNCHANGED <<eventvars, avail, inst, faults, unsignalled, unseen, late, skipped, claims>>

\* CancelByDelegate, one row.
CallCancel ==
    /\ call.kind = "cancel" /\ call.pc = "rows"
    /\ \E x \in call.list :
         \/ /\ rows' = [rows EXCEPT ![x.task] = Vacated(x)]
            /\ call' = [call EXCEPT !.list = @ \ {x}]
            /\ unheld' = unheld \cup {x.task}
         \/ Passed(x)
    /\ UNCHANGED <<eventvars, avail, inst, faults, unsignalled, unseen, late, skipped, claims>>

\* The replacement keeps reason and lead; a failed create is logged.
CallCreate ==
    /\ call.cur # None
    /\ LET x == call.cur
       IN \/ /\ ~Holds("other", x.task)
             /\ rows' = [rows EXCEPT ![x.task] =
                           Append(@, [user |-> "other", tag |-> RowOf(x).tag, active |-> TRUE])]
             /\ lead' = IF x \in led["call"] THEN [lead EXCEPT ![x.task] = @ \cup {Len(rows[x.task]) + 1}]
                                             ELSE lead
             /\ NoFault /\ UNCHANGED unheld
          \/ /\ Fault \/ (Holds("other", x.task) /\ NoFault)
             /\ unheld' = unheld \cup {x.task}
             /\ UNCHANGED <<rows, lead>>
    /\ call' = [call EXCEPT !.cur = None]
    /\ UNCHANGED <<eventvars, avail, inst, unsignalled, unseen, late, skipped, led, claim, crossed>>

\* PauseUserTasks, one instance: only one whose stored status is RUNNING.
CallPause ==
    /\ call.kind = "pause" /\ call.pc = "rows"
    /\ \E i \in InstancesOf(call.list) :
         /\ call' = [call EXCEPT !.list = {x \in @ : InstOf[x.task] # i}]
         /\ \/ inst' = (IF inst[i].status = "RUNNING" THEN Signalled(i, "pause", "safety_net")
                                                      ELSE inst) /\ NoFault
            \/ UNCHANGED inst /\ Fault
    /\ UNCHANGED <<eventvars, avail, rows, history, claims>>

CallEnd ==
    /\ call.pc = "rows" /\ call.list = {} /\ call.cur = None
    /\ call' = [call EXCEPT !.pc = "done"] /\ led' = [led EXCEPT !["call"] = {}]
    /\ UNCHANGED <<eventvars, avail, rows, inst, faults, history, lead, claim, crossed>>

(***************************************************************************)
(* Claim.  A task without a lead is claimed for one of its assignees; the  *)
(* write asks for the version of the task, which no move of an assignment  *)
(* changes, and not for the row to be active.  Of the claims that read one *)
(* version one gets through, so one is pending at a time.                  *)
(***************************************************************************)
ReadClaim(t) ==
    /\ \E k \in DOMAIN rows[t] : rows[t][k].active /\ claim' = [claim EXCEPT ![t] = k]
    /\ \A k \in lead[t] : ~rows[t][k].active
    /\ UNCHANGED <<eventvars, avail, rows, inst, call, faults, history, lead, led, crossed>>

\* The row is over, or is in a list to be moved with the flag it had before.
Underway == call.list \cup ({call.cur} \ {None}) \cup UNION {delivery[d].list : d \in Delivery}
Crossing(t) ==
    \/ ~rows[t][claim[t]].active
    \/ \E x \in Underway : x.task = t /\ x.row = claim[t]

SetLead(t) ==
    /\ claim[t] # 0
    /\ lead' = [lead EXCEPT ![t] = {claim[t]}]
    /\ claim' = [claim EXCEPT ![t] = 0]
    /\ crossed' = IF Crossing(t) THEN crossed \cup {t} ELSE crossed \ {t}
    /\ UNCHANGED <<eventvars, avail, rows, inst, call, faults, history, led>>

Handle(d) ==
    \/ HandleDelegationStarted(d) \/ HandleDelegationEnded(d) \/ HandleUserAvailabilityChanged(d)
    \/ HandleUserDeleted(d) \/ HandleMembershipRevoked(d)
    \/ Reroute(d) \/ Reverse(d) \/ LockAvailability(d) \/ Record(d) \/ ListInstances(d)
    \/ SignalActive(d) \/ CommitRecency(d) \/ LockReversal(d) \/ SettleOne(d) \/ Commit(d)
    \/ RollBack(d) \/ VacateAssignments(d) \/ MarkProcessed(d)

CallStep ==
    \/ CallRead \/ CallReassign \/ CallCancel \/ CallCreate \/ CallPause \/ CallEnd
    \/ \E t \in Joint : ReadClaim(t) \/ SetLead(t)

Next ==
    \/ \E d \in Delivery : Handle(d) \/ Fail(d)
    \/ \E i \in Inst : WriteStatus(i)
    \/ CallStep

Spec == Init /\ [][Next]_vars

\* The queue delivers until it is answered, a handler runs to its end or its
\* ten minutes, the lock is asked for every 50 ms, and the workflow's activity
\* is retried until it writes.
FairSpec ==
    /\ Spec
    /\ \A d \in Delivery : WF_vars(Handle(d))
    /\ \A i \in Inst : WF_vars(WriteStatus(i))

(***************************************************************************)
(* Properties.                                                             *)
(***************************************************************************)
Places == {"queued", "read", "locking", "record", "list", "signal", "recency", "settle", "commit",
           "vacate", "mark", "done"}
Deliveries == [pc : Places, list : SUBSET Entry, seen : [Inst -> {"RUNNING", "PAUSED"}],
               todo : SUBSET Inst, verb : {None, "pause", "resume"}]

EventsOK ==
    /\ about \in [Delivery -> Content] /\ delivery \in [Delivery -> Deliveries]
    /\ lock \in Delivery \cup {None} /\ guard \in Nat
RowsOK ==
    /\ rows \in [Task -> Seq(Row)]
    /\ \A d \in Delivery : \A x \in delivery[d].list : x.row \in DOMAIN rows[x.task]
OneRowEach ==
    \A t \in Task : \A k, l \in DOMAIN rows[t] :
      rows[t][k].active /\ rows[t][l].active /\ rows[t][k].user = rows[t][l].user => k = l
InstOK == inst \in [Inst -> [paused : {None, "ooo", "safety_net"}, status : {"RUNNING", "PAUSED"}]]
CallOK ==
    /\ call \in [kind : {"none", "reassign", "cancel", "pause"}, pc : {"idle", "rows", "done"},
                 list : SUBSET Entry, cur : Entry \cup {None}]
    /\ call.cur # None => call.pc = "rows"
ClaimOK ==
    /\ lead \in [Task -> SUBSET Nat] /\ led \in [Delivery \cup {"call"} -> SUBSET Entry]
    /\ \A d \in Delivery : led[d] \subseteq delivery[d].list
    /\ claim \in [Task -> Nat] /\ crossed \subseteq Task
    /\ \A t \in Task : lead[t] \cup ({claim[t]} \ {0}) \subseteq DOMAIN rows[t]
RestOK ==
    /\ avail \in [status : {"available", "busy", "ooo", None}, at : Nat] /\ faults \in 0..MaxFaults
    /\ unsignalled \subseteq Inst /\ unseen \subseteq Inst /\ late \in BOOLEAN
    /\ skipped \subseteq Task /\ unheld \subseteq Task

\* Every variable keeps its shape, a row that was read stays in its table, and a
\* user holds at most one active assignment of a task, whichever events, calls
\* and redeliveries create them (the unique index behind TaskAssignmentRepo.Create).
TypeOK == EventsOK /\ RowsOK /\ OneRowEach /\ InstOK /\ CallOK /\ ClaimOK /\ RestOK

Settled == \A d \in Delivery : delivery[d].pc = "done"
Active(u) == {InstOf[t] : t \in {t \in Task : Holds(u, t)}}
Newest(d) ==
    /\ about[d].kind = "availability"
    /\ \A e \in Delivery : about[e].kind = "availability" => about[e].at <= about[d].at

\* Work is handed back to an absent delegator only with its instance paused:
\* Reverse reads the absence under the lock under which it is recorded, and
\* signals before it commits.  The end of a delegation that is about to be
\* replaced is exempt (delegation_reconciler.go, settleOutOfOfficePauses).
HandedBackPaused ==
    [][\A d \in Delivery :
         (/\ about[d].kind = "ended" /\ ~about[d].reassigned
          /\ AtCommit(d) /\ delivery'[d].pc = "mark" /\ avail.status = "ooo")
           => \A x \in delivery[d].list : inst[InstOf[x.task]].paused # None]_vars

\* When every event is answered and the newest availability is out of office
\* without a delegate, what the delegator holds waits in a paused instance,
\* in whatever order and however often the events came, unless a signal was
\* lost (a failed one is only logged) or a delegation ended as reassigned.
AbsentWorkWaits ==
    (/\ Settled /\ \A d \in Delivery : ~about[d].reassigned
     /\ \E d \in Delivery : Newest(d) /\ about[d].status = "ooo" /\ ~about[d].delegate)
      => \A i \in Active(Delegator) : inst[i].paused # None \/ i \in unsignalled

\* When every event is answered and the newest availability is available, no
\* instance of what the delegator holds stays in an out-of-office pause, a
\* pause of a reversal that failed half way included, unless a signal was lost
\* or the reversal skipped the resume because the stored status it had read
\* was older than the pause (delegation_reconciler.go, signalRestoredInstances).
PresentWorkRuns ==
    (Settled /\ \E d \in Delivery : Newest(d) /\ about[d].status = "available")
      => \A i \in Active(Delegator) : inst[i].paused = "ooo" => i \in unsignalled \cup unseen

\* A delegation that ended holds nothing: when every event is answered, the
\* delegate has no active row under its tag on a task the delegator may take
\* back, unless the reroute committed after the reversal had read the rows
\* (nothing orders the two events) or the reversal could not read the task.
EndedDelegationHoldsNothing ==
    (Settled /\ ~late)
      => \A d \in Delivery : about[d].kind = "ended" =>
           \A x \in ActiveRows(Delegate) : x.task \in about[d].ok \ skipped => ~RowOf(x).tag

\* Moving work never loses it: a task keeps an active assignee through every
\* overlap, failure and redelivery of the events, because vacate and create
\* are one transaction; only a deletion, a cancellation or a failed create of
\* ReassignDelegate leaves it without one.
BetweenRows == IF call.cur = None THEN {} ELSE {call.cur.task}
WorkStaysHeld ==
    \A t \in Task \ (unheld \cup BetweenRows) : \E k \in DOMAIN rows[t] : rows[t][k].active

\* However often a claimed task is moved, by overlapping reroutes and reversals,
\* their redeliveries and a ReassignDelegate, and whoever claims it in between,
\* it has an active lead: each mover hands on the flag it has read.  Only a
\* claim that takes effect after a mover has read its row is lost.
ClaimIsCarried ==
    \A t \in Task \ (unheld \cup BetweenRows \cup crossed) :
      lead[t] # {} => \E k \in lead[t] : rows[t][k].active

\* Every event is answered in the end, no failed or dead handler keeps the lock
\* and no redelivery is refused for good, unless both users hold one task: the
\* unique violation then repeats.  With one assignee of the two at first, only
\* two deliveries of a reroute with the reversal between them bring that about.
DoublyHeld == \E t \in Task : Holds(Delegator, t) /\ Holds(Delegate, t)
EveryEventSettles == <>(Settled \/ DoublyHeld)

\* LLD 3.1: "where the delegate already holds an assignment on the same task,
\* that row stands and inherits the claim": the reroute of such a task ends.
CoAssigneeInherits == <>Settled

(***************************************************************************)
(* What the documentation says and the code does not do.                   *)
(***************************************************************************)
\* LLD 3.1: "A claimed task stays claimed by whoever now holds it".  A claim
\* between a reroute's read and its commit is copied as it was before, and the
\* row it is of is vacated.
ClaimedStaysClaimed ==
    \A t \in Task \ (unheld \cup BetweenRows) :
      lead[t] # {} => \E k \in lead[t] : rows[t][k].active

\* LLD: "status=available is what resumes" an instance whose work a later
\* DelegationStarted moved: then no instance of the delegator's tasks stays in
\* an out-of-office pause once all events are answered.
AvailableEndsThePause ==
    (Settled /\ \E d \in Delivery : Newest(d) /\ about[d].status = "available")
      => \A i \in Inst : inst[i].paused = "ooo" => i \in unsignalled \cup unseen

=============================================================================
