--------------------------- MODULE InstanceStart ---------------------------
(***************************************************************************)
(* Starting and terminating instances.  A key is a subject with a business *)
(* key of one tenant.  The service writes the row first and starts the     *)
(* execution afterwards, under a workflow id made of tenant, subject and   *)
(* business key; the key may be used again once its instance is over, so   *)
(* executions of several instances follow each other under that id.  A     *)
(* client sends a start again when it got no answer.                       *)
(***************************************************************************)
EXTENDS Integers, FiniteSets, Sequences

CONSTANTS
    Inst,       \* instance ids
    Starter,    \* start requests, each with its retries
    Closer,     \* admin terminate requests
    Key,
    KeyOf,      \* the key a start names
    In,         \* what else it asks for: version, caller, context, overrides
    None,
    startWorkflowMaxAttempts,   \* three in the code
    MaxFaults   \* bound on failed calls and on requests that die

NoRun == 0

ASSUME StartAssumption ==
    /\ MaxFaults \in Nat /\ startWorkflowMaxAttempts \in Nat \ {0}
    /\ KeyOf \in [Starter -> Key] /\ Starter \subseteq DOMAIN In
    /\ None \notin Inst \cup {In[s] : s \in Starter}

VARIABLES
    row,        \* workflow_instance
    runs,       \* the executions, oldest first; the workflow id is the key
    start,      \* where each start request is
    close,      \* where each terminate is
    tenant,     \* tenant_state: status and the time it changed
    registry,   \* active_task_queues: the row of the tenant's own queue
    faults,
    \* History.
    late,       \* its start passed the gate before the tenant became refused
    shared,     \* the key still had a request or an execution of an older instance
    missed      \* a close of the instance, or the record of its run, was not made

ctxvars   == <<tenant, registry>>
history   == <<late, shared, missed>>
startvars == <<row, runs, start, close, ctxvars, faults, history>>

NonTerminal == {"RUNNING", "PAUSED"}
Terminal    == {"COMPLETED", "TERMINATED"}
NoRow   == [status |-> "none", key |-> None, input |-> None, run |-> NoRun, queue |-> "plan"]
NoStart == [pc |-> "new", inst |-> None, run |-> NoRun, attempt |-> 0, queue |-> "plan"]
NoClose == [pc |-> "new", inst |-> None, run |-> NoRun]

StartInit ==
    /\ row = [i \in Inst |-> NoRow]
    /\ runs = << >>
    /\ start = [s \in Starter |-> NoStart]
    /\ close = [c \in Closer |-> NoClose]
    /\ tenant = [status |-> "active", at |-> 0]
    /\ faults = 0
    /\ registry = "none"
    /\ late = {} /\ shared = {} /\ missed = {}

Fault   == faults < MaxFaults /\ faults' = faults + 1
NoFault == UNCHANGED faults

Live == {i \in Inst : row[i].status \in NonTerminal}
LiveOf(k) == {i \in Live : row[i].key = k}
Open == {r \in DOMAIN runs : runs[r].open}

(***************************************************************************)
(* The Temporal client.                                                    *)
(***************************************************************************)
\* ExecuteWorkflow: an execution open under the id is returned as it is, the
\* id of a closed one is used again.
OpenOf(rs, k) == {r \in DOMAIN rs : rs[r].open /\ rs[r].key = k}
StartWorkflow(i) ==
    IF OpenOf(runs, row[i].key) # {} THEN runs
    ELSE Append(runs, [inst |-> i, key |-> row[i].key, open |-> TRUE, paused |-> FALSE])
CurrentRun(rs, k) == CHOOSE r \in OpenOf(rs, k) : TRUE

\* The run named, or whichever is current when none is; not found is success.
TerminateWorkflow(i, r) ==
    [q \in DOMAIN runs |->
       IF q = r \/ (r = NoRun /\ runs[q].key = row[i].key) THEN [runs[q] EXCEPT !.open = FALSE] ELSE runs[q]]

(***************************************************************************)
(* InstanceService.Start                                                   *)
(***************************************************************************)
StartAt(s, p) == start' = [start EXCEPT ![s].pc = p]

\* TenantStartGate.Allow; START_REFUSED_STATUSES at its default.
Refused == {"offboarded", "suspended", "trial_expired", "cancelled"}
Gate(s) ==
    /\ start[s].pc = "new"
    /\ StartAt(s, IF tenant.status \in Refused THEN "refused" ELSE "allowed")
    /\ UNCHANGED <<row, runs, close, ctxvars, faults, history>>

\* GetLiveByBusinessKey, and the comparison with what is asked for now.
Matching(s) ==
    {i \in LiveOf(KeyOf[s]) : row[i].status = "RUNNING" /\ row[i].input = In[s]}

\* Mutant: a match is returned without looking whether it was ever launched.
ResumeAsIs(s, i) ==
    start' = [start EXCEPT ![s].pc = "done", ![s].inst = i, ![s].run = row[i].run]
\* resumeStart: an instance whose run id is recorded is returned as it is.
ResumeStart(s, i) ==
    start' = [start EXCEPT ![s].pc = IF row[i].run = NoRun THEN "launch" ELSE "done",
                           ![s].inst = i, ![s].run = row[i].run]

\* matchingStart, before the plan is read.
MatchingStart(s) ==
    /\ start[s].pc = "allowed"
    /\ \/ Matching(s) = {} /\ StartAt(s, "create")
       \/ \E i \in Matching(s) : ResumeStart(s, i)
    /\ UNCHANGED <<row, runs, close, ctxvars, faults, history>>

\* The version is not published or not valid, an override names no node, an
\* assignee is not eligible, or a read failed.
Refuse(s) ==
    /\ start[s].pc = "create"
    /\ StartAt(s, "refused")
    /\ UNCHANGED <<row, runs, close, ctxvars, faults, history>>

\* A start or a terminate that is not over yet.
Launching(s) == start[s].pc \in {"launch", "record", "check"}
Closing(c)   == close[c].pc \in {"close", "mark", "confirm"}

\* resolveTaskQueue: the tenant's own queue if it is routed to, read before the
\* transaction that writes the row.
ResolveTaskQueue(s) ==
    /\ start[s].pc = "create"
    /\ start' = [start EXCEPT ![s].pc = "insert",
                             ![s].queue = IF registry = "routable" THEN "tenant" ELSE "plan"]
    /\ UNCHANGED <<row, runs, close, ctxvars, faults, history>>

\* The row of a new instance.
Inserted(i, s) ==
    row' = [row EXCEPT ![i] = [status |-> "RUNNING", key |-> KeyOf[s], input |-> In[s], run |-> NoRun,
                               queue |-> start[s].queue]]

\* Row and started event in one transaction, under the partial unique index.
Create(s) ==
    /\ start[s].pc = "insert"
    /\ \/ /\ LiveOf(KeyOf[s]) = {}
          /\ \E j \in Inst : row[j].status = "none"
          /\ LET i == CHOOSE j \in Inst : row[j].status = "none"   \* uuid.New
                 busy == \/ OpenOf(runs, KeyOf[s]) # {}
                         \/ \E q \in Starter : Launching(q) /\ KeyOf[q] = KeyOf[s]
                         \/ \E c \in Closer : Closing(c) /\ row[close[c].inst].key = KeyOf[s]
             IN /\ Inserted(i, s)
                /\ start' = [start EXCEPT ![s].pc = "launch", ![s].inst = i]
                /\ late' = IF tenant.status \in Refused THEN late \cup {i} ELSE late
                /\ shared' = IF busy THEN shared \cup {i} ELSE shared
       \/ /\ LiveOf(KeyOf[s]) # {}
          /\ StartAt(s, "duplicate")
          /\ UNCHANGED <<row, late, shared>>
    /\ UNCHANGED <<runs, close, ctxvars, faults, missed>>

\* The instance that stood in the way may be this start sent before, or over.
Duplicate(s) ==
    /\ start[s].pc = "duplicate"
    /\ \/ Matching(s) = {} /\ StartAt(s, "refused")
       \/ \E i \in Matching(s) : ResumeStart(s, i)
    /\ UNCHANGED <<row, runs, close, ctxvars, faults, history>>

\* launchWorkflow: the execution was started, or was already open.
Launched(s) ==
    /\ runs' = StartWorkflow(start[s].inst)
    /\ start' = [start EXCEPT ![s].pc = "record", ![s].run = CurrentRun(runs', row[start[s].inst].key)]

\* startWorkflowWithRetry: an attempt that fails may have had its effect.
Launch(s) ==
    /\ start[s].pc = "launch"
    /\ \/ /\ Launched(s)
          /\ UNCHANGED missed /\ NoFault
       \/ /\ Fault
          /\ runs' \in {runs, StartWorkflow(start[s].inst)}
          /\ start' = IF start[s].attempt + 1 < startWorkflowMaxAttempts
                      THEN [start EXCEPT ![s].attempt = @ + 1]
                      ELSE [start EXCEPT ![s] = [NoStart EXCEPT !.pc = "failed"]]
          /\ missed' = missed \cup {start[s].inst}
    /\ UNCHANGED <<row, close, ctxvars, late, shared>>

\* Best effort, whatever the status of the row, without a version bump.
RecordRunID(s) ==
    /\ start[s].pc = "record"
    /\ StartAt(s, "check")
    /\ \/ /\ row' = [row EXCEPT ![start[s].inst].run = start[s].run]
          /\ UNCHANGED missed /\ NoFault
       \/ /\ missed' = missed \cup {start[s].inst}
          /\ UNCHANGED row /\ Fault
    /\ UNCHANGED <<runs, close, ctxvars, late, shared>>

\* Mutant: the start is answered without reading the row again.
AnswerAtOnce(s) ==
    /\ start[s].pc = "check"
    /\ StartAt(s, "done")
    /\ UNCHANGED <<row, runs, close, ctxvars, faults, history>>

\* A start that crossed a terminate closes what it started.
AfterWorkflowStarted(s) ==
    /\ start[s].pc = "check"
    /\ StartAt(s, "done")
    /\ \/ /\ row[start[s].inst].status # "TERMINATED"
          /\ UNCHANGED <<runs, missed>> /\ NoFault
       \/ /\ row[start[s].inst].status = "TERMINATED"
          /\ runs' = TerminateWorkflow(start[s].inst, start[s].run)
          /\ UNCHANGED missed /\ NoFault
       \/ /\ Fault
          /\ missed' = missed \cup {start[s].inst}
          /\ UNCHANGED runs
    /\ UNCHANGED <<row, close, ctxvars, late, shared>>

\* The process dies, or the context ends between two attempts.  Before the row
\* is written there is nothing to lose: such a start is one not sent yet.
StartDies(s) ==
    /\ Launching(s) /\ Fault
    /\ start' = [start EXCEPT ![s] = [NoStart EXCEPT !.pc = "failed"]]
    /\ missed' = missed \cup {start[s].inst}
    /\ UNCHANGED <<row, runs, close, ctxvars, late, shared>>

\* The client got a 5xx or no answer and sends the same start again.
Retry(s) ==
    /\ start[s].pc = "failed"
    /\ start' = [start EXCEPT ![s] = NoStart]
    /\ UNCHANGED <<row, runs, close, ctxvars, faults, history>>

(***************************************************************************)
(* InstanceService.Terminate                                               *)
(***************************************************************************)
CloseAt(c, p) == close' = [close EXCEPT ![c].pc = p]

\* Mutant: an instance that is over is not turned away.
TerminateAny(c) ==
    /\ close[c].pc = "new"
    /\ \E i \in {j \in Inst : row[j].status # "none" /\ close[c].inst \in {None, j}} :
         close' = [close EXCEPT ![c] = [pc |-> "close", inst |-> i, run |-> row[i].run]]
    /\ UNCHANGED <<row, runs, start, ctxvars, faults, history>>

Terminate(c) ==
    /\ close[c].pc = "new"
    /\ \E i \in {j \in Inst : row[j].status # "none" /\ close[c].inst \in {None, j}} :
         close' = [close EXCEPT ![c] = [pc   |-> IF i \in Live THEN "close" ELSE "over",
                                        inst |-> i, run |-> row[i].run]]
    /\ UNCHANGED <<row, runs, start, ctxvars, faults, history>>

\* The execution is closed before the row is touched; a failure ends the request.
CloseExecution(c) ==
    /\ close[c].pc = "close"
    /\ \/ /\ runs' = TerminateWorkflow(close[c].inst, close[c].run)
          /\ CloseAt(c, "mark") /\ NoFault
       \/ /\ UNCHANGED runs
          /\ CloseAt(c, "failed") /\ Fault
    /\ UNCHANGED <<row, start, ctxvars, history>>

\* One transaction on the row as it is now, its open tasks failed with it.
MarkTerminated(c) ==
    LET i == close[c].inst
    IN /\ close[c].pc = "mark"
       /\ \/ /\ i \in Live
             /\ row' = [row EXCEPT ![i].status = "TERMINATED"]
             /\ close' = [close EXCEPT ![c].pc = "confirm", ![c].run = row[i].run]
          \/ /\ i \notin Live
             /\ CloseAt(c, "over")
             /\ UNCHANGED row
       /\ UNCHANGED <<runs, start, ctxvars, faults, history>>

\* Again, for an execution that was started in between.  Best effort.
ConfirmClosed(c) ==
    /\ close[c].pc = "confirm"
    /\ CloseAt(c, "over")
    /\ \/ runs' = TerminateWorkflow(close[c].inst, close[c].run) /\ UNCHANGED missed /\ NoFault
       \/ UNCHANGED runs /\ missed' = missed \cup {close[c].inst} /\ Fault
    /\ UNCHANGED <<row, start, ctxvars, late, shared>>

CloseDies(c) ==
    /\ Closing(c) /\ Fault
    /\ CloseAt(c, "failed")
    /\ missed' = IF close[c].pc = "confirm" THEN missed \cup {close[c].inst} ELSE missed
    /\ UNCHANGED <<row, runs, start, ctxvars, late, shared>>

\* The administrator terminates the instance again.
CloseAgain(c) ==
    /\ close[c].pc = "failed"
    /\ CloseAt(c, "new")
    /\ UNCHANGED <<row, runs, start, ctxvars, faults, history>>

(***************************************************************************)
(* The execution.                                                          *)
(***************************************************************************)
\* Its last activity closes the row, and it returns some time later.
Complete(r) ==
    /\ r \in Open
    /\ row[runs[r].inst].status = "RUNNING" /\ ~runs[r].paused
    /\ row' = [row EXCEPT ![runs[r].inst].status = "COMPLETED"]
    /\ UNCHANGED <<runs, start, close, ctxvars, faults, history>>

Return(r) ==
    /\ r \in Open
    /\ row[runs[r].inst].status = "COMPLETED"
    /\ runs' = [runs EXCEPT ![r].open = FALSE]
    /\ UNCHANGED <<row, start, close, ctxvars, faults, history>>

StartHandler(s) ==
    \/ Gate(s) \/ MatchingStart(s) \/ Refuse(s) \/ ResolveTaskQueue(s) \/ Create(s)
    \/ Duplicate(s) \/ Launch(s) \/ RecordRunID(s) \/ AfterWorkflowStarted(s)

CloseStep(c) ==
    \/ Terminate(c) \/ CloseExecution(c) \/ MarkTerminated(c) \/ ConfirmClosed(c) \/ CloseAgain(c)

StartNext ==
    \/ \E s \in Starter : StartHandler(s) \/ StartDies(s) \/ Retry(s)
    \/ \E c \in Closer : CloseStep(c) \/ CloseDies(c)
    \/ \E r \in DOMAIN runs : Complete(r) \/ Return(r)

StartSpec == StartInit /\ [][StartNext]_startvars

-----------------------------------------------------------------------------
RunIds    == {NoRun} \cup DOMAIN runs
RowRecord == [status : {"none", "purged"} \cup NonTerminal \cup Terminal, key : {None} \cup Key,
              input : {None} \cup {In[s] : s \in Starter}, run : RunIds, queue : {"plan", "tenant"}]
RunRecord == [inst : Inst, key : Key, open : BOOLEAN, paused : BOOLEAN]
StartRecord ==
    [pc : {"new", "allowed", "create", "insert", "duplicate", "launch", "record", "check", "done", "refused",
           "failed"},
     inst : Inst \cup {None}, run : RunIds, attempt : 0 .. startWorkflowMaxAttempts - 1,
     queue : {"plan", "tenant"}]
CloseRecord ==
    [pc : {"new", "close", "mark", "confirm", "over", "failed"}, inst : Inst \cup {None}, run : RunIds]

\* The executions, and everything that names one by its number.
RunsOK  == runs \in Seq(RunRecord)
RowOK   == row \in [Inst -> RowRecord]
StartOK == start \in [Starter -> StartRecord]
CloseOK == close \in [Closer -> CloseRecord]
MarksOK ==
    /\ registry \in {"none", "routable", "stopped"}
    /\ late \subseteq Inst /\ shared \subseteq Inst /\ missed \subseteq Inst
    /\ faults \in 0 .. MaxFaults

StartTypeOK == RunsOK /\ RowOK /\ StartOK /\ CloseOK /\ MarksOK

\* Executions the instance was given so far.
RunsOf(i) == {r \in DOMAIN runs : runs[r].inst = i}

\* A terminate that crosses the start of its instance leaves no execution
\* behind: when neither is under way, none of their closes failed, the instance
\* was not executed twice and its key was free when it was written, nothing runs
\* for a TERMINATED row (the check after the start and the second close cover each
\* other's windows).
TerminatedLeavesNoRun ==
    \A i \in Inst \ (missed \cup shared) :
      /\ row[i].status = "TERMINATED" /\ Cardinality(RunsOf(i)) <= 1
      /\ \A s \in Starter : ~(Launching(s) /\ start[s].inst = i)
      /\ \A c \in Closer : ~(Closing(c) /\ close[c].inst = i)
      => \A r \in Open : runs[r].inst # i

\* A live instance whose key was free of older requests and executions when its
\* row was written, and which nobody terminates, is the instance of the run its
\* row names, and that run is open.
RecordedRunIsItsOwn ==
    \A i \in Live \ shared :
      row[i].run # NoRun /\ (\A c \in Closer : close[c].inst # i)
      => row[i].run \in Open /\ runs[row[i].run].inst = i

\* "Every close of the execution names this run when one is recorded, so a close
\* issued after the instance's key was reused cannot end the newer execution."
NamedCloseEndsItsOwn ==
    [][\A r \in Open : ~runs'[r].open =>
         \/ row[runs[r].inst].status = "COMPLETED"
         \/ \E s \in Starter : start'[s] # start[s] /\ start[s].inst = runs[r].inst
         \/ \E c \in Closer : close'[c] # close[c] /\ close[c].inst = runs[r].inst
         \/ \E c \in Closer : close'[c] # close[c] /\ close[c].run = NoRun]_startvars

\* "Instantiation is idempotent end-to-end": a start sent again after a timeout
\* does not execute the instance a second time.
ExecutedOnce == \A i \in Inst : Cardinality(RunsOf(i)) <= 1

=============================================================================
