----------------------- MODULE TenantLifecycleProofs -----------------------
(***************************************************************************)
(* Proofs about a tenant that is suspended, offboarded, returns and is     *)
(* purged, for any instances, starters, closers, events, deliveries,       *)
(* purgers and faults.  First, what a step does to the instances (Rising,  *)
(* Settles) and to a delivery (Route); then, that the status on record is  *)
(* the newest one recorded and the recency guard no newer (Records).  From *)
(* these: what lives after an offboarding came late (Terminating,          *)
(* OffLedger); the newest change, once answered, is in force and stays so  *)
(* (Signalling); a return that was handled is on the ledger or was         *)
(* overtaken (Returning); and a batch works under a ledger without return  *)
(* (Batches), and what is marked as purged is empty (Emptied).             *)
(***************************************************************************)
EXTENDS TenantLifecycle, InstanceStartProofs

(***************************************************************************)
(* What a step does to the instances.                                      *)
(***************************************************************************)
\* A new row is marked when the tenant is refused (Create); a new execution is not
\* paused.
Rising ==
    /\ UNCHANGED ctxvars /\ late \subseteq late'
    /\ \A i \in Inst : row[i].status = "none" /\ row'[i].status # "none" =>
         (tenant.status \in Refused => i \in late')
PausesStay ==
    /\ \A r \in DOMAIN runs : runs'[r].paused = runs[r].paused
    /\ \A r \in DOMAIN runs' \ DOMAIN runs : ~runs'[r].paused

\* Terminating an execution closes it and changes nothing else.
LEMMA ClosedRuns ==
    ASSUME RunsOK, NEW i, NEW r, runs' = TerminateWorkflow(i, r)
    PROVE  /\ RunsOK' /\ DOMAIN runs' = DOMAIN runs
           /\ \A q \in DOMAIN runs : /\ runs'[q].inst = runs[q].inst /\ runs'[q].key = runs[q].key
                                     /\ runs'[q].open => runs[q].open
                                     /\ runs'[q].paused = runs[q].paused
 <1>1. RunsOK' /\ DOMAIN runs' = DOMAIN runs
    BY TerminatedRuns DEF RunsOK, RunRecord
 <1>2. \A q \in DOMAIN runs : runs[q] \in RunRecord
    BY DEF RunsOK
 <1>3. \A q \in DOMAIN runs : /\ runs'[q].inst = runs[q].inst /\ runs'[q].key = runs[q].key
                              /\ runs'[q].open => runs[q].open
    BY TerminatedRuns
 <1>4. \A q \in DOMAIN runs : runs'[q].paused = runs[q].paused
    BY <1>2 DEF TerminateWorkflow, RunRecord
 <1> QED
    BY <1>1, <1>3, <1>4

\* What starts and terminates do to rows and executions.
LEMMA StartRises == StartTypeOK /\ KeysAgree /\ [StartNext]_startvars => Rising /\ PausesStay
 <1> SUFFICES ASSUME StartTypeOK, KeysAgree, [StartNext]_startvars
              PROVE  Rising /\ PausesStay
    OBVIOUS
 <1>t. RunsOK /\ RowOK /\ StartOK /\ CloseOK
    BY DEF StartTypeOK
 <1>r. \A q \in DOMAIN runs : runs[q] \in RunRecord
    BY <1>t DEF RunsOK
 <1>a. UNCHANGED <<row, ctxvars, late>> => Rising
    BY DEF Rising
 <1>b. UNCHANGED runs => PausesStay
    BY DEF PausesStay
 <1>c. ASSUME NEW i, NEW r, runs' = TerminateWorkflow(i, r) PROVE PausesStay
    BY <1>c, <1>t, ClosedRuns DEF PausesStay
 <1>d. ASSUME NEW i \in Inst, row[i].key \in Key, runs' = StartWorkflow(i) PROVE PausesStay
   <2> DEFINE new == [inst |-> i, key |-> row[i].key, open |-> TRUE, paused |-> FALSE]
   <2>1. new \in RunRecord /\ ~new.paused
      BY <1>d DEF RunRecord
   <2>2. runs' = runs \/ runs' = Append(runs, new)
      BY <1>d DEF StartWorkflow
   <2> HIDE DEF new
   <2>3. ASSUME runs' = Append(runs, new) PROVE PausesStay
     <3>1. runs \in Seq(RunRecord)
        BY <1>t DEF RunsOK
     <3>2. DOMAIN runs = 1 .. Len(runs) /\ DOMAIN runs' = 1 .. (Len(runs) + 1) /\ Len(runs) \in Nat
        BY <2>1, <2>3, <3>1
     <3>3. (\A q \in DOMAIN runs : runs'[q] = runs[q]) /\ runs'[Len(runs) + 1] = new
        BY <2>1, <2>3, <3>1
     <3>4. \A q \in DOMAIN runs' \ DOMAIN runs : q = Len(runs) + 1
        BY <3>2
     <3> QED
        BY <2>1, <3>3, <3>4 DEF PausesStay
   <2> QED
      BY <1>b, <2>2, <2>3
 <1>e. ASSUME NEW i \in Inst, NEW st, row[i].status # "none", row' = [row EXCEPT ![i].status = st], UNCHANGED <<ctxvars, late>>
       PROVE  Rising
    BY <1>e, <1>t DEF RowOK, RowRecord, Rising
 <1>1. ASSUME NEW s \in Starter, Gate(s) \/ Refuse(s) \/ ResolveTaskQueue(s) \/ MatchingStart(s) \/ Duplicate(s) \/ StartDies(s) \/ Retry(s)
       PROVE  Rising /\ PausesStay
    BY <1>1, <1>a, <1>b DEF Gate, Refuse, ResolveTaskQueue, MatchingStart, Duplicate, StartDies, Retry, history
 <1>2. ASSUME NEW s \in Starter, Create(s) PROVE Rising /\ PausesStay
   <2>1. CASE UNCHANGED <<row, late>>
      BY <1>2, <1>a, <1>b, <2>1 DEF Create
   <2>2. ASSUME NEW i \in Inst, row[i].status = "none", Inserted(i, s),
                late' = IF tenant.status \in Refused THEN late \cup {i} ELSE late
         PROVE  Rising
     <3>1. \A j \in Inst \ {i} : row'[j] = row[j]
        BY <1>t, <2>2 DEF Inserted, RowOK
     <3>2. late \subseteq late' /\ (tenant.status \in Refused => i \in late')
        BY <2>2
     <3>3. UNCHANGED ctxvars
        BY <1>2 DEF Create
     <3> QED
        BY <2>2, <3>1, <3>2, <3>3 DEF Rising
   <2> QED
      BY <1>2, <1>b, <2>1, <2>2 DEF Create
 <1>3. ASSUME NEW s \in Starter, Launch(s) PROVE Rising /\ PausesStay
   <2>1. start[s].inst \in Inst /\ row[start[s].inst].key \in Key
      BY <1>3 DEF Launch, Launching, KeysAgree, StartsNamed, Named
   <2> QED
      BY <1>3, <1>a, <1>b, <1>d, <2>1 DEF Launch, Launched
 <1>4. ASSUME NEW s \in Starter, RecordRunID(s) PROVE Rising /\ PausesStay
    BY <1>4, <1>t, <1>a, <1>b DEF RecordRunID, RowOK, RowRecord, Rising
 <1>5. ASSUME NEW s \in Starter, AfterWorkflowStarted(s) PROVE Rising /\ PausesStay
    BY <1>5, <1>a, <1>b, <1>c DEF AfterWorkflowStarted
 <1>6. ASSUME NEW c \in Closer, Terminate(c) \/ CloseAgain(c) \/ CloseDies(c) PROVE Rising /\ PausesStay
    BY <1>6, <1>a, <1>b DEF Terminate, CloseAgain, CloseDies, history
 <1>7. ASSUME NEW c \in Closer, CloseExecution(c) \/ ConfirmClosed(c) PROVE Rising /\ PausesStay
    BY <1>7, <1>a, <1>b, <1>c DEF CloseExecution, ConfirmClosed, history
 <1>8. ASSUME NEW c \in Closer, MarkTerminated(c) PROVE Rising /\ PausesStay
    BY <1>8, <1>a, <1>b, <1>e DEF MarkTerminated, Live, NonTerminal, history
 <1>9. ASSUME NEW r \in DOMAIN runs, Complete(r) PROVE Rising /\ PausesStay
   <2>1. runs[r].inst \in Inst /\ row[runs[r].inst].status # "none"
      BY <1>9 DEF Complete, KeysAgree, ExecutionsNamed, Named
   <2> QED
      BY <1>9, <1>b, <1>e, <2>1 DEF Complete, history
 <1>10. ASSUME NEW r \in DOMAIN runs, Return(r) PROVE Rising /\ PausesStay
   <2>1. PausesStay
      BY <1>10, <1>r DEF Return, RunRecord, PausesStay
   <2> QED
      BY <1>10, <1>a, <2>1 DEF Return, history
 <1>11. CASE UNCHANGED startvars
    BY <1>11, <1>a, <1>b DEF startvars, history
 <1> QED
    BY <1>1, <1>2, <1>3, <1>4, <1>5, <1>6, <1>7, <1>8, <1>9, <1>10, <1>11
       DEF StartNext, StartHandler, CloseStep

\* A step of an event or of a purge writes no row and starts no execution; it may
\* end a row, delete it or pause it, and close or pause an execution.
RowsSettle ==
    \A i \in Inst :
        /\ row'[i].key = row[i].key /\ row'[i].run = row[i].run /\ row'[i].queue = row[i].queue
        /\ row'[i].status = "none" <=> row[i].status = "none"
        /\ i \in Live' => i \in Live
        /\ row'[i].status \notin {"none", "purged"} => row[i].status \notin {"none", "purged"}
RunsSettle ==
    /\ DOMAIN runs' = DOMAIN runs
    /\ \A r \in DOMAIN runs :
         runs'[r].inst = runs[r].inst /\ runs'[r].key = runs[r].key /\ (runs'[r].open => runs[r].open)
Settles == /\ RowOK' /\ RunsOK' /\ RowsSettle /\ RunsSettle
           /\ UNCHANGED <<start, close, late, shared>> /\ missed' \subseteq Inst /\ faults' \in 0 .. MaxFaults

\* The events of a tenant, however they are delivered.
Acts(e) == Deliver(e) \/ Redeliver(e) \/ EventDies(e)

\* A row whose status alone is written.
LEMMA RowEnds ==
    ASSUME StartTypeOK, NEW i \in Inst, NEW st \in {"RUNNING", "PAUSED", "TERMINATED", "purged"}, row[i].status \notin {"none", "purged"},
           st \in NonTerminal => i \in Live, row' = [row EXCEPT ![i].status = st], UNCHANGED runs
    PROVE  RowOK' /\ RowsSettle
 <1>1. row \in [Inst -> RowRecord] /\ RowRecord' = RowRecord
    BY DEF StartTypeOK, RowOK, RowRecord, RunIds
 <1>2. row' \in [Inst -> RowRecord]
   <2>1. [row[i] EXCEPT !.status = st] \in RowRecord
      BY <1>1 DEF RowRecord, NonTerminal, Terminal
   <2> QED
      BY <1>1, <2>1
 <1>3. RowsSettle
   <2>1. \A j \in Inst : j # i => row'[j] = row[j]
      BY <1>1
   <2>2. row'[i].key = row[i].key /\ row'[i].run = row[i].run /\ row'[i].queue = row[i].queue /\ row'[i].status = st
      BY <1>1 DEF RowRecord
   <2> QED
      BY <2>1, <2>2 DEF RowsSettle, Live
 <1> QED
    BY <1>1, <1>2, <1>3 DEF RowOK

\* What is known of an event from where its delivery is.
Stages ==
    \A e \in Event :
        /\ event[e].pc \in {"locking", "commit"} => about[e].kind = "state"
        /\ event[e].pc \in {"returned", "list", "sweep", "mark one", "confirm one"} => about[e].changed
        /\ event[e].pc = "returned" => about[e].status # "offboarded"
        /\ event[e].pc \in {"mark one", "confirm one"} => about[e].status = "offboarded" /\ event[e].inst \in Inst

\* The faults stay within their bound.
LEMMA FaultsStay == MarksOK /\ (Fault \/ NoFault) => faults' \in 0 .. MaxFaults
    BY StartAssumption DEF MarksOK, Fault, NoFault

\* No row is written.
LEMMA SameRows ==
    ASSUME StartTypeOK, UNCHANGED row, RunsSettle
    PROVE  RowOK' /\ RowsSettle
    BY DEF StartTypeOK, RowOK, RowRecord, RunIds, RowsSettle, Live, RunsSettle

\* No execution is told.
LEMMA SameRuns ==
    ASSUME StartTypeOK, UNCHANGED runs
    PROVE  RunsOK' /\ RunsSettle
    BY DEF StartTypeOK, RunsOK, RunRecord, RunsSettle

\* An execution is terminated.
LEMMA ClosedSettle ==
    ASSUME StartTypeOK, NEW i, NEW r, runs' = TerminateWorkflow(i, r)
    PROVE  RunsOK' /\ RunsSettle
    BY ClosedRuns DEF StartTypeOK, RunsSettle

\* The signal of a sweep: the open executions of the instance are paused or not.
Told(i, b) ==
    /\ DOMAIN runs' = DOMAIN runs
    /\ \A r \in DOMAIN runs :
         /\ runs'[r].inst = runs[r].inst /\ runs'[r].key = runs[r].key /\ runs'[r].open = runs[r].open
         /\ runs'[r].paused = IF r \in Open /\ runs[r].inst = i THEN b ELSE runs[r].paused

\* What a signal does to the executions.
LEMMA ToldRuns ==
    ASSUME StartTypeOK, NEW i, NEW b \in BOOLEAN,
           runs' = [r \in DOMAIN runs |-> IF r \in {q \in Open : runs[q].inst = i}
                                          THEN [runs[r] EXCEPT !.paused = b] ELSE runs[r]]
    PROVE  RunsOK' /\ RunsSettle /\ Told(i, b)
 <1>1. runs \in Seq(RunRecord) /\ DOMAIN runs = 1 .. Len(runs) /\ Len(runs) \in Nat
    BY DEF StartTypeOK, RunsOK
 <1>2. \A q \in DOMAIN runs : runs[q] \in RunRecord
    BY <1>1
 <1>3. \A q \in DOMAIN runs : [runs[q] EXCEPT !.paused = b] \in RunRecord
    BY <1>2 DEF RunRecord
 <1>4. \A q \in DOMAIN runs : [runs[q] EXCEPT !.paused = b].paused = b
    BY <1>2 DEF RunRecord
 <1>5. \A q \in DOMAIN runs : /\ [runs[q] EXCEPT !.paused = b].inst = runs[q].inst
                              /\ [runs[q] EXCEPT !.paused = b].key = runs[q].key
                              /\ [runs[q] EXCEPT !.paused = b].open = runs[q].open
    BY <1>2 DEF RunRecord
 <1>6. DOMAIN runs' = DOMAIN runs
    OBVIOUS
 <1>7. runs' \in [1 .. Len(runs) -> RunRecord]
    BY <1>1, <1>2, <1>3
 <1>8. RunsOK'
    BY <1>1, <1>7 DEF RunsOK, RunRecord
 <1>9. ASSUME NEW q \in DOMAIN runs
       PROVE  runs'[q] = IF q \in Open /\ runs[q].inst = i THEN [runs[q] EXCEPT !.paused = b] ELSE runs[q]
    OBVIOUS
 <1>10. Told(i, b)
    BY <1>4, <1>5, <1>6, <1>9 DEF Told
 <1> QED
    BY <1>8, <1>10 DEF Told, RunsSettle

\* A signal reaches the executions that are open, or fails and is noted.
LEMMA SignalTells ==
    ASSUME TypeOK, NEW e \in Event, SignalOne(e)
    PROVE  /\ about[e].status # "offboarded" /\ event[e].pc = "sweep"
           /\ \E x \in event[e].todo :
                /\ event'[e].todo = event[e].todo \ {x}
                /\ \/ /\ Told(x[1], about[e].status \in Pausing) /\ RunsOK' /\ RunsSettle
                      /\ unreached' = IF {r \in Open : runs[r].inst = x[1]} = {} THEN unreached \cup {x[1]} ELSE unreached
                      /\ event'[e].failed = event[e].failed
                      /\ NoFault
                   \/ UNCHANGED <<runs, unreached>> /\ event'[e].failed /\ Fault
           /\ event'[e].pc = "sweep"
 <1>t. StartTypeOK /\ event[e] \in EventRecord /\ e \in DOMAIN event
    BY DEF TypeOK, EventsOK
 <1> DEFINE b == about[e].status \in Pausing
 <1>b. b \in BOOLEAN
    OBVIOUS
 <1>1. PICK x \in event[e].todo :
         \/ /\ runs' = [r \in DOMAIN runs |->
                             IF r \in {q \in Open : runs[q].inst = x[1]}
                             THEN [runs[r] EXCEPT !.paused = b]
                             ELSE runs[r]]
            /\ unreached' = IF {r \in Open : runs[r].inst = x[1]} = {} THEN unreached \cup {x[1]} ELSE unreached
            /\ event' = [event EXCEPT ![e].todo = @ \ {x}]
            /\ NoFault
         \/ /\ UNCHANGED <<runs, unreached>>
            /\ event' = [event EXCEPT ![e].todo = @ \ {x}, ![e].failed = TRUE]
            /\ Fault
    BY DEF SignalOne
 <1> HIDE DEF b
 <1>2. about[e].status # "offboarded" /\ event[e].pc = "sweep"
    BY DEF SignalOne
 <1>3. event'[e].todo = event[e].todo \ {x} /\ event'[e].pc = "sweep"
    BY <1>t, <1>1, <1>2 DEF EventRecord
 <1>4. ASSUME event' = [event EXCEPT ![e].todo = @ \ {x}] PROVE event'[e].failed = event[e].failed
    BY <1>t, <1>4 DEF EventRecord
 <1>5. ASSUME event' = [event EXCEPT ![e].todo = @ \ {x}, ![e].failed = TRUE] PROVE event'[e].failed
    BY <1>t, <1>5 DEF EventRecord
 <1>6. \/ Told(x[1], b) /\ RunsOK' /\ RunsSettle
       \/ UNCHANGED <<runs, unreached>>
    BY <1>t, <1>1, <1>b, ToldRuns
 <1>7. \/ /\ Told(x[1], b) /\ RunsOK' /\ RunsSettle
          /\ unreached' = IF {r \in Open : runs[r].inst = x[1]} = {} THEN unreached \cup {x[1]} ELSE unreached
          /\ event'[e].failed = event[e].failed
          /\ NoFault
       \/ UNCHANGED <<runs, unreached>> /\ event'[e].failed /\ Fault
   <2>1. CASE UNCHANGED <<runs, unreached>> /\ event' = [event EXCEPT ![e].todo = @ \ {x}, ![e].failed = TRUE] /\ Fault
      BY <1>5, <2>1
   <2>2. CASE /\ runs' = [r \in DOMAIN runs |->
                             IF r \in {q \in Open : runs[q].inst = x[1]}
                             THEN [runs[r] EXCEPT !.paused = b]
                             ELSE runs[r]]
              /\ unreached' = IF {r \in Open : runs[r].inst = x[1]} = {} THEN unreached \cup {x[1]} ELSE unreached
              /\ event' = [event EXCEPT ![e].todo = @ \ {x}]
              /\ NoFault
     <3>1. Told(x[1], b) /\ RunsOK' /\ RunsSettle
        BY <1>t, <1>b, <2>2, ToldRuns
     <3> QED
        BY <1>4, <2>2, <3>1
   <2> QED
      BY <1>1, <2>1, <2>2
 <1> QED
    BY <1>2, <1>3, <1>7 DEF b

\* A step of an event opens no execution and revives no row.
LEMMA EventSettles ==
    ASSUME TypeOK, Stages, NEW e \in Event, Acts(e)
    PROVE  Settles
 <1>t. StartTypeOK /\ MarksOK /\ event[e] \in EventRecord
    BY DEF TypeOK, StartTypeOK, EventsOK
 <1>f. Fault \/ NoFault => faults' \in 0 .. MaxFaults
    BY <1>t, FaultsStay
 <1>m. missed \subseteq Inst /\ faults \in 0 .. MaxFaults
    BY <1>t DEF MarksOK
 <1>r. UNCHANGED runs => RunsOK' /\ RunsSettle
    BY <1>t, SameRuns
 <1>q. UNCHANGED row /\ RunsSettle => RowOK' /\ RowsSettle
    BY <1>t, SameRows
 <1>1. ASSUME UNCHANGED startvars PROVE Settles
   <2>1. UNCHANGED <<row, runs, start, close, late, shared, missed, faults>>
      BY <1>1 DEF startvars, history
   <2> QED
      BY <2>1, <1>r, <1>q, <1>m DEF Settles
 <1>2. ASSUME UNCHANGED <<row, runs, start, close, late, shared, missed>>, Fault \/ NoFault PROVE Settles
    BY <1>2, <1>r, <1>q, <1>m, <1>f DEF Settles
 <1>3. CASE HandleTenantStateChanged(e) \/ HandleTenantMembershipsPurged(e) \/ Lock(e) \/ RecordReturned(e) \/ ListInstances(e)
            \/ EndSweep(e)
    BY <1>1, <1>3 DEF HandleTenantStateChanged, HandleTenantMembershipsPurged, Received, Lock,
       RecordReturned, ListInstances, EndSweep
 <1>4. CASE RecordStatus(e) \/ ApplyPlanChange(e)
    BY <1>2, <1>4 DEF RecordStatus, ApplyPlanChange, history, NoFault
 <1>5. CASE Commit(e) \/ MarkProcessed(e) \/ Redeliver(e)
    BY <1>2, <1>5 DEF Commit, MarkProcessed, Redeliver, history
 <1>6. CASE EventDies(e)
   <2>1. UNCHANGED <<row, runs, start, close, late, shared>> /\ Fault
      BY <1>6 DEF EventDies
   <2>2. missed' \subseteq Inst
      BY <1>6, <1>m DEF EventDies, Stages
   <2> QED
      BY <2>1, <2>2, <1>r, <1>q, <1>f DEF Settles
 <1>7. CASE SignalOne(e)
   <2>1. UNCHANGED <<row, start, close, late, shared, missed>>
      BY <1>7 DEF SignalOne, history
   <2>2. RunsOK' /\ RunsSettle /\ (Fault \/ NoFault)
      BY <1>7, <1>r, SignalTells
   <2> QED
      BY <2>1, <2>2, <1>q, <1>f, <1>m DEF Settles
 <1>8. CASE TerminateOne(e)
   <2>1. UNCHANGED <<row, start, close, late, shared, missed>> /\ (Fault \/ NoFault)
      BY <1>8 DEF TerminateOne, history
   <2>2. RunsOK' /\ RunsSettle
     <3>1. UNCHANGED runs \/ \E x \in event[e].todo : runs' = TerminateWorkflow(x[1], x[2])
        BY <1>8 DEF TerminateOne
     <3> QED
        BY <3>1, <1>r, <1>t, ClosedSettle
   <2> QED
      BY <2>1, <2>2, <1>q, <1>f, <1>m DEF Settles
 <1>9. CASE MarkOne(e)
   <2>1. UNCHANGED <<runs, start, close, late, shared, missed>> /\ (Fault \/ NoFault)
      BY <1>9 DEF MarkOne, history
   <2>2. RowOK' /\ RowsSettle
     <3>1. CASE UNCHANGED row
        BY <3>1, <2>1, <1>r, <1>q
     <3>2. CASE event[e].inst \in Live /\ row' = [row EXCEPT ![event[e].inst].status = "TERMINATED"]
        BY <3>2, <2>1, <1>t, RowEnds DEF Live, NonTerminal
     <3> QED
        BY <3>1, <3>2, <1>9 DEF MarkOne
   <2> QED
      BY <2>1, <2>2, <1>r, <1>f, <1>m DEF Settles
 <1>10. CASE ConfirmOne(e)
   <2>1. UNCHANGED <<row, start, close, late, shared>> /\ (Fault \/ NoFault)
      BY <1>10 DEF ConfirmOne
   <2>2. missed' \subseteq Inst
      BY <1>10, <1>m DEF ConfirmOne, Stages
   <2>3. RunsOK' /\ RunsSettle
     <3>1. UNCHANGED runs \/ runs' = TerminateWorkflow(event[e].inst, event[e].run)
        BY <1>10 DEF ConfirmOne
     <3> QED
        BY <3>1, <1>r, <1>t, ClosedSettle
   <2> QED
      BY <2>1, <2>2, <2>3, <1>q, <1>f DEF Settles
 <1> QED
    BY <1>3, <1>4, <1>5, <1>6, <1>7, <1>8, <1>9, <1>10 DEF Acts, Deliver

\* Nor does a purge.
LEMMA PurgeSettles ==
    ASSUME TypeOK, NEW p \in Purger, PurgeStep(p)
    PROVE  Settles /\ UNCHANGED <<runs, unreached, about, event, processed, lock, tenant, uncommitted, missed>>
 <1>t. StartTypeOK /\ MarksOK
    BY DEF TypeOK, StartTypeOK
 <1>f. Fault \/ NoFault => faults' \in 0 .. MaxFaults
    BY <1>t, FaultsStay
 <1>m. missed \subseteq Inst /\ faults \in 0 .. MaxFaults
    BY <1>t DEF MarksOK
 <1>r. UNCHANGED runs => RunsOK' /\ RunsSettle
    BY <1>t, SameRuns
 <1>q. UNCHANGED row /\ RunsSettle => RowOK' /\ RowsSettle
    BY <1>t, SameRows
 <1>1. UNCHANGED <<runs, start, close, late, shared, missed, unreached, about, event, processed, lock, tenant, uncommitted>>
   <2>1. CASE ListDue(p)
      BY <2>1 DEF ListDue, startvars, eventvars, ctxvars, history
   <2>2. CASE PurgeBatch(p) \/ PurgeInstances(p) \/ PurgeQueues(p) \/ PurgeGuards(p)
      BY <2>2 DEF PurgeBatch, PurgeInstances, PurgeQueues, PurgeGuards, purgeKeeps, history
   <2>3. CASE CheckRows(p)
      BY <2>3 DEF CheckRows, ctxvars, history
   <2>4. CASE MarkPurged(p)
      BY <2>4 DEF MarkPurged, startvars, ctxvars, history
   <2> QED
      BY <2>1, <2>2, <2>3, <2>4 DEF PurgeStep
 <1>2. faults' \in 0 .. MaxFaults
    BY <1>f, <1>m DEF PurgeStep, ListDue, PurgeBatch, PurgeInstances, PurgeQueues, PurgeGuards, CheckRows, MarkPurged,
       purgeKeeps, startvars
 <1>3. UNCHANGED row \/ \E i \in Rows : row' = [row EXCEPT ![i].status = "purged"]
    BY DEF PurgeStep, ListDue, PurgeBatch, PurgeInstances, PurgeQueues, PurgeGuards, CheckRows, MarkPurged, startvars
 <1>4. ASSUME NEW i \in Rows, row' = [row EXCEPT ![i].status = "purged"] PROVE RowOK' /\ RowsSettle
    BY <1>1, <1>4, <1>t, RowEnds DEF Rows, NonTerminal
 <1>5. RowOK' /\ RowsSettle
    BY <1>1, <1>3, <1>4, <1>r, <1>q
 <1> QED
    BY <1>1, <1>2, <1>5, <1>r, <1>m DEF Settles

\* Nor does an execution that writes its status.
LEMMA WriteSettles ==
    ASSUME TypeOK, KeysAgree, NEW r \in DOMAIN runs, WriteStatus(r)
    PROVE  Settles /\ UNCHANGED <<runs, ctxvars, eventvars, purge, missed>>
 <1>t. StartTypeOK /\ MarksOK
    BY DEF TypeOK, StartTypeOK
 <1>1. UNCHANGED <<runs, start, close, late, shared, missed, ctxvars, faults, eventvars, purge>>
    BY DEF WriteStatus, history
 <1>2. runs[r].inst \in Live /\ runs[r].inst \in Inst
    BY DEF WriteStatus, Live
 <1>3. \E st \in {"PAUSED", "RUNNING"} : row' = [row EXCEPT ![runs[r].inst].status = st]
   <2>1. CASE runs[r].paused
      BY <2>1 DEF WriteStatus
   <2>2. CASE ~runs[r].paused
      BY <2>2 DEF WriteStatus
   <2> QED
      BY <2>1, <2>2
 <1>4. RowOK' /\ RowsSettle
    BY <1>t, <1>1, <1>2, <1>3, RowEnds DEF Live, NonTerminal
 <1>5. RunsOK' /\ RunsSettle
    BY <1>t, <1>1, SameRuns
 <1> QED
    BY <1>t, <1>1, <1>4, <1>5 DEF Settles, MarksOK

\* So the business keys still agree.
LEMMA KeysSettle ==
    ASSUME TypeOK, KeysAgree, Settles
    PROVE  KeysAgree'
 <1>t. StartTypeOK /\ CloseOK /\ StartOK /\ RowOK
    BY DEF TypeOK, StartTypeOK
 <1>k. StartsNamed /\ RunsNamed /\ ClosesNamed /\ RowsNamed /\ ExecutionsNamed
    BY DEF KeysAgree
 <1>s. RowsSettle /\ RunsSettle /\ UNCHANGED <<start, close>>
    BY DEF Settles
 <1>n. \A i : Named(i) => Named(i)' /\ row'[i].key = row[i].key
    BY <1>s DEF Named, RowsSettle
 <1>1. StartsNamed'
    BY <1>k, <1>n, <1>s DEF StartsNamed, Launching
 <1>2. RunsNamed'
    BY <1>k, <1>s DEF RunsNamed, AtRun, RunsSettle
 <1>3. ClosesNamed'
   <2>1. \A c \in Closer : close[c].run \in RunIds
      BY <1>t DEF CloseOK, CloseRecord
   <2> QED
      BY <1>k, <1>n, <1>s, <2>1 DEF ClosesNamed, Closing, RunsSettle, RunIds
 <1>4. RowsNamed'
   <2>1. \A i \in Inst : row[i].run \in RunIds
      BY <1>t DEF RowOK, RowRecord
   <2> QED
      BY <1>k, <1>s, <2>1 DEF RowsNamed, RowsSettle, RunsSettle, RunIds
 <1>5. ExecutionsNamed'
    BY <1>k, <1>n, <1>s DEF ExecutionsNamed, RunsSettle
 <1> QED
    BY <1>1, <1>2, <1>3, <1>4, <1>5 DEF KeysAgree

(***************************************************************************)
(* What a step does to the events.                                         *)
(***************************************************************************)
\* The other deliveries are left alone.
Others(e) == \A f \in Event \ {e} : event'[f] = event[f]

\* A delivery moves on, or starts over.
Goes(e, p) ==
    /\ Others(e) /\ event'[e].pc = p /\ event'[e].todo = event[e].todo /\ event'[e].failed = event[e].failed
    /\ event'[e].inst = event[e].inst /\ event'[e].run = event[e].run
Restarts(e) == Others(e) /\ event'[e] = Queued

\* A delivery that moves on.
LEMMA EventAtGoes ==
    ASSUME EventsOK, NEW e \in Event, NEW p, EventAt(e, p)
    PROVE  Goes(e, p)
    BY DEF EventsOK, EventAt, EventRecord, Goes, Others

\* A delivery that starts over.
LEMMA QueuedRestarts ==
    ASSUME EventsOK, NEW e \in Event, event' = [event EXCEPT ![e] = Queued]
    PROVE  Restarts(e)
    BY DEF EventsOK, Restarts, Others

\* The steps of a sweep that do more than to move on.
Lists(e) == /\ Others(e) /\ event'[e].pc = "sweep" /\ ~event'[e].failed
            /\ event'[e].todo = {<<i, row[i].run>> : i \in Live}
            /\ event'[e].inst = event[e].inst /\ event'[e].run = event[e].run
Fails(e) == /\ Others(e) /\ event'[e].pc = "sweep" /\ event'[e].failed = TRUE /\ event'[e].todo \subseteq event[e].todo
            /\ event'[e].inst = event[e].inst /\ event'[e].run = event[e].run
Takes(e, x) == /\ Others(e) /\ event'[e].pc = "mark one" /\ event'[e].todo = event[e].todo \ {x}
               /\ event'[e].failed = event[e].failed /\ event'[e].inst = x[1] /\ event'[e].run = x[2]
Signals(e, x) == /\ Others(e) /\ event'[e].pc = "sweep" /\ event'[e].todo = event[e].todo \ {x}
                 /\ event'[e].failed = event[e].failed /\ event'[e].inst = event[e].inst /\ event'[e].run = event[e].run

\* The instances are listed.
LEMMA ListGoes ==
    ASSUME EventsOK, NEW e \in Event, ListInstances(e)
    PROVE  Lists(e)
    BY DEF EventsOK, ListInstances, EventRecord, Lists, Others

\* One of them is signalled.
LEMMA SignalGoes ==
    ASSUME EventsOK, NEW e \in Event, SignalOne(e)
    PROVE  Fails(e) \/ \E x \in event[e].todo : Signals(e, x)
 <1>1. PICK x \in event[e].todo : \/ event' = [event EXCEPT ![e].todo = @ \ {x}]
                                  \/ event' = [event EXCEPT ![e].todo = @ \ {x}, ![e].failed = TRUE]
    BY DEF SignalOne
 <1>2. event[e].pc = "sweep"
    BY DEF SignalOne
 <1>3. ASSUME event' = [event EXCEPT ![e].todo = @ \ {x}] PROVE Signals(e, x)
    BY <1>2, <1>3 DEF EventsOK, EventRecord, Signals, Others
 <1>4. ASSUME event' = [event EXCEPT ![e].todo = @ \ {x}, ![e].failed = TRUE] PROVE Fails(e)
    BY <1>2, <1>4 DEF EventsOK, EventRecord, Fails, Others
 <1> QED
    BY <1>1, <1>3, <1>4

\* One of them is to be terminated.
LEMMA TerminateGoes ==
    ASSUME EventsOK, NEW e \in Event, TerminateOne(e)
    PROVE  Fails(e) \/ \E x \in event[e].todo : Takes(e, x)
 <1>1. PICK x \in event[e].todo : \/ event' = [event EXCEPT ![e].pc = "mark one", ![e].todo = @ \ {x},
                                                            ![e].inst = x[1], ![e].run = x[2]]
                                  \/ event' = [event EXCEPT ![e].todo = @ \ {x}, ![e].failed = TRUE]
    BY DEF TerminateOne
 <1>2. event[e].pc = "sweep"
    BY DEF TerminateOne
 <1>3. ASSUME event' = [event EXCEPT ![e].pc = "mark one", ![e].todo = @ \ {x}, ![e].inst = x[1], ![e].run = x[2]]
       PROVE  Takes(e, x)
    BY <1>2, <1>3 DEF EventsOK, EventRecord, Takes, Others
 <1>4. ASSUME event' = [event EXCEPT ![e].todo = @ \ {x}, ![e].failed = TRUE] PROVE Fails(e)
    BY <1>2, <1>4 DEF EventsOK, EventRecord, Fails, Others
 <1> QED
    BY <1>1, <1>3, <1>4

\* Its row is marked.
LEMMA MarkGoes ==
    ASSUME EventsOK, NEW e \in Event, MarkOne(e)
    PROVE  \/ /\ Goes(e, "confirm one")
              /\ row' = IF event[e].inst \in Live THEN [row EXCEPT ![event[e].inst].status = "TERMINATED"] ELSE row
           \/ Fails(e) /\ UNCHANGED row
 <1>1. ASSUME event' = [event EXCEPT ![e].pc = "sweep", ![e].failed = TRUE] PROVE Fails(e)
    BY <1>1 DEF EventsOK, EventRecord, Fails, Others
 <1> QED
    BY <1>1, EventAtGoes DEF MarkOne

\* Where a delivery may go from where it is, and what it writes on the way.
Receives(e) ==
    /\ event[e].pc = "queued"
    /\ \E p \in {"done", "locking", "status"} :
         /\ Goes(e, p)
         /\ p = "locking" => about[e].kind = "state"
         /\ p = "status" => about[e].kind = "memberships"
         /\ p = "done" => e \in processed
    /\ UNCHANGED <<lock, tenant, guard, ledger, processed, uncommitted>>
Skips(e) ==
    /\ event[e].pc = "locking" /\ Goes(e, "mark") /\ about[e].status # "offboarded" /\ ~ShouldApply(e)
    /\ UNCHANGED <<lock, tenant, guard, ledger, processed, uncommitted>>
TakesLock(e) ==
    /\ event[e].pc = "locking" /\ Goes(e, "status") /\ (about[e].status = "offboarded" \/ ShouldApply(e)) /\ Locked(e)
    /\ UNCHANGED <<tenant, guard, ledger, processed, uncommitted>>
RecordsStatus(e) ==
    /\ event[e].pc = "status" /\ tenant' = NewestState(e)
    /\ \/ Goes(e, "plan") /\ ~about[e].changed
       \/ Goes(e, "list") /\ about[e].changed /\ about[e].status = "offboarded"
       \/ Goes(e, "returned") /\ about[e].changed /\ about[e].status # "offboarded"
    /\ UNCHANGED <<lock, guard, ledger, processed, uncommitted>>
RecordsReturn(e) ==
    /\ event[e].pc = "returned" /\ Goes(e, "list") /\ ledger' = LedgerReturned(about[e].at)
    /\ UNCHANGED <<lock, tenant, guard, processed, uncommitted>>
Sweeps(e) ==
    /\ \/ event[e].pc = "list" /\ Lists(e)
       \/ event[e].pc \in {"sweep", "mark one"} /\ Fails(e)
       \/ event[e].pc = "sweep" /\ about[e].status # "offboarded" /\ \E x \in event[e].todo : Signals(e, x)
       \/ event[e].pc = "sweep" /\ about[e].status = "offboarded" /\ \E x \in event[e].todo : Takes(e, x)
       \/ event[e].pc = "mark one" /\ Goes(e, "confirm one")
       \/ event[e].pc = "confirm one" /\ Goes(e, "sweep")
    /\ UNCHANGED <<lock, tenant, guard, ledger, processed, uncommitted>>
EndsSweep(e) ==
    /\ event[e].pc = "sweep" /\ event[e].todo = {} /\ ~event[e].failed /\ Goes(e, "plan")
    /\ ledger' = IF about[e].status = "offboarded" THEN LedgerOffboarded(about[e].at) ELSE ledger
    /\ UNCHANGED <<lock, tenant, guard, processed, uncommitted>>
Plans(e) ==
    /\ event[e].pc = "plan" /\ Goes(e, IF about[e].kind = "state" THEN "commit" ELSE "mark")
    /\ UNCHANGED <<lock, tenant, guard, ledger, processed, uncommitted>>
Commits(e) ==
    /\ event[e].pc = "commit" /\ Goes(e, "mark") /\ lock' = None
    /\ \/ guard' = (IF ShouldApply(e) THEN about[e].at ELSE guard) /\ UNCHANGED uncommitted
       \/ UNCHANGED guard /\ uncommitted' = TRUE
    /\ UNCHANGED <<tenant, ledger, processed>>
Answers(e) ==
    /\ event[e].pc = "mark" /\ Goes(e, "done") /\ processed \subseteq processed' /\ processed' \subseteq processed \cup {e}
    /\ UNCHANGED <<lock, tenant, guard, ledger, uncommitted>>
StartsOver(e) ==
    /\ Restarts(e) /\ lock' = IF lock = e THEN None ELSE lock
    /\ UNCHANGED <<tenant, guard, ledger, processed, uncommitted>>
Route(e) ==
    \/ Receives(e) \/ Skips(e) \/ TakesLock(e) \/ RecordsStatus(e) \/ RecordsReturn(e) \/ Sweeps(e)
    \/ EndsSweep(e) \/ Plans(e) \/ Commits(e) \/ Answers(e) \/ StartsOver(e)

\* Where each of them leads.
LEMMA WhereTo ==
    ASSUME NEW e \in Event
    PROVE  /\ \A p : Goes(e, p) => Others(e) /\ event'[e].pc = p /\ event'[e].inst = event[e].inst
           /\ Restarts(e) => Others(e) /\ event'[e].pc = "queued"
           /\ Lists(e) \/ Fails(e) => Others(e) /\ event'[e].pc = "sweep"
           /\ \A x : Signals(e, x) => Others(e) /\ event'[e].pc = "sweep"
           /\ \A x : Takes(e, x) => Others(e) /\ event'[e].pc = "mark one" /\ event'[e].inst = x[1]
 <1>1. \A p : Goes(e, p) => Others(e) /\ event'[e].pc = p /\ event'[e].inst = event[e].inst
    BY DEF Goes
 <1>2. Restarts(e) => Others(e) /\ event'[e].pc = "queued"
    BY DEF Restarts, Queued
 <1>3. Lists(e) \/ Fails(e) => Others(e) /\ event'[e].pc = "sweep"
    BY DEF Lists, Fails
 <1>4. \A x : Signals(e, x) => Others(e) /\ event'[e].pc = "sweep"
    BY DEF Signals
 <1>5. \A x : Takes(e, x) => Others(e) /\ event'[e].pc = "mark one" /\ event'[e].inst = x[1]
    BY DEF Takes
 <1> QED
    BY <1>1, <1>2, <1>3, <1>4, <1>5

\* Every step of an event is one of these.
LEMMA EventRoutes ==
    ASSUME TypeOK, Stages, NEW e \in Event, Acts(e)
    PROVE  Route(e) /\ UNCHANGED <<about, purge>>
 <1>t. EventsOK /\ LockOK
    BY DEF TypeOK
 <1>g. \A p : EventAt(e, p) => Goes(e, p)
    BY <1>t, EventAtGoes
 <1>q. event' = [event EXCEPT ![e] = Queued] => Restarts(e)
    BY <1>t, QueuedRestarts
 <1>u. UNCHANGED startvars => UNCHANGED tenant
    BY DEF startvars, ctxvars
 <1>v. UNCHANGED ctxvars => UNCHANGED tenant
    BY DEF ctxvars
 <1>1. CASE HandleTenantStateChanged(e)
    BY <1>1, <1>g, <1>u DEF HandleTenantStateChanged, Received, Route, Receives
 <1>2. CASE HandleTenantMembershipsPurged(e)
    BY <1>2, <1>g, <1>u DEF HandleTenantMembershipsPurged, Received, Route, Receives
 <1>3. CASE Lock(e)
    BY <1>3, <1>g, <1>u DEF Lock, Route, Skips, TakesLock
 <1>4. CASE RecordStatus(e)
    BY <1>4, <1>g DEF RecordStatus, Route, RecordsStatus
 <1>5. CASE RecordReturned(e)
    BY <1>5, <1>g, <1>u DEF RecordReturned, Route, RecordsReturn
 <1>6. CASE ListInstances(e)
   <2>1. Lists(e) /\ event[e].pc = "list"
      BY <1>6, <1>t, ListGoes DEF ListInstances
   <2>2. UNCHANGED <<lock, tenant, guard, ledger, processed, uncommitted, about, purge>>
      BY <1>6, <1>u DEF ListInstances
   <2> QED
      BY <2>1, <2>2 DEF Route, Sweeps
 <1>7. CASE SignalOne(e)
   <2>1. event[e].pc = "sweep" /\ about[e].status # "offboarded"
      BY <1>7 DEF SignalOne
   <2>2. UNCHANGED <<lock, tenant, guard, ledger, processed, uncommitted, about, purge>>
      BY <1>7, <1>v DEF SignalOne
   <2>3. Fails(e) \/ \E x \in event[e].todo : Signals(e, x)
      BY <1>7, <1>t, SignalGoes
   <2> QED
      BY <2>1, <2>2, <2>3 DEF Route, Sweeps
 <1>8. CASE TerminateOne(e)
   <2>1. event[e].pc = "sweep" /\ about[e].status = "offboarded"
      BY <1>8 DEF TerminateOne
   <2>2. UNCHANGED <<lock, tenant, guard, ledger, processed, uncommitted, about, purge>>
      BY <1>8, <1>v DEF TerminateOne
   <2>3. Fails(e) \/ \E x \in event[e].todo : Takes(e, x)
      BY <1>8, <1>t, TerminateGoes
   <2> QED
      BY <2>1, <2>2, <2>3 DEF Route, Sweeps
 <1>9. CASE MarkOne(e)
   <2>1. event[e].pc = "mark one"
      BY <1>9 DEF MarkOne
   <2>2. UNCHANGED <<lock, tenant, guard, ledger, processed, uncommitted, about, purge>>
      BY <1>9, <1>v DEF MarkOne
   <2>3. Fails(e) \/ Goes(e, "confirm one")
      BY <1>9, <1>t, MarkGoes
   <2> QED
      BY <2>1, <2>2, <2>3 DEF Route, Sweeps
 <1>10. CASE ConfirmOne(e)
    BY <1>10, <1>g, <1>v DEF ConfirmOne, Route, Sweeps
 <1>11. CASE EndSweep(e)
    BY <1>11, <1>g, <1>q, <1>u DEF EndSweep, Route, EndsSweep, StartsOver
 <1>12. CASE ApplyPlanChange(e)
    BY <1>12, <1>g DEF ApplyPlanChange, Route, Plans
 <1>13. CASE Commit(e)
    BY <1>13, <1>g, <1>v DEF Commit, Route, Commits
 <1>14. CASE MarkProcessed(e)
    BY <1>14, <1>g, <1>v DEF MarkProcessed, Route, Answers
 <1>15. CASE Redeliver(e)
   <2>1. lock # e
      BY <1>15, <1>t DEF Redeliver, LockOK, Held
   <2> QED
      BY <1>15, <1>q, <1>v, <2>1 DEF Redeliver, Route, StartsOver
 <1>16. CASE EventDies(e)
    BY <1>16, <1>q, <1>v DEF EventDies, Route, StartsOver
 <1> QED
    BY <1>1, <1>2, <1>3, <1>4, <1>5, <1>6, <1>7, <1>8, <1>9, <1>10, <1>11, <1>12, <1>13, <1>14, <1>15, <1>16
       DEF Acts, Deliver

\* Deliveries keep their type.
LEMMA EventTypes ==
    ASSUME TypeOK, Stages, NEW e \in Event, Acts(e)
    PROVE  event' \in [Event -> EventRecord]
 <1>t. event \in [Event -> EventRecord] /\ RowOK
    BY DEF TypeOK, EventsOK, StartTypeOK
 <1>p. \A p \in Held \cup {"queued", "locking", "mark", "done"} : EventAt(e, p) => event' \in [Event -> EventRecord]
    BY <1>t DEF EventAt, EventRecord
 <1>q. event' = [event EXCEPT ![e] = Queued] => event' \in [Event -> EventRecord]
    BY <1>t DEF EventRecord, Queued, RunIds
 <1>1. CASE HandleTenantStateChanged(e) \/ HandleTenantMembershipsPurged(e)
    BY <1>1, <1>p DEF HandleTenantStateChanged, HandleTenantMembershipsPurged, Received, Held
 <1>2. CASE Lock(e) \/ RecordStatus(e) \/ RecordReturned(e) \/ ConfirmOne(e) \/ ApplyPlanChange(e) \/ Commit(e) \/ MarkProcessed(e)
    BY <1>2, <1>p DEF Lock, RecordStatus, RecordReturned, ConfirmOne, ApplyPlanChange, Commit,
       MarkProcessed, Held
 <1>3. CASE EndSweep(e) \/ Redeliver(e) \/ EventDies(e)
    BY <1>3, <1>p, <1>q DEF EndSweep, Redeliver, EventDies, Held
 <1>4. CASE ListInstances(e)
   <2>1. {<<i, row[i].run>> : i \in Live} \in SUBSET (Inst \X RunIds)
      BY <1>t DEF Live, RowOK, RowRecord
   <2>2. event' = [event EXCEPT ![e] = [event[e] EXCEPT !.pc = "sweep", !.failed = FALSE, !.todo = {<<i, row[i].run>> : i \in Live}]]
      BY <1>4 DEF ListInstances
   <2>3. [event[e] EXCEPT !.pc = "sweep", !.failed = FALSE, !.todo = {<<i, row[i].run>> : i \in Live}] \in EventRecord
      BY <1>t, <2>1 DEF EventRecord, Held
   <2> QED
      BY <1>t, <2>2, <2>3
 <1>5. CASE SignalOne(e)
   <2>1. PICK x \in event[e].todo : \/ event' = [event EXCEPT ![e].todo = @ \ {x}]
                                    \/ event' = [event EXCEPT ![e].todo = @ \ {x}, ![e].failed = TRUE]
      BY <1>5 DEF SignalOne
   <2>2. [event[e] EXCEPT !.todo = @ \ {x}] \in EventRecord
      BY <1>t DEF EventRecord
   <2>3. [event[e] EXCEPT !.todo = @ \ {x}, !.failed = TRUE] \in EventRecord
      BY <1>t DEF EventRecord
   <2> QED
      BY <1>t, <2>1, <2>2, <2>3
 <1>6. CASE TerminateOne(e)
   <2>1. PICK x \in event[e].todo : \/ event' = [event EXCEPT ![e].pc = "mark one", ![e].todo = @ \ {x},
                                                              ![e].inst = x[1], ![e].run = x[2]]
                                    \/ event' = [event EXCEPT ![e].todo = @ \ {x}, ![e].failed = TRUE]
      BY <1>6 DEF TerminateOne
   <2>x. x[1] \in Inst /\ x[2] \in RunIds
      BY <1>t DEF EventRecord
   <2>2. [event[e] EXCEPT !.pc = "mark one", !.todo = @ \ {x}, !.inst = x[1], !.run = x[2]] \in EventRecord
      BY <1>t, <2>x DEF EventRecord, Held
   <2>3. [event[e] EXCEPT !.todo = @ \ {x}, !.failed = TRUE] \in EventRecord
      BY <1>t DEF EventRecord
   <2> QED
      BY <1>t, <2>1, <2>2, <2>3
 <1>7. CASE MarkOne(e)
   <2>1. [event[e] EXCEPT !.pc = "sweep", !.failed = TRUE] \in EventRecord
      BY <1>t DEF EventRecord, Held
   <2> QED
      BY <1>7, <1>t, <1>p, <2>1 DEF MarkOne, Held
 <1> QED
    BY <1>1, <1>2, <1>3, <1>4, <1>5, <1>6, <1>7 DEF Acts, Deliver

\* The content of an event.
LEMMA ContentIs ==
    ASSUME TypeOK, NEW e \in Event
    PROVE  /\ about[e] \in Content
           /\ about[e].kind = "memberships" => about[e].status = "offboarded" /\ about[e].changed
           /\ \A f \in Event : about[e].at = about[f].at =>
                about[e].status = about[f].status /\ about[e].changed = about[f].changed
    BY EventAssumption DEF TypeOK, EventsOK

\* Where a sweep goes.
LEMMA SweepGoes ==
    ASSUME TypeOK, NEW e \in Event, Sweeps(e)
    PROVE  /\ Others(e) /\ event[e].pc \in {"list", "sweep", "mark one", "confirm one"}
           /\ \/ event'[e].pc = "sweep"
              \/ event'[e].pc = "mark one" /\ about[e].status = "offboarded" /\ event'[e].inst \in Inst
              \/ event'[e].pc = "confirm one" /\ event[e].pc = "mark one" /\ event'[e].inst = event[e].inst
 <1>1. event[e].pc \in {"list", "sweep", "mark one", "confirm one"}
    BY DEF Sweeps
 <1>2. CASE about[e].status = "offboarded" /\ \E x \in event[e].todo : Takes(e, x)
   <2>1. PICK x \in event[e].todo : Takes(e, x)
      BY <1>2
   <2>2. x[1] \in Inst
      BY DEF TypeOK, EventsOK, EventRecord
   <2>3. Others(e) /\ event'[e].pc = "mark one" /\ event'[e].inst = x[1]
      BY <2>1 DEF Takes
   <2> QED
      BY <1>1, <1>2, <2>2, <2>3
 <1>3. CASE event[e].pc = "mark one" /\ Goes(e, "confirm one")
    BY <1>1, <1>3, WhereTo
 <1>4. CASE Lists(e) \/ Fails(e) \/ Goes(e, "sweep")
    BY <1>1, <1>4, WhereTo
 <1>5. CASE \E x \in event[e].todo : Signals(e, x)
   <2>1. PICK x \in event[e].todo : Signals(e, x)
      BY <1>5
   <2>2. Others(e) /\ event'[e].pc = "sweep"
      BY <2>1 DEF Signals
   <2> QED
      BY <1>1, <2>2
 <1> QED
    BY <1>2, <1>3, <1>4, <1>5 DEF Sweeps

\* What a stage says of its event stays true.
LEMMA StagesStep ==
    ASSUME TypeOK, Stages, NEW e \in Event, Acts(e)
    PROVE  Stages'
 <1>r. Route(e) /\ UNCHANGED about
    BY EventRoutes
 <1>t. event[e].todo \subseteq Inst \X RunIds
    BY DEF TypeOK, EventsOK, EventRecord
 <1>x. \A x \in event[e].todo : x[1] \in Inst
    BY <1>t
 <1>s. /\ event[e].pc \in {"mark one", "confirm one"} => about[e].status = "offboarded" /\ event[e].inst \in Inst
       /\ event[e].pc \in {"returned", "list", "sweep", "mark one", "confirm one"} => about[e].changed
    BY DEF Stages
 <1> DEFINE OK == /\ event'[e].pc \in {"locking", "commit"} => about[e].kind = "state"
                  /\ event'[e].pc \in {"returned", "list", "sweep", "mark one", "confirm one"} => about[e].changed
                  /\ event'[e].pc = "returned" => about[e].status # "offboarded"
                  /\ event'[e].pc \in {"mark one", "confirm one"} => about[e].status = "offboarded" /\ event'[e].inst \in Inst
 <1>1. ASSUME Receives(e) PROVE OK /\ Others(e)
    BY <1>1, WhereTo DEF Receives
 <1>2. ASSUME Skips(e) \/ TakesLock(e) \/ RecordsReturn(e) \/ EndsSweep(e) \/ Commits(e) \/ Answers(e) PROVE OK /\ Others(e)
   <2>1. /\ Others(e)
         /\ \/ event'[e].pc \in {"mark", "status", "plan", "done"}
            \/ event'[e].pc = "list" /\ event[e].pc = "returned"
      BY <1>2, WhereTo DEF Skips, TakesLock, RecordsReturn, EndsSweep, Commits, Answers
   <2> QED
      BY <1>s, <2>1
 <1>3. ASSUME RecordsStatus(e) PROVE OK /\ Others(e)
   <2>1. /\ Others(e)
         /\ \/ event'[e].pc = "plan"
            \/ event'[e].pc = "list" /\ about[e].changed
            \/ event'[e].pc = "returned" /\ about[e].changed /\ about[e].status # "offboarded"
      BY <1>3, WhereTo DEF RecordsStatus
   <2> QED
      BY <2>1
 <1>4. ASSUME Sweeps(e) PROVE OK /\ Others(e)
   <2>1. /\ Others(e) /\ event[e].pc \in {"list", "sweep", "mark one", "confirm one"}
         /\ \/ event'[e].pc = "sweep"
            \/ event'[e].pc = "mark one" /\ about[e].status = "offboarded" /\ event'[e].inst \in Inst
            \/ event'[e].pc = "confirm one" /\ event[e].pc = "mark one" /\ event'[e].inst = event[e].inst
      BY <1>4, SweepGoes
   <2> QED
      BY <1>s, <2>1
 <1>5. ASSUME Plans(e) PROVE OK /\ Others(e)
   <2>1. Others(e) /\ event'[e].pc = IF about[e].kind = "state" THEN "commit" ELSE "mark"
      BY <1>5, WhereTo DEF Plans
   <2> QED
      BY <2>1
 <1>6. ASSUME StartsOver(e) PROVE OK /\ Others(e)
    BY <1>6, WhereTo DEF StartsOver
 <1> QED
   <2>1. OK /\ Others(e)
      BY <1>r, <1>1, <1>2, <1>3, <1>4, <1>5, <1>6 DEF Route
   <2> QED
      BY <1>r, <2>1 DEF Stages, Others

\* The lock is held exactly where the code holds it.
LEMMA LockStep ==
    ASSUME TypeOK, Stages, NEW e \in Event, Acts(e)
    PROVE  LockOK'
 <1>r. Route(e) /\ UNCHANGED about
    BY EventRoutes
 <1>t. LockOK /\ about[e].kind \in {"state", "memberships"}
    BY ContentIs DEF TypeOK, Content
 <1>n. None \notin Event
    BY EventAssumption
 <1>s. event[e].pc \in {"locking", "commit"} => about[e].kind = "state"
    BY DEF Stages
 <1>l. lock = e <=> about[e].kind = "state" /\ event[e].pc \in Held
    BY <1>t DEF LockOK
 <1> DEFINE Mine   == lock' = e <=> about[e].kind = "state" /\ event'[e].pc \in Held
            Theirs == lock' \in Event \cup {None} /\ \A f \in Event \ {e} : lock' = f <=> lock = f
 <1>u. ASSUME UNCHANGED lock PROVE Theirs
    BY <1>t, <1>u DEF LockOK
 <1>o. UNCHANGED lock => Theirs
    BY <1>u
 <1>1. ASSUME Receives(e) PROVE Mine /\ Theirs /\ Others(e)
    BY <1>1, <1>l, <1>o, WhereTo DEF Receives, Held
 <1>2. ASSUME Skips(e) \/ RecordsReturn(e) \/ EndsSweep(e) \/ Answers(e) PROVE Mine /\ Theirs /\ Others(e)
   <2>1. /\ Others(e) /\ UNCHANGED lock
         /\ \/ event[e].pc = "locking" /\ event'[e].pc = "mark"
            \/ event[e].pc = "returned" /\ event'[e].pc = "list"
            \/ event[e].pc = "sweep" /\ event'[e].pc = "plan"
            \/ event[e].pc = "mark" /\ event'[e].pc = "done"
      BY <1>2, WhereTo DEF Skips, RecordsReturn, EndsSweep, Answers
   <2> QED
      BY <1>l, <1>o, <2>1 DEF Held
 <1>3. ASSUME TakesLock(e) PROVE Mine /\ Theirs /\ Others(e)
    BY <1>3, <1>s, <1>n, WhereTo DEF TakesLock, Locked, Held
 <1>4. ASSUME RecordsStatus(e) PROVE Mine /\ Theirs /\ Others(e)
    BY <1>4, <1>l, <1>o, WhereTo DEF RecordsStatus, Held
 <1>5. ASSUME Sweeps(e) PROVE Mine /\ Theirs /\ Others(e)
   <2>1. UNCHANGED lock
      BY <1>5 DEF Sweeps
   <2> QED
      BY <1>5, <1>l, <1>o, <2>1, SweepGoes DEF Held
 <1>6. ASSUME Plans(e) PROVE Mine /\ Theirs /\ Others(e)
   <2>1. /\ Others(e) /\ UNCHANGED lock /\ event[e].pc = "plan"
         /\ event'[e].pc = IF about[e].kind = "state" THEN "commit" ELSE "mark"
      BY <1>6, WhereTo DEF Plans
   <2> QED
      BY <1>l, <1>o, <2>1 DEF Held
 <1>7. ASSUME Commits(e) PROVE Mine /\ Theirs /\ Others(e)
   <2>1. lock = e
      BY <1>7, <1>l, <1>s DEF Commits, Held
   <2>2. lock' = None /\ event'[e].pc = "mark" /\ Others(e)
      BY <1>7, WhereTo DEF Commits
   <2> QED
      BY <2>1, <2>2, <1>n DEF Held
 <1>8. ASSUME StartsOver(e) PROVE Mine /\ Theirs /\ Others(e)
    BY <1>8, <1>l, <1>t, <1>n, WhereTo DEF StartsOver, Held, LockOK
 <1>9. Mine /\ Theirs /\ Others(e)
    BY <1>r, <1>1, <1>2, <1>3, <1>4, <1>5, <1>6, <1>7, <1>8 DEF Route
 <1> QED
    BY <1>r, <1>t, <1>9 DEF LockOK, Others

\* What is on record keeps its type, and no event drops the queue.
LEMMA RecordTypes ==
    ASSUME TypeOK, Stages, NEW e \in Event, Acts(e)
    PROVE  /\ TenantOK' /\ ledger.version <= ledger'.version
           /\ processed' \subseteq Event /\ unreached' \subseteq Inst /\ uncommitted' \in BOOLEAN
           /\ registry' \in {"none", "routable", "stopped"}
           /\ registry # "none" => registry' # "none"
 <1>r. Route(e) /\ UNCHANGED about
    BY EventRoutes
 <1>t. TenantOK /\ about[e] \in Content
    BY ContentIs DEF TypeOK
 <1>e. processed \subseteq Event /\ unreached \subseteq Inst /\ uncommitted \in BOOLEAN /\ event[e] \in EventRecord
    BY DEF TypeOK, EventsOK
 <1>m. registry \in {"none", "routable", "stopped"}
    BY DEF TypeOK, StartTypeOK, MarksOK
 <1>1. tenant' \in [status : Running \cup Pausing \cup {"offboarded"}, at : Nat]
   <2>1. NewestState(e) \in [status : Running \cup Pausing \cup {"offboarded"}, at : Nat]
      BY <1>t DEF NewestState, TenantOK, Content
   <2> QED
      BY <1>r, <1>t, <2>1 DEF Route, Receives, Skips, TakesLock, RecordsStatus, RecordsReturn, Sweeps,
         EndsSweep, Plans, Commits, Answers, StartsOver, TenantOK
 <1>2. guard' \in Nat
    BY <1>r, <1>t DEF Route, Receives, Skips, TakesLock, RecordsStatus, RecordsReturn, Sweeps, EndsSweep,
       Plans, Commits, Answers, StartsOver, TenantOK, Content
 <1>3. ledger' \in [off : Nat, ret : Nat, purged : BOOLEAN, version : Nat] /\ ledger.version <= ledger'.version
   <2>0. ledger \in [off : Nat, ret : Nat, purged : BOOLEAN, version : Nat] /\ about[e].at \in Nat
      BY <1>t DEF TenantOK, Content
   <2>1. LedgerReturned(about[e].at) \in [off : Nat, ret : Nat, purged : BOOLEAN, version : Nat] /\ ledger.version <= LedgerReturned(about[e].at).version
     <3> DEFINE new == [ledger EXCEPT !.ret = about[e].at, !.version = @ + 1]
     <3>1. new \in [off : Nat, ret : Nat, purged : BOOLEAN, version : Nat]
       <4>1. \A v \in Nat : [ledger EXCEPT !.ret = about[e].at, !.version = v] \in [off : Nat, ret : Nat, purged : BOOLEAN, version : Nat]
          BY <2>0
       <4>2. ledger.version + 1 \in Nat
          BY <2>0
       <4> QED
          BY <4>1, <4>2
     <3>2. ledger.version <= new.version
       <4>1. new.version = ledger.version + 1
          BY <2>0
       <4> QED
          BY <2>0, <4>1
     <3>3. ledger.version <= ledger.version
        BY <2>0
     <3> HIDE DEF new
     <3>4. LedgerReturned(about[e].at) \in {new, ledger}
        BY DEF LedgerReturned, new
     <3> QED
        BY <2>0, <3>1, <3>2, <3>3, <3>4
   <2>2. LedgerOffboarded(about[e].at) \in [off : Nat, ret : Nat, purged : BOOLEAN, version : Nat] /\ ledger.version <= LedgerOffboarded(about[e].at).version
      BY <2>0 DEF LedgerOffboarded
   <2>3. ledger.version <= ledger.version
      BY <2>0
   <2> QED
      BY <1>r, <2>0, <2>1, <2>2, <2>3 DEF Route, Receives, Skips, TakesLock, RecordsStatus, RecordsReturn,
         Sweeps, EndsSweep, Plans, Commits, Answers, StartsOver
 <1>4. processed' \subseteq Event
    BY <1>r, <1>e DEF Route, Receives, Skips, TakesLock, RecordsStatus, RecordsReturn, Sweeps, EndsSweep,
       Plans, Commits, Answers, StartsOver
 <1>5. uncommitted' \in BOOLEAN
    BY <1>r, <1>e DEF Route, Receives, Skips, TakesLock, RecordsStatus, RecordsReturn, Sweeps, EndsSweep,
       Plans, Commits, Answers, StartsOver
 <1>6. unreached' \subseteq Inst
   <2>1. CASE UNCHANGED unreached
      BY <1>e, <2>1
   <2>2. CASE SignalOne(e)
     <3>1. \A x \in event[e].todo : x[1] \in Inst
        BY <1>e DEF EventRecord
     <3> QED
        BY <2>2, <1>e, <3>1, SignalTells
   <2> QED
      BY <2>1, <2>2 DEF Acts, Deliver, HandleTenantStateChanged, HandleTenantMembershipsPurged, Received,
         Lock, RecordStatus,
         RecordReturned, ListInstances, TerminateOne, MarkOne, ConfirmOne, EndSweep, ApplyPlanChange, Commit, MarkProcessed,
         Redeliver, EventDies
 <1>7. registry' \in {"none", "routable", "stopped"} /\ (registry # "none" => registry' # "none")
   <2>1. CASE UNCHANGED registry
      BY <1>m, <2>1
   <2>2. CASE ApplyPlanChange(e)
      BY <1>m, <2>2 DEF ApplyPlanChange, RegistryAfter
   <2> QED
      BY <2>1, <2>2 DEF Acts, Deliver, HandleTenantStateChanged, HandleTenantMembershipsPurged, Received,
         Lock, RecordStatus,
         RecordReturned, ListInstances, SignalOne, TerminateOne, MarkOne, ConfirmOne, EndSweep, Commit, MarkProcessed,
         Redeliver, EventDies, startvars, ctxvars
 <1> QED
    BY <1>1, <1>2, <1>3, <1>4, <1>5, <1>6, <1>7 DEF TenantOK

\* The purge ledger of a tenant.
LedgerType == [off : Nat, ret : Nat, purged : BOOLEAN, version : Nat]

\* A purge changes neither time on the ledger.
LEMMA LedgerMoves ==
    ASSUME ledger \in LedgerType, NEW v, NEW l \in {ledger, LedgerFailed(v), LedgerPurged(v)}
    PROVE  l \in LedgerType /\ l.off = ledger.off /\ l.ret = ledger.ret /\ ledger.version <= l.version
 <1>1. ledger.version \in Nat /\ ledger.version + 1 \in Nat /\ ledger.version <= ledger.version + 1 /\ ledger.version <= ledger.version
    BY DEF LedgerType
 <1> DEFINE f == [ledger EXCEPT !.version = @ + 1]
            g == [ledger EXCEPT !.purged = TRUE, !.version = @ + 1]
 <1>2. f \in LedgerType
   <2>1. \A n \in Nat : [ledger EXCEPT !.version = n] \in LedgerType
      BY DEF LedgerType
   <2> QED
      BY <1>1, <2>1
 <1>3. f.off = ledger.off /\ f.ret = ledger.ret /\ f.version = ledger.version + 1
    BY DEF LedgerType
 <1>4. g \in LedgerType
   <2>1. \A n \in Nat : [ledger EXCEPT !.purged = TRUE, !.version = n] \in LedgerType
      BY DEF LedgerType
   <2> QED
      BY <1>1, <2>1
 <1>5. g.off = ledger.off /\ g.ret = ledger.ret /\ g.version = ledger.version + 1
    BY DEF LedgerType
 <1>6. l \in {ledger, f, g}
    BY DEF LedgerFailed, LedgerPurged
 <1> HIDE DEF f, g
 <1> QED
    BY <1>1, <1>2, <1>3, <1>4, <1>5, <1>6

\* Where a step of a purge takes it: a batch begins under the ledger it was listed
\* with, and only a look that found no row declares the tenant empty.
LEMMA PurgeGoes ==
    ASSUME TypeOK, NEW p \in Purger, PurgeStep(p)
    PROVE  /\ purge' \in [Purger -> PurgeRecord]
           /\ \A q \in Purger \ {p} : purge'[q] = purge[q]
           /\ purge'[p].version \in {purge[p].version, ledger.version, 0}
           /\ purge'[p].pc = "empty" => Rows = {} /\ UNCHANGED ledger
           /\ purge'[p].pc \in InBatch => /\ purge'[p].version = purge[p].version /\ UNCHANGED ledger
                                          /\ purge[p].pc \in InBatch \/ Current(p)
 <1>t. purge \in [Purger -> PurgeRecord] /\ ledger.version \in Nat /\ purge[p] \in PurgeRecord
    BY DEF TypeOK, TenantOK, PurgeOK
 <1>n. NoPurge \in PurgeRecord /\ NoPurge.pc = "idle" /\ NoPurge.version = 0
    BY DEF NoPurge, PurgeRecord
 <1>a. ASSUME NEW c \in InBatch \cup {"batch", "check", "empty"}, NEW i \in Inst \cup {None},
              purge' = [purge EXCEPT ![p].pc = c, ![p].inst = i]
       PROVE  /\ purge' \in [Purger -> PurgeRecord]
              /\ \A q \in Purger \ {p} : purge'[q] = purge[q]
              /\ purge'[p].version = purge[p].version /\ purge'[p].pc = c
   <2>1. [purge[p] EXCEPT !.pc = c, !.inst = i] \in PurgeRecord
      BY <1>t DEF PurgeRecord
   <2>2. purge' = [purge EXCEPT ![p] = [purge[p] EXCEPT !.pc = c, !.inst = i]]
      BY <1>a, <1>t
   <2>3. /\ [purge[p] EXCEPT !.pc = c, !.inst = i].pc = c
         /\ [purge[p] EXCEPT !.pc = c, !.inst = i].version = purge[p].version
      BY <1>t DEF PurgeRecord
   <2> QED
      BY <1>t, <2>1, <2>2, <2>3
 <1>b. ASSUME NEW c \in InBatch \cup {"batch", "check", "empty"}, PurgeAt(p, c)
       PROVE  /\ purge' \in [Purger -> PurgeRecord]
              /\ \A q \in Purger \ {p} : purge'[q] = purge[q]
              /\ purge'[p].version = purge[p].version /\ purge'[p].pc = c
    BY <1>a, <1>b DEF PurgeAt
 <1>c. ASSUME PurgeStops(p)
       PROVE  /\ purge' \in [Purger -> PurgeRecord]
              /\ \A q \in Purger \ {p} : purge'[q] = purge[q]
              /\ purge'[p].version = 0 /\ purge'[p].pc = "idle"
    BY <1>c, <1>n, <1>t DEF PurgeStops
 <1>1. CASE ListDue(p)
   <2> DEFINE new == [NoPurge EXCEPT !.pc = "batch", !.version = ledger.version]
   <2>1. new \in PurgeRecord /\ new.pc = "batch" /\ new.version = ledger.version
      BY <1>t DEF NoPurge, PurgeRecord
   <2>2. purge' = [purge EXCEPT ![p] = new]
      BY <1>1 DEF ListDue
   <2> HIDE DEF new
   <2> QED
      BY <1>t, <2>1, <2>2 DEF InBatch
 <1>2. CASE PurgeBatch(p)
   <2>1. CASE PurgeStops(p)
      BY <1>c, <2>1 DEF InBatch
   <2>2. CASE Current(p) /\ PurgeAt(p, "queues")
      BY <1>2, <1>b, <2>2 DEF InBatch, PurgeBatch
   <2>3. ASSUME Current(p), NEW i \in Rows, purge' = [purge EXCEPT ![p].pc = "delete", ![p].inst = i]
         PROVE  /\ purge' \in [Purger -> PurgeRecord]
                /\ \A q \in Purger \ {p} : purge'[q] = purge[q]
                /\ purge'[p].version = purge[p].version /\ purge'[p].pc = "delete"
      BY <1>a, <2>3 DEF InBatch, Rows
   <2> QED
      BY <1>2, <2>1, <2>2, <2>3 DEF PurgeBatch
 <1>3. CASE PurgeInstances(p)
   <2>1. purge[p].pc \in InBatch /\ UNCHANGED ledger /\ \E c \in {"batch", "queues"} : PurgeAt(p, c)
      BY <1>3 DEF PurgeInstances, InBatch
   <2> QED
      BY <1>b, <2>1 DEF InBatch
 <1>4. CASE PurgeQueues(p)
   <2>1. purge[p].pc \in InBatch /\ UNCHANGED ledger /\ \E c \in {"batch", "guards"} : PurgeAt(p, c)
      BY <1>4 DEF PurgeQueues, InBatch
   <2> QED
      BY <1>b, <2>1 DEF InBatch
 <1>5. CASE PurgeGuards(p)
   <2>1. purge[p].pc \in InBatch /\ UNCHANGED ledger /\ \E c \in {"batch", "check"} : PurgeAt(p, c)
      BY <1>5 DEF PurgeGuards, InBatch
   <2> QED
      BY <1>b, <2>1 DEF InBatch
 <1>6. CASE CheckRows(p)
   <2>1. (Rows = {} /\ PurgeAt(p, "empty") /\ UNCHANGED ledger) \/ PurgeStops(p)
      BY <1>6 DEF CheckRows, HasRows
   <2> QED
      BY <1>b, <1>c, <2>1 DEF InBatch
 <1>7. CASE MarkPurged(p)
    BY <1>7, <1>c DEF MarkPurged, InBatch
 <1> QED
    BY <1>1, <1>2, <1>3, <1>4, <1>5, <1>6, <1>7 DEF PurgeStep

\* A purge changes neither time on the ledger; it may drop the queue and the guard.
LEMMA PurgeMoves ==
    ASSUME TypeOK, NEW p \in Purger, PurgeStep(p)
    PROVE  /\ ledger' \in LedgerType /\ ledger'.off = ledger.off /\ ledger'.ret = ledger.ret
           /\ ledger.version <= ledger'.version
           /\ guard' = guard \/ guard' = 0
           /\ registry' \in {registry, "none"}
 <1>t. ledger \in LedgerType /\ ledger.version \in Nat
    BY DEF TypeOK, TenantOK, LedgerType
 <1>1. \E v : ledger' \in {ledger, LedgerFailed(v), LedgerPurged(v)}
   <2>1. CASE CheckRows(p)
      BY <2>1 DEF CheckRows
   <2>2. CASE MarkPurged(p)
      BY <2>2 DEF MarkPurged
   <2>3. CASE ListDue(p) \/ PurgeBatch(p) \/ PurgeInstances(p) \/ PurgeQueues(p) \/ PurgeGuards(p)
      BY <2>3 DEF ListDue, PurgeBatch, PurgeInstances, PurgeQueues, PurgeGuards, eventvars
   <2> QED
      BY <2>1, <2>2, <2>3 DEF PurgeStep
 <1>2. ledger' \in LedgerType /\ ledger'.off = ledger.off /\ ledger'.ret = ledger.ret /\ ledger.version <= ledger'.version
    BY <1>t, <1>1, LedgerMoves
 <1>3. (guard' = guard \/ guard' = 0) /\ registry' \in {registry, "none"}
    BY DEF PurgeStep, ListDue, PurgeBatch, PurgeInstances, PurgeQueues, PurgeGuards, CheckRows, MarkPurged, startvars,
       ctxvars, eventvars
 <1> QED
    BY <1>2, <1>3

\* A step that opens nothing keeps the types of the starts.
LEMMA SettledTypes ==
    ASSUME StartTypeOK, Settles, registry' \in {"none", "routable", "stopped"}
    PROVE  StartTypeOK' /\ RunIds' = RunIds
 <1>1. RunIds' = RunIds
    BY DEF Settles, RunsSettle, RunIds
 <1>2. StartOK' /\ CloseOK'
    BY <1>1 DEF Settles, StartTypeOK, StartOK, CloseOK, StartRecord, CloseRecord
 <1>3. MarksOK'
    BY DEF Settles, StartTypeOK, MarksOK
 <1> QED
    BY <1>1, <1>2, <1>3 DEF Settles, StartTypeOK

\* The starts and terminates leave the events alone.
LEMMA StartLeaves ==
    ASSUME TypeOK, KeysAgree, [StartNext]_startvars, UNCHANGED <<eventvars, purge>>
    PROVE  TypeOK' /\ KeysAgree' /\ Kept /\ Rising /\ PausesStay
 <1>t. StartTypeOK /\ EventsOK /\ LockOK /\ TenantOK /\ PurgeOK
    BY DEF TypeOK
 <1>1. StartTypeOK' /\ KeysAgree' /\ Kept /\ Rising /\ PausesStay
    BY <1>t, TypeStep, KeysStep, StartKeeps, StartRises
 <1>u. UNCHANGED <<about, event, processed, lock, guard, ledger, unreached, uncommitted, purge, tenant>>
    BY <1>1 DEF eventvars, Rising, ctxvars
 <1>2. EventsOK'
   <2>1. RunIds \subseteq RunIds'
      BY <1>1 DEF Kept, RunIds
   <2>2. \A f \in Event : event[f] \in EventRecord'
     <3>1. SUBSET (Inst \X RunIds) \subseteq SUBSET (Inst \X RunIds')
        BY <2>1
     <3> QED
        BY <1>t, <2>1, <3>1 DEF EventsOK, EventRecord
   <2>3. event' \in [Event -> EventRecord']
      BY <1>t, <1>u, <2>2 DEF EventsOK
   <2> QED
      BY <1>t, <1>u, <2>3 DEF EventsOK
 <1>3. LockOK' /\ TenantOK' /\ PurgeOK'
    BY <1>t, <1>u DEF LockOK, TenantOK, PurgeOK
 <1> QED
    BY <1>1, <1>2, <1>3 DEF TypeOK

\* Every step of an event keeps the types,
LEMMA EventStepType ==
    ASSUME TypeOK, KeysAgree, Stages, NEW e \in Event, Acts(e)
    PROVE  TypeOK' /\ KeysAgree' /\ Stages'
 <1>t. StartTypeOK /\ EventsOK /\ LockOK /\ TenantOK /\ PurgeOK
    BY DEF TypeOK
 <1>1. Settles /\ Route(e) /\ UNCHANGED <<about, purge>>
    BY EventSettles, EventRoutes
 <1>2. /\ TenantOK' /\ ledger.version <= ledger'.version
       /\ processed' \subseteq Event /\ unreached' \subseteq Inst /\ uncommitted' \in BOOLEAN
       /\ registry' \in {"none", "routable", "stopped"}
    BY RecordTypes
 <1>3. StartTypeOK' /\ RunIds' = RunIds
    BY <1>t, <1>1, <1>2, SettledTypes
 <1>4. EventsOK'
   <2>1. EventRecord' = EventRecord
      BY <1>3 DEF EventRecord
   <2> QED
      BY <1>t, <1>1, <1>2, <2>1, EventTypes DEF EventsOK
 <1>5. PurgeOK'
   <2>1. \A p \in Purger : purge[p].version \in Nat /\ purge[p].version <= ledger.version
      BY <1>t DEF PurgeOK, PurgeRecord
   <2>2. ledger.version \in Nat /\ ledger'.version \in Nat
      BY <1>t, <1>2 DEF TenantOK
   <2> QED
      BY <1>t, <1>1, <1>2, <2>1, <2>2 DEF PurgeOK
 <1> QED
    BY <1>1, <1>2, <1>3, <1>4, <1>5, LockStep, StagesStep, KeysSettle DEF TypeOK

\* every step of a purge does,
LEMMA PurgeStepType ==
    ASSUME TypeOK, KeysAgree, Stages, NEW p \in Purger, PurgeStep(p)
    PROVE  TypeOK' /\ KeysAgree' /\ Stages'
 <1>t. StartTypeOK /\ EventsOK /\ LockOK /\ TenantOK /\ PurgeOK
    BY DEF TypeOK
 <1>1. Settles /\ UNCHANGED <<runs, unreached, about, event, processed, lock, tenant, uncommitted, missed>>
    BY PurgeSettles
 <1>2. /\ ledger' \in LedgerType /\ ledger.version <= ledger'.version
       /\ guard' = guard \/ guard' = 0
       /\ registry' \in {registry, "none"}
       /\ purge' \in [Purger -> PurgeRecord]
       /\ \A q \in Purger : purge'[q].version \in {purge[q].version, ledger.version, 0}
    BY PurgeMoves, PurgeGoes
 <1>3. registry' \in {"none", "routable", "stopped"}
    BY <1>t, <1>2 DEF StartTypeOK, MarksOK
 <1>4. StartTypeOK' /\ RunIds' = RunIds
    BY <1>t, <1>1, <1>3, SettledTypes
 <1>5. EventsOK' /\ LockOK'
    BY <1>t, <1>1, <1>4 DEF EventsOK, LockOK, EventRecord
 <1>6. TenantOK'
    BY <1>t, <1>1, <1>2 DEF TenantOK, LedgerType
 <1>7. PurgeOK'
   <2>1. \A q \in Purger : purge[q].version \in Nat /\ purge[q].version <= ledger.version
      BY <1>t DEF PurgeOK, PurgeRecord
   <2>2. ledger.version \in Nat /\ ledger'.version \in Nat
      BY <1>t, <1>6 DEF TenantOK
   <2>3. \A q \in Purger : purge'[q].version <= ledger'.version
      BY <1>2, <2>1, <2>2, SMT
   <2> QED
      BY <1>2, <2>3 DEF PurgeOK
 <1>8. Stages'
    BY <1>1 DEF Stages
 <1> QED
    BY <1>1, <1>4, <1>5, <1>6, <1>7, <1>8, KeysSettle DEF TypeOK

\* and every status an execution writes.
LEMMA WriteStepType ==
    ASSUME TypeOK, KeysAgree, Stages, NEW r \in DOMAIN runs, WriteStatus(r)
    PROVE  TypeOK' /\ KeysAgree' /\ Stages'
 <1>t. StartTypeOK /\ EventsOK /\ LockOK /\ TenantOK /\ PurgeOK
    BY DEF TypeOK
 <1>1. Settles /\ UNCHANGED <<runs, ctxvars, eventvars, purge, missed>>
    BY WriteSettles
 <1>2. UNCHANGED <<tenant, registry, about, event, processed, lock, guard, ledger, unreached, uncommitted, purge>>
    BY <1>1 DEF ctxvars, eventvars
 <1>3. StartTypeOK' /\ RunIds' = RunIds
    BY <1>t, <1>1, <1>2, SettledTypes DEF StartTypeOK, MarksOK
 <1>4. EventsOK' /\ LockOK' /\ Stages'
    BY <1>t, <1>2, <1>3 DEF EventsOK, LockOK, EventRecord, Stages
 <1>5. TenantOK' /\ PurgeOK'
    BY <1>t, <1>2 DEF TenantOK, PurgeOK
 <1> QED
    BY <1>1, <1>3, <1>4, <1>5, KeysSettle DEF TypeOK

(***************************************************************************)
(* What the tenant has on record.                                          *)
(***************************************************************************)
\* The status is written, the event is answered, and either.
Past == Held \ {"status"}
Answered(e) == event[e].pc \in {"mark", "done"} \/ e \in processed
Recorded(e) == event[e].pc \in Past \/ Answered(e)

\* Status, offboarding and return are those of an event.
TenantIs ==
    \/ tenant = [status |-> "active", at |-> 0]
    \/ \E f \in Event : tenant = [status |-> about[f].status, at |-> about[f].at]
LedgerIs ==
    /\ ledger.off # 0 => \E f \in Event : about[f].at = ledger.off /\ about[f].status = "offboarded"
    /\ ledger.ret # 0 => \E f \in Event : about[f].at = ledger.ret /\ about[f].status # "offboarded"
    /\ ledger.version = 0 => ledger.off = 0 /\ ledger.ret = 0
\* The status on record is not older than the offboarding, the guard and any event
\* that got so far.
Ordered ==
    /\ ledger.off <= tenant.at /\ guard <= tenant.at
    /\ \A e \in Event : Recorded(e) => about[e].at <= tenant.at
\* Whoever holds the lock is newer than the guard, but for an offboarding.
Fresh == \A e \in Event : about[e].status # "offboarded" /\ event[e].pc \in Held => about[e].at > guard
Records == TenantIs /\ LedgerIs /\ Ordered /\ Fresh

\* The times are naturals, and those of an event not 0.
LEMMA TimesAre ==
    ASSUME TypeOK
    PROVE  /\ tenant.at \in Nat /\ guard \in Nat /\ ledger.off \in Nat /\ ledger.ret \in Nat /\ ledger.version \in Nat
           /\ \A f \in Event : about[f].at \in Nat /\ about[f].at > 0
 <1>1. \A f \in Event : about[f].at \in Nat \ {0}
    BY ContentIs DEF Content
 <1> QED
    BY <1>1 DEF TypeOK, TenantOK

\* The ledger takes its times from events.
LEMMA LedgerRecords ==
    ASSUME TypeOK, LedgerIs, NEW e \in Event
    PROVE  /\ about[e].status # "offboarded" /\ ledger' = LedgerReturned(about[e].at) /\ UNCHANGED about => LedgerIs' /\ ledger'.off = ledger.off
           /\ about[e].status = "offboarded" /\ ledger' = LedgerOffboarded(about[e].at) /\ UNCHANGED about =>
                LedgerIs' /\ ledger'.off \in {ledger.off, about[e].at}
 <1>t. ledger \in [off : Nat, ret : Nat, purged : BOOLEAN, version : Nat]
    BY DEF TypeOK, TenantOK
 <1>n. /\ ledger.off \in Nat /\ ledger.ret \in Nat /\ ledger.version \in Nat
       /\ \A f \in Event : about[f].at \in Nat /\ about[f].at > 0
    BY TimesAre
 <1>1. ASSUME about[e].status # "offboarded", ledger' = LedgerReturned(about[e].at), UNCHANGED about
       PROVE  LedgerIs' /\ ledger'.off = ledger.off
   <2>1. CASE ledger' = ledger
      BY <1>1, <2>1 DEF LedgerIs
   <2>2. CASE ledger' = [ledger EXCEPT !.ret = about[e].at, !.version = @ + 1]
     <3>1. ledger'.off = ledger.off /\ ledger'.ret = about[e].at /\ ledger'.version = ledger.version + 1
        BY <1>t, <2>2
     <3>2. ledger'.version # 0
        BY <1>n, <3>1
     <3> QED
        BY <1>1, <3>1, <3>2 DEF LedgerIs
   <2> QED
      BY <1>1, <2>1, <2>2 DEF LedgerReturned
 <1>2. ASSUME about[e].status = "offboarded", ledger' = LedgerOffboarded(about[e].at), UNCHANGED about
       PROVE  LedgerIs' /\ ledger'.off \in {ledger.off, about[e].at}
   <2>1. CASE ledger' = ledger
      BY <1>2, <2>1 DEF LedgerIs
   <2>2. CASE ledger' = [off |-> about[e].at, ret |-> 0, purged |-> FALSE, version |-> ledger.version + 1]
     <3>1. ledger'.off = about[e].at /\ ledger'.ret = 0 /\ ledger'.version = ledger.version + 1
        BY <2>2
     <3>2. ledger'.version # 0
        BY <1>n, <3>1
     <3> QED
        BY <1>2, <3>1, <3>2 DEF LedgerIs
   <2> QED
      BY <1>2, <2>1, <2>2 DEF LedgerOffboarded
 <1> QED
    BY <1>1, <1>2

\* Nothing is recorded.
LEMMA SameRecords ==
    ASSUME Records, UNCHANGED <<tenant, about, event, processed, guard, ledger>>
    PROVE  Records'
    BY DEF Records, TenantIs, LedgerIs, Ordered, Recorded, Answered, Fresh

\* A purge may forget the guard, which was not newer than the record.
LEMMA PurgeRecords ==
    ASSUME TypeOK, TypeOK', Records, NEW p \in Purger, PurgeStep(p)
    PROVE  Records'
 <1>1. UNCHANGED <<tenant, about, event, processed>>
    BY PurgeSettles
 <1>2. ledger'.off = ledger.off /\ ledger'.ret = ledger.ret /\ ledger.version <= ledger'.version /\ (guard' = guard \/ guard' = 0)
    BY PurgeMoves
 <1>n. /\ tenant.at \in Nat /\ guard \in Nat /\ ledger.off \in Nat /\ ledger.version \in Nat
       /\ \A f \in Event : about[f].at \in Nat /\ about[f].at > 0
    BY TimesAre
 <1>3. ledger'.version \in Nat
    BY DEF TypeOK, TenantOK
 <1>4. TenantIs'
    BY <1>1 DEF Records, TenantIs
 <1>5. LedgerIs'
   <2>1. ledger'.version = 0 => ledger.version = 0
      BY <1>2, <1>3, <1>n
   <2> QED
      BY <1>1, <1>2, <2>1 DEF Records, LedgerIs
 <1>6. guard' <= tenant'.at
    BY <1>1, <1>2, <1>n DEF Records, Ordered
 <1>7. Ordered'
    BY <1>1, <1>2, <1>6 DEF Records, Ordered, Recorded, Answered
 <1>8. Fresh'
    BY <1>1, <1>2, <1>n DEF Records, Fresh
 <1> QED
    BY <1>4, <1>5, <1>7, <1>8 DEF Records

\* A newer status replaces the older one.
LEMMA NewestIs ==
    ASSUME TypeOK, NEW e \in Event
    PROVE  /\ NewestState(e).at >= tenant.at /\ NewestState(e).at >= about[e].at
           /\ NewestState(e) = tenant \/ NewestState(e) = [status |-> about[e].status, at |-> about[e].at]
           /\ NewestState(e).at \in {tenant.at, about[e].at}
           /\ NewestState(e).at = tenant.at \/ (tenant.at < about[e].at /\ NewestState(e).at = about[e].at)
    BY TimesAre DEF NewestState

\* What the route of an event does to the record.
OnRecord(e) ==
    /\ tenant' = tenant \/ (event[e].pc = "status" /\ tenant' = NewestState(e))
    /\ \/ ledger' = ledger
       \/ event[e].pc = "returned" /\ ledger' = LedgerReturned(about[e].at)
       \/ event[e].pc = "sweep" /\ event'[e].pc = "plan" /\ about[e].status = "offboarded" /\ ledger' = LedgerOffboarded(about[e].at)
    /\ guard' = guard \/ (event[e].pc = "commit" /\ guard' = about[e].at /\ ShouldApply(e) /\ event'[e].pc = "mark")
    /\ processed \subseteq processed' /\ (processed' = processed \/ (event[e].pc = "mark" /\ processed' \subseteq processed \cup {e}))
    /\ Others(e)
    /\ \/ event[e].pc = "queued" /\ event'[e].pc = "done" /\ e \in processed
       \/ event[e].pc = "queued" /\ event'[e].pc = "locking" 
       \/ event[e].pc = "queued" /\ event'[e].pc = "status" /\ about[e].kind = "memberships"
       \/ event[e].pc = "locking" /\ event'[e].pc = "mark" /\ ~ShouldApply(e)
       \/ event[e].pc = "locking" /\ event'[e].pc = "status" /\ (about[e].status = "offboarded" \/ ShouldApply(e))
       \/ event[e].pc = "status" /\ event'[e].pc \in {"plan", "list", "returned"} /\ tenant' = NewestState(e)
       \/ event[e].pc \in Past /\ event'[e].pc \in Past
       \/ event[e].pc \in {"plan", "commit", "mark"} /\ event'[e].pc \in {"mark", "done"}
       \/ event'[e].pc = "queued"

\* Every step of an event does just that.
LEMMA RouteRecords ==
    ASSUME TypeOK, Stages, NEW e \in Event, Acts(e)
    PROVE  OnRecord(e)
 <1>r. Route(e)
    BY EventRoutes
 <1>1. CASE Receives(e)
    BY <1>1, WhereTo DEF Receives, OnRecord
 <1>2. CASE Skips(e)
    BY <1>2, WhereTo DEF Skips, OnRecord
 <1>3. CASE TakesLock(e)
    BY <1>3, WhereTo DEF TakesLock, OnRecord
 <1>4. CASE RecordsStatus(e)
   <2>1. Others(e) /\ event'[e].pc \in {"plan", "list", "returned"}
      BY <1>4, WhereTo DEF RecordsStatus
   <2> QED
      BY <1>4, <2>1 DEF RecordsStatus, OnRecord
 <1>5. CASE RecordsReturn(e)
   <2>0. Others(e) /\ event'[e].pc = "list" /\ event[e].pc = "returned"
      BY <1>5, WhereTo DEF RecordsReturn
   <2>1. Others(e) /\ event[e].pc \in Past /\ event'[e].pc \in Past
      BY <2>0 DEF Past, Held
   <2> QED
      BY <1>5, <2>1 DEF RecordsReturn, OnRecord
 <1>6. CASE Sweeps(e)
   <2>1. Others(e) /\ event[e].pc \in Past /\ event'[e].pc \in Past
      BY <1>6, SweepGoes DEF Past, Held
   <2> QED
      BY <1>6, <2>1 DEF Sweeps, OnRecord
 <1>7. CASE EndsSweep(e)
   <2>0. Others(e) /\ event'[e].pc = "plan" /\ event[e].pc = "sweep"
      BY <1>7, WhereTo DEF EndsSweep
   <2>1. event[e].pc \in Past /\ event'[e].pc \in Past
      BY <2>0 DEF Past, Held
   <2>2. ledger' = ledger \/ (about[e].status = "offboarded" /\ ledger' = LedgerOffboarded(about[e].at))
      BY <1>7 DEF EndsSweep
   <2> QED
      BY <1>7, <2>0, <2>1, <2>2 DEF EndsSweep, OnRecord
 <1>8. CASE Plans(e)
   <2>1. Others(e) /\ event[e].pc = "plan" /\ event'[e].pc = IF about[e].kind = "state" THEN "commit" ELSE "mark"
      BY <1>8, WhereTo DEF Plans
   <2> QED
      BY <1>8, <2>1 DEF Plans, OnRecord, Past, Held
 <1>9. CASE Commits(e)
   <2>1. Others(e) /\ event[e].pc = "commit" /\ event'[e].pc = "mark"
      BY <1>9, WhereTo DEF Commits
   <2> QED
      BY <1>9, <2>1 DEF Commits, OnRecord
 <1>10. CASE Answers(e)
    BY <1>10, WhereTo DEF Answers, OnRecord
 <1>11. CASE StartsOver(e)
    BY <1>11, WhereTo DEF StartsOver, OnRecord
 <1> QED
    BY <1>r, <1>1, <1>2, <1>3, <1>4, <1>5, <1>6, <1>7, <1>8, <1>9, <1>10, <1>11 DEF Route

\* So the record stays that of the newest event.
LEMMA EventRecords ==
    ASSUME TypeOK, TypeOK', Stages, Records, NEW e \in Event, Acts(e)
    PROVE  Records'
 <1>r. OnRecord(e) /\ UNCHANGED about
    BY EventRoutes, RouteRecords
 <1>n. /\ tenant.at \in Nat /\ guard \in Nat /\ ledger.off \in Nat /\ ledger.version \in Nat
       /\ \A f \in Event : about[f].at \in Nat /\ about[f].at > 0
    BY TimesAre
 <1>m. tenant'.at \in Nat /\ guard' \in Nat /\ ledger'.off \in Nat
    BY DEF TypeOK, TenantOK
 <1>k. TenantIs /\ LedgerIs /\ Ordered /\ Fresh
    BY DEF Records
 <1>w. tenant'.at >= tenant.at
    BY <1>r, <1>n, NewestIs DEF OnRecord
 <1>o. Others(e) /\ processed' \subseteq processed \cup {e}
    BY <1>r DEF OnRecord
 <1>1. TenantIs'
    BY <1>r, <1>k, NewestIs DEF OnRecord, TenantIs
 <1>2. LedgerIs'
   <2>1. event[e].pc = "returned" => about[e].status # "offboarded"
      BY DEF Stages
   <2>2. ledger' = ledger => LedgerIs'
      BY <1>r, <1>k DEF LedgerIs
   <2> QED
      BY <1>r, <1>k, <2>1, <2>2, LedgerRecords DEF OnRecord
 <1>3. Ordered'
   <2>1. ledger'.off <= tenant'.at
     <3>1. ledger'.off = ledger.off \/ (event[e].pc = "sweep" /\ ledger'.off \in {ledger.off, about[e].at})
       <4>1. event[e].pc = "returned" => about[e].status # "offboarded"
          BY DEF Stages
       <4> QED
          BY <1>r, <1>k, <4>1, LedgerRecords DEF OnRecord
     <3>2. event[e].pc = "sweep" => about[e].at <= tenant.at
        BY <1>k DEF Ordered, Recorded, Past, Held
     <3>3. ledger.off <= tenant.at
        BY <1>k DEF Ordered
     <3> QED
        BY <1>n, <1>m, <1>w, <3>1, <3>2, <3>3
   <2>2. guard' <= tenant'.at
     <3>1. event[e].pc = "commit" => about[e].at <= tenant.at
        BY <1>k DEF Ordered, Recorded, Past, Held
     <3>2. guard <= tenant.at
        BY <1>k DEF Ordered
     <3>3. guard' = guard \/ (event[e].pc = "commit" /\ guard' = about[e].at)
        BY <1>r DEF OnRecord
     <3> QED
        BY <1>n, <1>m, <1>w, <3>1, <3>2, <3>3
   <2>3. ASSUME NEW f \in Event, f # e, Recorded(f)' PROVE about[f].at <= tenant'.at
     <3>1. Recorded(f)
        BY <1>o, <2>3 DEF Others, Recorded, Answered
     <3>2. about[f].at <= tenant.at
        BY <1>k, <3>1 DEF Ordered
     <3> QED
        BY <1>n, <1>m, <1>w, <3>2
   <2>4. ASSUME Recorded(e)' PROVE about[e].at <= tenant'.at
     <3>1. \/ Recorded(e)
           \/ event[e].pc = "locking" /\ ~ShouldApply(e)
           \/ event[e].pc = "status" /\ tenant' = NewestState(e)
        BY <1>r, <2>4 DEF OnRecord, Recorded, Answered, Past, Held
     <3>2. CASE Recorded(e)
       <4>1. about[e].at <= tenant.at
          BY <1>k, <3>2 DEF Ordered
       <4> QED
          BY <1>n, <1>m, <1>w, <4>1
     <3>3. CASE event[e].pc = "locking" /\ ~ShouldApply(e)
       <4>1. about[e].at <= guard /\ guard <= tenant.at
          BY <1>k, <1>n, <3>3 DEF Ordered, ShouldApply
       <4> QED
          BY <1>n, <1>m, <1>w, <4>1
     <3>4. CASE tenant' = NewestState(e)
        BY <3>4, NewestIs, <1>n, <1>m
     <3> QED
        BY <3>1, <3>2, <3>3, <3>4
   <2> QED
      BY <1>r, <2>1, <2>2, <2>3, <2>4 DEF Ordered
 <1>4. Fresh'
   <2>1. ASSUME NEW f \in Event, f # e, about[f].status # "offboarded", event[f].pc \in Held PROVE about[f].at > guard'
     <3>1. about[f].at > guard
        BY <1>k, <2>1 DEF Fresh
     <3>2. about[f].kind = "state"
        BY <2>1, ContentIs DEF Content
     <3>3. lock = f
        BY <2>1, <3>2 DEF TypeOK, LockOK
     <3>4. event[e].pc # "commit"
       <4>1. event[e].pc = "commit" => lock = e
          BY DEF Stages, TypeOK, LockOK, Held
       <4> QED
          BY <2>1, <3>3, <4>1
     <3> QED
        BY <1>r, <3>1, <3>4 DEF OnRecord
   <2>2. ASSUME about[e].status # "offboarded", event'[e].pc \in Held PROVE about[e].at > guard'
     <3>1. about[e].kind # "memberships"
        BY <2>2, ContentIs
     <3>2. guard' = guard
        BY <1>r, <2>2 DEF OnRecord, Held
     <3>3. event[e].pc \in Held \/ ShouldApply(e)
        BY <1>r, <2>2, <3>1 DEF OnRecord, Held, Past
     <3> QED
        BY <1>k, <2>2, <3>2, <3>3 DEF Fresh, ShouldApply
   <2> QED
      BY <1>r, <1>o, <2>1, <2>2 DEF Fresh, Others
 <1> QED
    BY <1>1, <1>2, <1>3, <1>4 DEF Records

(***************************************************************************)
(* Offboarding.                                                            *)
(***************************************************************************)
\* An instance becomes live only as a new row, and not unmarked while the tenant is
\* refused.
Births ==
    /\ late \subseteq late'
    /\ \A i \in Live' : i \notin late' => i \in Live \/ (row[i].status = "none" /\ tenant.status \notin Refused)

\* A start adds a row,
LEMMA StartBirths ==
    ASSUME Kept, Rising
    PROVE  Births
    BY DEF Kept, Rising, Births, Live, NonTerminal

\* no other step does.
LEMMA SettledBirths ==
    ASSUME Settles
    PROVE  Births /\ Live' \subseteq Live /\ late' = late
    BY DEF Settles, RowsSettle, Births, Live

\* Two events of one time agree on the status.
LEMMA StatusIs ==
    ASSUME TypeOK, TenantIs, NEW e \in Event, tenant.at = about[e].at
    PROVE  tenant.status = about[e].status
 <1>1. about[e].at > 0 /\ about[e].at \in Nat
    BY TimesAre
 <1>2. tenant # [status |-> "active", at |-> 0]
    BY <1>1
 <1>3. PICK f \in Event : tenant = [status |-> about[f].status, at |-> about[f].at]
    BY <1>2 DEF TenantIs
 <1> QED
    BY <1>3, ContentIs

\* What the sweep of an offboarding has still to do.
Pending(e, i) == (\E x \in event[e].todo : x[1] = i) \/ (event[e].pc = "mark one" /\ event[e].inst = i)
Offboards(e) == about[e].status = "offboarded" /\ about[e].changed /\ tenant.at = about[e].at
\* While the sweep of the offboarding on record has not failed, what is live is on
\* its list or came late; afterwards it came late.
Sweeping(e) == event[e].pc \in {"sweep", "mark one", "confirm one"} /\ ~event[e].failed
Swept(e)    == event[e].pc \in {"plan", "commit"} \/ Answered(e)
Ending(e) ==
    Offboards(e) =>
      /\ Sweeping(e) => \A i \in Live : i \in late \/ Pending(e, i)
      /\ Swept(e) => Live \subseteq late
Terminating == \A e \in Event : Ending(e)
\* So is what is live when that offboarding is on the ledger.
OffLedger == ledger.off # 0 /\ ledger.off = tenant.at => Live \subseteq late

\* A step of somebody else does not undo a sweep.
LEMMA EndingKept ==
    ASSUME TypeOK, TenantIs, NEW f \in Event, Ending(f), Births, UNCHANGED about, tenant'.at = tenant.at, event'[f] = event[f],
           f \in processed' => f \in processed
    PROVE  Ending(f)'
 <1> SUFFICES ASSUME Offboards(f)' PROVE (Sweeping(f)' => \A i \in Live' : i \in late' \/ Pending(f, i)') /\ (Swept(f)' => Live' \subseteq late')
    BY DEF Ending
 <1>1. Offboards(f)
    BY DEF Offboards
 <1>2. tenant.status \in Refused
    BY <1>1, StatusIs DEF Offboards, Refused
 <1>3. \A i \in Live' : i \notin late' => i \in Live /\ i \notin late
    BY <1>2 DEF Births
 <1>4. (Sweeping(f)' => Sweeping(f)) /\ (Swept(f)' => Swept(f)) /\ \A i : Pending(f, i) => Pending(f, i)'
    BY DEF Sweeping, Swept, Answered, Pending
 <1> QED
    BY <1>1, <1>3, <1>4 DEF Ending

\* Nor the offboarding on the ledger.
LEMMA OffLedgerKept ==
    ASSUME TypeOK, TenantIs, LedgerIs, OffLedger, Births, UNCHANGED tenant, ledger'.off = ledger.off
    PROVE  OffLedger'
 <1> SUFFICES ASSUME ledger.off # 0, ledger.off = tenant.at PROVE Live' \subseteq late'
    BY DEF OffLedger
 <1>1. PICK f \in Event : about[f].at = ledger.off /\ about[f].status = "offboarded"
    BY DEF LedgerIs
 <1>2. tenant.status \in Refused
    BY <1>1, StatusIs DEF Refused
 <1>3. Live \subseteq late
    BY DEF OffLedger
 <1> QED
    BY <1>2, <1>3 DEF Births

\* What was marked is not live.
LEMMA MarkedIsOver ==
    ASSUME TypeOK, Stages, NEW e \in Event, Acts(e), event[e].pc = "mark one", event'[e].pc = "confirm one"
    PROVE  event[e].inst \notin Live'
 <1>t. EventsOK /\ RowOK
    BY DEF TypeOK, StartTypeOK
 <1>1. MarkOne(e)
   <2>1. ~Restarts(e)
     <3>1. Queued.pc = "queued"
        BY DEF Queued
     <3> QED
        BY <3>1 DEF Restarts
   <2>2. ~(Redeliver(e) \/ EventDies(e))
      BY <1>t, <2>1, QueuedRestarts DEF Redeliver, EventDies
   <2> QED
      BY <2>2 DEF Acts, Deliver, HandleTenantStateChanged, HandleTenantMembershipsPurged, Received, Lock,
         RecordStatus,
         RecordReturned, ListInstances, SignalOne, TerminateOne, ConfirmOne, EndSweep, ApplyPlanChange, Commit, MarkProcessed
 <1>2. row' = IF event[e].inst \in Live THEN [row EXCEPT ![event[e].inst].status = "TERMINATED"] ELSE row
    BY <1>t, <1>1, MarkGoes DEF Fails
 <1>3. CASE event[e].inst \in Live
   <2>1. event[e].inst \in Inst /\ row'[event[e].inst].status = "TERMINATED"
      BY <1>t, <1>2, <1>3 DEF RowOK, RowRecord, Live
   <2> QED
      BY <2>1 DEF Live, NonTerminal
 <1> QED
    BY <1>2, <1>3 DEF Live

\* The sweep of an offboarding, step by step.
LEMMA SweepKeeps ==
    ASSUME TypeOK, Stages, Records, NEW e \in Event, Acts(e), Sweeps(e), Ending(e)
    PROVE  Ending(e)'
 <1>u. UNCHANGED <<about, tenant, processed>>
    BY EventRoutes DEF Sweeps
 <1>s. Live' \subseteq Live /\ late' = late
    BY EventSettles, SettledBirths
 <1> SUFFICES ASSUME Offboards(e)
              PROVE  (Sweeping(e)' => \A i \in Live' : i \in late' \/ Pending(e, i)') /\ (Swept(e)' => Live' \subseteq late')
    BY <1>u DEF Ending, Offboards
 <1>1. Swept(e)' => e \in processed
    BY <1>u, SweepGoes DEF Swept, Answered
 <1>2. e \in processed => Live \subseteq late
    BY DEF Ending, Swept, Answered
 <1>3. ASSUME Sweeping(e)' PROVE \A i \in Live' : i \in late' \/ Pending(e, i)'
   <2>1. CASE Lists(e)
     <3>1. \A i \in Live : \E x \in event'[e].todo : x[1] = i
       <4>1. event'[e].todo = {<<i, row[i].run>> : i \in Live}
          BY <2>1 DEF Lists
       <4>2. ASSUME NEW i \in Live PROVE \E x \in event'[e].todo : x[1] = i
         <5>1. <<i, row[i].run>> \in event'[e].todo /\ <<i, row[i].run>>[1] = i
            BY <4>1
         <5> QED
            BY <5>1
       <4> QED
          BY <4>2
     <3> QED
        BY <1>s, <3>1 DEF Pending
   <2>2. CASE Fails(e)
      BY <1>3, <2>2 DEF Fails, Sweeping
   <2>3. CASE event[e].pc = "sweep" /\ \E x \in event[e].todo : Takes(e, x)
     <3>1. PICK x \in event[e].todo : Takes(e, x)
        BY <2>3
     <3>2. /\ event'[e].pc = "mark one" /\ event'[e].todo = event[e].todo \ {x}
           /\ event'[e].failed = event[e].failed /\ event'[e].inst = x[1]
        BY <3>1 DEF Takes
     <3>3. Sweeping(e)
        BY <1>3, <2>3, <3>2 DEF Sweeping
     <3>4. \A i : Pending(e, i) => Pending(e, i)'
        BY <2>3, <3>2 DEF Pending
     <3> QED
        BY <1>s, <3>3, <3>4 DEF Ending
   <2>4. CASE event[e].pc = "mark one" /\ Goes(e, "confirm one")
     <3>1. event'[e].pc = "confirm one" /\ event'[e].todo = event[e].todo /\ event'[e].failed = event[e].failed
        BY <2>4 DEF Goes
     <3>2. Sweeping(e)
        BY <1>3, <2>4, <3>1 DEF Sweeping
     <3>3. event[e].inst \notin Live'
        BY <2>4, <3>1, MarkedIsOver
     <3>4. \A i \in Live' : Pending(e, i) => Pending(e, i)'
        BY <3>1, <3>3 DEF Pending
     <3> QED
        BY <1>s, <3>2, <3>4 DEF Ending
   <2>5. CASE event[e].pc = "confirm one" /\ Goes(e, "sweep")
     <3>1. event'[e].pc = "sweep" /\ event'[e].todo = event[e].todo /\ event'[e].failed = event[e].failed
        BY <2>5 DEF Goes
     <3>2. Sweeping(e)
        BY <1>3, <2>5, <3>1 DEF Sweeping
     <3>3. \A i : Pending(e, i) => Pending(e, i)'
        BY <2>5, <3>1 DEF Pending
     <3> QED
        BY <1>s, <3>2, <3>3 DEF Ending
   <2> QED
      BY <2>1, <2>2, <2>3, <2>4, <2>5 DEF Sweeps, Offboards
 <1> QED
    BY <1>s, <1>1, <1>2, <1>3

\* An offboarding that is recorded only now has no sweep behind it.
LEMMA RecordedNow ==
    ASSUME TypeOK, Stages, Records, NEW e \in Event, Acts(e), RecordsStatus(e), NEW f \in Event, Ending(f)
    PROVE  Ending(f)'
 <1>u. UNCHANGED <<about, processed>>
    BY EventRoutes DEF RecordsStatus
 <1>s. Births
    BY EventSettles, SettledBirths
 <1>n. tenant.at \in Nat /\ \A g \in Event : about[g].at \in Nat /\ about[g].at > 0
    BY TimesAre
 <1>t. tenant'.at = tenant.at \/ (tenant.at < about[e].at /\ tenant'.at = about[e].at)
    BY NewestIs DEF RecordsStatus
 <1>o. Others(e) /\ event[e].pc = "status" /\ (event'[e].pc \in {"list", "returned"} \/ (event'[e].pc = "plan" /\ ~about[e].changed))
    BY WhereTo DEF RecordsStatus
 <1>1. CASE tenant.at < about[e].at /\ tenant'.at = about[e].at
   <2> SUFFICES ASSUME Offboards(f)' PROVE ~Sweeping(f)' /\ ~Swept(f)'
      BY DEF Ending
   <2>1. about[f].at = about[e].at /\ about[f].changed
      BY <1>1, <1>u DEF Offboards
   <2>2. ~(about[f].at <= tenant.at)
      BY <1>1, <1>n, <2>1
   <2>3. ~Recorded(f)
      BY <2>2 DEF Records, Ordered
   <2>4. CASE f = e
      BY <1>o, <1>u, <2>1, <2>3, <2>4 DEF Sweeping, Swept, Answered, Recorded
   <2>5. CASE f # e
      BY <1>o, <1>u, <2>3, <2>5 DEF Sweeping, Swept, Answered, Recorded, Past, Held, Others
   <2> QED
      BY <2>4, <2>5
 <1>2. CASE tenant'.at = tenant.at
   <2>1. CASE f # e
      BY <1>2, <1>o, <1>s, <1>u, <2>1, EndingKept DEF Others, Records
   <2>2. CASE f = e
     <3> SUFFICES ASSUME Offboards(e)' PROVE ~Sweeping(e)' /\ (Swept(e)' => Live' \subseteq late')
        BY <2>2 DEF Ending
     <3>1. Offboards(e)
        BY <1>2, <1>u DEF Offboards
     <3>2. ~Sweeping(e)' /\ (Swept(e)' => e \in processed)
        BY <1>o, <1>u, <3>1 DEF Sweeping, Swept, Answered, Offboards
     <3>3. e \in processed => Live \subseteq late
        BY <2>2, <3>1 DEF Ending, Swept, Answered
     <3>4. Live' \subseteq Live /\ late' = late
        BY EventSettles, SettledBirths
     <3> QED
        BY <3>2, <3>3, <3>4
   <2> QED
      BY <2>1, <2>2
 <1> QED
    BY <1>t, <1>1, <1>2

\* A step of the offboarding itself.
LEMMA EndingStep ==
    ASSUME TypeOK, Stages, Records, NEW e \in Event, Acts(e), Ending(e), ~RecordsStatus(e)
    PROVE  Ending(e)' /\ tenant'.at = tenant.at
 <1>r. Route(e) /\ UNCHANGED about
    BY EventRoutes
 <1>u. UNCHANGED tenant /\ (e \in processed' => e \in processed \/ event[e].pc = "mark")
    BY <1>r DEF Route, Receives, Skips, TakesLock, RecordsReturn, Sweeps, EndsSweep, Plans, Commits,
       Answers, StartsOver
 <1>s. Live' \subseteq Live /\ late' = late
    BY EventSettles, SettledBirths
 <1>1. CASE Sweeps(e)
    BY <1>1, <1>u, SweepKeeps
 <1>2. ASSUME ~Sweeps(e), Offboards(e) PROVE ~Sweeping(e)'
   <2>1. CASE Receives(e)
      BY <2>1, WhereTo DEF Receives, Sweeping
   <2>2. CASE Skips(e) \/ TakesLock(e) \/ RecordsReturn(e) \/ EndsSweep(e) \/ Commits(e) \/ Answers(e)
     <3>1. event'[e].pc \in {"mark", "status", "list", "plan", "done"}
        BY <2>2, WhereTo DEF Skips, TakesLock, RecordsReturn, EndsSweep, Commits, Answers
     <3> QED
        BY <3>1 DEF Sweeping
   <2>3. CASE Plans(e)
     <3>1. event'[e].pc = IF about[e].kind = "state" THEN "commit" ELSE "mark"
        BY <2>3, WhereTo DEF Plans
     <3> QED
        BY <3>1 DEF Sweeping
   <2>4. CASE StartsOver(e)
      BY <2>4, WhereTo DEF StartsOver, Sweeping
   <2> QED
      BY <1>r, <1>2, <2>1, <2>2, <2>3, <2>4 DEF Route
 <1>3. ASSUME ~Sweeps(e), Offboards(e), Swept(e)' PROVE Swept(e) \/ (Sweeping(e) /\ \A i : ~Pending(e, i))
   <2>1. CASE Receives(e)
      BY <1>3, <1>u, <2>1, WhereTo DEF Receives, Swept, Answered
   <2>2. CASE Skips(e)
      BY <1>3, <2>2 DEF Skips, Offboards
   <2>3. CASE TakesLock(e) \/ RecordsReturn(e)
     <3>1. event'[e].pc \in {"status", "list"} /\ event[e].pc # "mark"
        BY <2>3, WhereTo DEF TakesLock, RecordsReturn
     <3> QED
        BY <1>3, <1>u, <3>1 DEF Swept, Answered
   <2>4. CASE EndsSweep(e)
      BY <2>4 DEF EndsSweep, Sweeping, Pending
   <2>5. CASE Plans(e) \/ Commits(e) \/ Answers(e)
      BY <2>5 DEF Plans, Commits, Answers, Swept, Answered
   <2>6. CASE StartsOver(e)
      BY <1>3, <1>u, <2>6, WhereTo DEF StartsOver, Swept, Answered
   <2> QED
      BY <1>r, <1>3, <2>1, <2>2, <2>3, <2>4, <2>5, <2>6 DEF Route
 <1>4. ASSUME ~Sweeps(e) PROVE Ending(e)'
   <2> SUFFICES ASSUME Offboards(e) PROVE ~Sweeping(e)' /\ (Swept(e)' => Live' \subseteq late')
      BY <1>r, <1>u DEF Ending, Offboards
   <2> QED
      BY <1>s, <1>2, <1>3, <1>4 DEF Ending
 <1> QED
    BY <1>u, <1>1, <1>4

\* No step of an event leaves an instance alive behind an offboarding.
LEMMA OffboardingStep ==
    ASSUME TypeOK, Stages, Records, NEW e \in Event, Acts(e), Terminating, OffLedger
    PROVE  Terminating' /\ OffLedger'
 <1>r. Route(e) /\ UNCHANGED about /\ OnRecord(e)
    BY EventRoutes, RouteRecords
 <1>s. Births /\ Live' \subseteq Live /\ late' = late
    BY EventSettles, SettledBirths
 <1>o. Others(e) /\ (\A f \in Event : f # e /\ f \in processed' => f \in processed)
    BY <1>r DEF OnRecord
 <1>k. TenantIs /\ LedgerIs /\ Ordered
    BY DEF Records
 <1>n. /\ tenant.at \in Nat /\ ledger.off \in Nat
       /\ \A f \in Event : about[f].at \in Nat /\ about[f].at > 0
    BY TimesAre
 <1>1. CASE RecordsStatus(e)
   <2>1. Terminating'
      BY <1>1, RecordedNow DEF Terminating
   <2>2. UNCHANGED ledger /\ (tenant'.at = tenant.at \/ (tenant.at < about[e].at /\ tenant'.at = about[e].at))
      BY <1>1, NewestIs DEF RecordsStatus
   <2>3. ledger.off = tenant'.at => ledger.off = tenant.at
      BY <1>k, <1>n, <2>2 DEF Ordered
   <2> QED
      BY <1>s, <2>1, <2>2, <2>3 DEF OffLedger
 <1>2. CASE ~RecordsStatus(e)
   <2>1. Ending(e)' /\ tenant'.at = tenant.at
      BY <1>2, EndingStep DEF Terminating
   <2>2. ASSUME NEW f \in Event, f # e PROVE Ending(f)'
      BY <1>k, <1>o, <1>r, <1>s, <2>1, <2>2, EndingKept DEF Terminating, Others
   <2>3. Terminating'
      BY <2>1, <2>2 DEF Terminating
   <2>4. OffLedger'
     <3>1. CASE ledger'.off = ledger.off
        BY <1>s, <2>1, <3>1 DEF OffLedger
     <3>2. CASE ledger'.off # ledger.off
       <4>1. /\ about[e].status = "offboarded" /\ event[e].pc = "sweep" /\ event'[e].pc = "plan"
             /\ ledger' = LedgerOffboarded(about[e].at)
         <5>1. event[e].pc = "returned" => about[e].status # "offboarded"
            BY DEF Stages
         <5> QED
            BY <1>r, <1>k, <3>2, <5>1, LedgerRecords DEF OnRecord
       <4>2. ledger'.off = about[e].at
          BY <1>k, <1>r, <3>2, <4>1, LedgerRecords
       <4>3. event'[e].pc = "plan" /\ about[e].changed
          BY <4>1 DEF Stages
       <4>4. Swept(e)'
          BY <4>3 DEF Swept
       <4> QED
          BY <1>r, <2>1, <4>1, <4>2, <4>3, <4>4 DEF OffLedger, Ending, Offboards
     <3> QED
        BY <3>1, <3>2
   <2> QED
      BY <2>3, <2>4
 <1> QED
    BY <1>1, <1>2

(***************************************************************************)
(* Suspending and returning.                                               *)
(***************************************************************************)
\* The only execution of the instance is paused as the event says; one that is to be
\* paused has been there already.
Heeded(e, i) ==
    /\ \A r \in Open : runs[r].inst = i /\ (\A q \in RunsOf(i) : q = r) => (runs[r].paused <=> about[e].status \in Pausing)
    /\ about[e].status \in Pausing => RunsOf(i) # {}

\* Executions keep their instance and are not opened or paused; a new one is not paused.
RunsMove ==
    /\ DOMAIN runs \subseteq DOMAIN runs'
    /\ \A r \in DOMAIN runs : /\ runs'[r].inst = runs[r].inst /\ (runs'[r].open => runs[r].open)
                              /\ runs'[r].paused = runs[r].paused
    /\ \A r \in DOMAIN runs' \ DOMAIN runs : ~runs'[r].paused

\* An execution that nobody signals stays as it is.
LEMMA HeededStays ==
    ASSUME RunsMove, UNCHANGED about, NEW e \in Event, NEW i, Heeded(e, i)
    PROVE  Heeded(e, i)'
 <1>1. RunsOf(i) \subseteq RunsOf(i)'
    BY DEF RunsMove, RunsOf
 <1>2. ASSUME NEW r \in Open', runs'[r].inst = i, \A q \in RunsOf(i)' : q = r
       PROVE  runs'[r].paused <=> about[e].status \in Pausing
   <2>1. CASE r \in DOMAIN runs
     <3>1. r \in Open /\ runs[r].inst = i /\ (\A q \in RunsOf(i) : q = r) /\ runs'[r].paused = runs[r].paused
        BY <1>1, <1>2, <2>1 DEF RunsMove, Open
     <3>2. runs[r].paused <=> about[e].status \in Pausing
        BY <3>1 DEF Heeded
     <3> QED
        BY <3>1, <3>2
   <2>2. CASE r \notin DOMAIN runs
     <3>1. RunsOf(i) = {}
        BY <1>1, <1>2, <2>2 DEF RunsOf
     <3>2. about[e].status \notin Pausing
        BY <3>1 DEF Heeded
     <3>3. ~runs'[r].paused
        BY <2>2 DEF RunsMove, Open
     <3> QED
        BY <3>2, <3>3
   <2> QED
      BY <2>1, <2>2
 <1>3. about[e].status \in Pausing => RunsOf(i)' # {}
    BY <1>1 DEF Heeded
 <1> QED
    BY <1>2, <1>3 DEF Heeded

\* What a step leaves as the event wants it.
Heeds(e) ==
    \A i \in Live' : i \notin late' =>
        \/ i \in Live /\ i \notin late /\ (Heeded(e, i) => Heeded(e, i)')
        \/ Heeded(e, i)'

\* An instance started while the event is on record: it is not paused, or it is late.
LEMMA StartHeeds ==
    ASSUME TypeOK, TypeOK', KeysAgree, TenantIs, [StartNext]_startvars, UNCHANGED <<eventvars, purge>>,
           NEW e \in Event, tenant.at = about[e].at
    PROVE  Heeds(e)
 <1>1. Kept /\ Rising /\ PausesStay
    BY StartLeaves
 <1>2. RowsAppear
    BY StepEffects DEF TypeOK
 <1>3. RunsMove /\ UNCHANGED about
    BY <1>1 DEF Kept, PausesStay, RunsMove, eventvars
 <1>4. Births
    BY <1>1, StartBirths
 <1> SUFFICES ASSUME NEW i \in Live', i \notin late'
              PROVE  \/ i \in Live /\ i \notin late /\ (Heeded(e, i) => Heeded(e, i)')
                     \/ Heeded(e, i)'
    BY DEF Heeds
 <1>5. CASE i \in Live
    BY <1>3, <1>4, <1>5, HeededStays DEF Births
 <1>6. CASE i \notin Live
   <2>1. row[i].status = "none" /\ tenant.status \notin Refused /\ i \in Inst /\ row'[i].status # "none"
      BY <1>4, <1>6 DEF Births, Live, NonTerminal
   <2>2. UNCHANGED runs
      BY <1>2, <2>1 DEF RowsAppear
   <2>3. RunsOf(i)' = {}
     <3>1. \A r \in DOMAIN runs : runs[r].inst # i
        BY <2>1 DEF KeysAgree, ExecutionsNamed, Named
     <3> QED
        BY <2>2, <3>1 DEF RunsOf
   <2>4. about[e].status \notin Pausing
      BY <2>1, StatusIs DEF Refused, Pausing
   <2>5. \A r \in Open' : runs'[r].inst # i
      BY <2>3 DEF RunsOf, Open
   <2> QED
      BY <1>3, <2>3, <2>4, <2>5 DEF Heeded
 <1> QED
    BY <1>5, <1>6

\* A step that opens no execution and signals none.
LEMMA SettledHeeds ==
    ASSUME Settles, \A r \in DOMAIN runs : runs'[r].paused = runs[r].paused, UNCHANGED about, NEW e \in Event
    PROVE  Heeds(e)
 <1>1. RunsMove
    BY DEF Settles, RunsSettle, RunsMove
 <1>2. Live' \subseteq Live /\ late' = late
    BY SettledBirths
 <1> QED
    BY <1>1, <1>2, HeededStays DEF Heeds

\* Only a signal changes a pause.
LEMMA PausesKept ==
    ASSUME TypeOK, NEW g \in Event, Acts(g), ~SignalOne(g)
    PROVE  (\A r \in DOMAIN runs : runs'[r].paused = runs[r].paused) /\ UNCHANGED unreached
 <1>t. RunsOK
    BY DEF TypeOK, StartTypeOK
 <1>1. UNCHANGED runs \/ \E i, r : runs' = TerminateWorkflow(i, r)
   <2>1. CASE TerminateOne(g)
      BY <2>1 DEF TerminateOne
   <2>2. CASE ConfirmOne(g)
      BY <2>2 DEF ConfirmOne
   <2> QED
      BY <2>1, <2>2 DEF Acts, Deliver, HandleTenantStateChanged, HandleTenantMembershipsPurged, Received,
         Lock, RecordStatus,
         RecordReturned, ListInstances, MarkOne, EndSweep, ApplyPlanChange, Commit, MarkProcessed,
         Redeliver, EventDies, startvars
 <1>2. \A r \in DOMAIN runs : runs'[r].paused = runs[r].paused
    BY <1>t, <1>1, ClosedRuns
 <1>3. UNCHANGED unreached
    BY DEF Acts, Deliver, HandleTenantStateChanged, HandleTenantMembershipsPurged, Received, Lock,
       RecordStatus,
       RecordReturned, ListInstances, TerminateOne, MarkOne, ConfirmOne, EndSweep, ApplyPlanChange, Commit, MarkProcessed,
       Redeliver, EventDies
 <1> QED
    BY <1>2, <1>3

\* A step of an event that does not signal.
LEMMA EventHeeds ==
    ASSUME TypeOK, Stages, NEW g \in Event, Acts(g), ~SignalOne(g), NEW e \in Event
    PROVE  Heeds(e) /\ UNCHANGED unreached
    BY PausesKept, EventSettles, EventRoutes, SettledHeeds

\* A signal: the instance heeds it or was not reached, the others are left alone.
LEMMA SignalHeeds ==
    ASSUME TypeOK, Stages, NEW e \in Event, SignalOne(e), NEW x \in event[e].todo,
           Told(x[1], about[e].status \in Pausing), RunsSettle,
           unreached' = IF {r \in Open : runs[r].inst = x[1]} = {} THEN unreached \cup {x[1]} ELSE unreached
    PROVE  /\ \A i \in Live' : i # x[1] /\ Heeded(e, i) => Heeded(e, i)'
           /\ x[1] \in unreached' \/ Heeded(e, x[1])'
 <1>u. UNCHANGED about
    BY DEF SignalOne
 <1> DEFINE b == about[e].status \in Pausing
 <1>b. b \in BOOLEAN
    OBVIOUS
 <1>r. \A i : RunsOf(i)' = RunsOf(i)
    BY DEF RunsSettle, RunsOf
 <1>o. Open' = Open
    BY DEF Told, Open
 <1>1. ASSUME NEW i, i # x[1], Heeded(e, i) PROVE Heeded(e, i)'
   <2>1. \A r \in Open : runs[r].inst = i => runs'[r].paused = runs[r].paused
      BY <1>1 DEF Told, Open
   <2>2. \A r \in Open : runs'[r].inst = runs[r].inst
      BY DEF Told, Open
   <2>3. \A r \in Open : runs[r].inst = i /\ (\A q \in RunsOf(i) : q = r) => (runs[r].paused <=> about[e].status \in Pausing)
      BY <1>1 DEF Heeded
   <2>4. about[e].status \in Pausing => RunsOf(i) # {}
      BY <1>1 DEF Heeded
   <2> QED
      BY <1>r, <1>o, <1>u, <2>1, <2>2, <2>3, <2>4 DEF Heeded
 <1>2. CASE {r \in Open : runs[r].inst = x[1]} = {}
    BY <1>1, <1>2
 <1>3. CASE {r \in Open : runs[r].inst = x[1]} # {}
   <2>1. \A r \in Open : runs[r].inst = x[1] => runs'[r].paused = b
      BY DEF Told, Open
   <2>2. \A r \in Open : runs'[r].inst = runs[r].inst
      BY DEF Told, Open
   <2>3. RunsOf(x[1]) # {}
      BY <1>3 DEF RunsOf, Open
   <2>4. Heeded(e, x[1])'
      BY <1>r, <1>o, <1>u, <2>1, <2>2, <2>3 DEF Heeded
   <2> QED
      BY <1>1, <2>4
 <1> QED
    BY <1>2, <1>3

\* No event is newer; and it changed the status, to other than offboarded.
Newest(e) == \A f \in Event : about[f].at <= about[e].at
Speaks(e) == Newest(e) /\ about[e].changed /\ about[e].status # "offboarded"

\* Every live instance a sweep could reach heeds the event; or it is on the list.
InForce(e)   == \A i \in Live : i \in late \/ i \in unreached \/ Heeded(e, i)
Signalled(e) == \A i \in Live : i \in late \/ i \in unreached \/ Heeded(e, i) \/ \E x \in event[e].todo : x[1] = i

\* The newest change, when it is no offboarding: its return is on the ledger before
\* the sweep, it is in force after the sweep, and the guard says so.
Applying(e) ==
    Speaks(e) =>
      /\ event[e].pc \in {"list", "sweep", "plan", "commit"} => ledger.ret = about[e].at
      /\ event[e].pc = "sweep" /\ ~event[e].failed => Signalled(e)
      /\ event[e].pc \in {"plan", "commit"} => InForce(e)
      /\ guard >= about[e].at => ledger.ret = about[e].at /\ InForce(e)
      /\ ~uncommitted /\ Answered(e) => guard >= about[e].at
Signalling == \A e \in Event : Applying(e)

\* What heeds the event does so after a step.
LEMMA InForceKept ==
    ASSUME NEW e \in Event, Heeds(e), unreached \subseteq unreached'
    PROVE  /\ InForce(e) => InForce(e)'
           /\ Signalled(e) /\ event'[e].todo = event[e].todo => Signalled(e)'
    BY DEF Heeds, InForce, Signalled

\* The newest change is the one on record once it got that far.
LEMMA NewestOnRecord ==
    ASSUME TypeOK, Records, NEW e \in Event, Newest(e), Recorded(e) \/ guard >= about[e].at
    PROVE  tenant.at = about[e].at
 <1>n. /\ tenant.at \in Nat /\ guard \in Nat
       /\ \A f \in Event : about[f].at \in Nat /\ about[f].at > 0
    BY TimesAre
 <1>1. about[e].at <= tenant.at
    BY <1>n DEF Records, Ordered
 <1>2. tenant.at = 0 \/ \E f \in Event : tenant.at = about[f].at
    BY DEF Records, TenantIs
 <1> QED
    BY <1>n, <1>1, <1>2 DEF Newest

\* A step that leaves the events alone.
LEMMA ApplyingQuiet ==
    ASSUME TypeOK, TypeOK', Records, NEW e \in Event, Applying(e), tenant.at = about[e].at => Heeds(e),
           UNCHANGED <<about, event, processed, uncommitted, unreached>>, ledger'.ret = ledger.ret,
           guard' = guard \/ (guard' = 0 /\ ledger.ret = 0)
    PROVE  Applying(e)'
 <1>n. guard \in Nat /\ about[e].at \in Nat /\ about[e].at > 0
    BY TimesAre
 <1> SUFFICES ASSUME Speaks(e)
              PROVE  /\ event[e].pc \in {"list", "sweep", "plan", "commit"} => ledger'.ret = about[e].at
                     /\ event[e].pc = "sweep" /\ ~event[e].failed => Signalled(e)'
                     /\ event[e].pc \in {"plan", "commit"} => InForce(e)'
                     /\ guard' >= about[e].at => ledger'.ret = about[e].at /\ InForce(e)'
                     /\ ~uncommitted /\ Answered(e) => guard' >= about[e].at
    BY DEF Applying, Speaks, Newest, Answered
 <1>h. Recorded(e) \/ guard >= about[e].at => Heeds(e)
    BY NewestOnRecord DEF Speaks
 <1>1. event[e].pc \in {"list", "sweep", "plan", "commit"} => ledger'.ret = about[e].at
    BY DEF Applying
 <1>2. event[e].pc \in {"sweep", "plan", "commit"} => Heeds(e)
    BY <1>h DEF Recorded, Past, Held
 <1>3. event[e].pc = "sweep" /\ ~event[e].failed => Signalled(e)'
    BY <1>2, InForceKept DEF Applying
 <1>4. event[e].pc \in {"plan", "commit"} => InForce(e)'
    BY <1>2, InForceKept DEF Applying
 <1>5. guard >= about[e].at => guard' = guard
    BY <1>n DEF Applying
 <1>6. guard' >= about[e].at => guard >= about[e].at
    BY <1>n
 <1>7. guard >= about[e].at => ledger'.ret = about[e].at /\ InForce(e)'
    BY <1>h, InForceKept DEF Applying
 <1>8. ~uncommitted /\ Answered(e) => guard' >= about[e].at
    BY <1>5 DEF Applying
 <1> QED
    BY <1>1, <1>3, <1>4, <1>6, <1>7, <1>8

\* The return of the newest change stays on the ledger.
LEMMA ReturnStays ==
    ASSUME TypeOK, Records, NEW e \in Event, Newest(e), ledger.ret = about[e].at, NEW g \in Event, OnRecord(g)
    PROVE  ledger'.ret = ledger.ret
 <1>n. /\ ledger.ret \in Nat /\ ledger.off \in Nat /\ ledger.version \in Nat
       /\ \A f \in Event : about[f].at \in Nat /\ about[f].at > 0
    BY TimesAre
 <1>1. about[g].at <= ledger.ret /\ ledger.ret # 0
    BY <1>n DEF Newest
 <1>2. ~(ledger.ret < about[g].at)
    BY <1>n, <1>1
 <1>3. ledger.version # 0
    BY <1>1 DEF Records, LedgerIs
 <1>4. LedgerReturned(about[g].at) = ledger /\ LedgerOffboarded(about[g].at) = ledger
    BY <1>2, <1>3 DEF LedgerReturned, LedgerOffboarded
 <1> QED
    BY <1>4 DEF OnRecord

\* Another event that signals is older than the guard allows, or has not the lock.
LEMMA NobodySignals ==
    ASSUME TypeOK, Stages, Records, NEW e \in Event, Speaks(e), NEW g \in Event, g # e, SignalOne(g),
           event[e].pc \in Held \/ guard >= about[e].at
    PROVE  FALSE
 <1>n. guard \in Nat /\ \A f \in Event : about[f].at \in Nat /\ about[f].at > 0
    BY TimesAre
 <1>1. about[g].status # "offboarded" /\ event[g].pc \in Held
    BY DEF SignalOne, Held
 <1>2. about[g].kind = "state" /\ about[e].kind = "state"
    BY <1>1, ContentIs DEF Content, Speaks
 <1>3. lock = g
    BY <1>1, <1>2 DEF TypeOK, LockOK
 <1>4. event[e].pc \notin Held
    BY <1>2, <1>3 DEF TypeOK, LockOK
 <1>5. about[g].at > guard
    BY <1>1 DEF Records, Fresh
 <1>6. about[g].at <= about[e].at
    BY DEF Speaks, Newest
 <1> QED
    BY <1>n, <1>4, <1>5, <1>6

\* The commit of an event as new as the newest puts the newest in force.
LEMMA SameTime ==
    ASSUME TypeOK, NEW e \in Event, Speaks(e), NEW g \in Event, about[g].at = about[e].at
    PROVE  Speaks(g) /\ (InForce(g) => InForce(e))
 <1>1. about[g].status = about[e].status /\ about[g].changed = about[e].changed
    BY ContentIs
 <1>2. \A i : Heeded(g, i) => Heeded(e, i)
    BY <1>1 DEF Heeded
 <1> QED
    BY <1>1, <1>2 DEF Speaks, Newest, InForce

\* A step of another event.
LEMMA ApplyingOther ==
    ASSUME TypeOK, TypeOK', Stages, Records, Signalling, NEW e \in Event, NEW g \in Event, g # e, Acts(g)
    PROVE  Applying(e)'
 <1>r. OnRecord(g) /\ Route(g) /\ UNCHANGED about
    BY EventRoutes, RouteRecords
 <1>n. guard \in Nat /\ guard' \in Nat /\ about[g].at \in Nat /\ about[e].at \in Nat /\ about[e].at > 0
    BY TimesAre DEF TypeOK, TenantOK
 <1>o. event'[e] = event[e] /\ (e \in processed' => e \in processed)
    BY <1>r DEF OnRecord, Others
 <1>c. uncommitted => uncommitted'
    BY <1>r DEF Route, Receives, Skips, TakesLock, RecordsStatus, RecordsReturn, Sweeps, EndsSweep, Plans,
       Commits, Answers, StartsOver
 <1>a. Applying(e)
    BY DEF Signalling
 <1> SUFFICES ASSUME Speaks(e)
              PROVE  /\ event[e].pc \in {"list", "sweep", "plan", "commit"} => ledger'.ret = about[e].at
                     /\ event[e].pc = "sweep" /\ ~event[e].failed => Signalled(e)'
                     /\ event[e].pc \in {"plan", "commit"} => InForce(e)'
                     /\ guard' >= about[e].at => ledger'.ret = about[e].at /\ InForce(e)'
                     /\ ~uncommitted' /\ Answered(e)' => guard' >= about[e].at
    BY <1>r, <1>o DEF Applying, Speaks, Newest
 <1>h. event[e].pc \in Held \/ guard >= about[e].at => Heeds(e) /\ UNCHANGED unreached
    BY NobodySignals, EventHeeds
 <1>t. ledger.ret = about[e].at => ledger'.ret = about[e].at
    BY <1>r, ReturnStays DEF Speaks
 <1>1. event[e].pc \in {"list", "sweep", "plan", "commit"} => ledger'.ret = about[e].at
    BY <1>a, <1>t DEF Applying
 <1>2. event[e].pc \in {"sweep", "plan", "commit"} => Heeds(e) /\ UNCHANGED unreached
    BY <1>h DEF Held
 <1>3. event[e].pc = "sweep" /\ ~event[e].failed => Signalled(e)'
    BY <1>a, <1>o, <1>2, InForceKept DEF Applying
 <1>4. event[e].pc \in {"plan", "commit"} => InForce(e)'
    BY <1>a, <1>2, InForceKept DEF Applying
 <1>5. guard' = guard \/ (event[g].pc = "commit" /\ guard' = about[g].at /\ about[g].at > guard)
    BY <1>r DEF OnRecord, ShouldApply
 <1>6. ASSUME guard' >= about[e].at PROVE ledger'.ret = about[e].at /\ InForce(e)'
   <2>1. CASE guard >= about[e].at
      BY <1>a, <1>h, <1>t, <2>1, InForceKept DEF Applying
   <2>2. CASE ~(guard >= about[e].at)
     <3>1. event[g].pc = "commit" /\ about[g].at >= about[e].at
        BY <1>5, <1>6, <2>2
     <3>2. about[g].at = about[e].at
        BY <1>n, <3>1 DEF Speaks, Newest
     <3>3. Speaks(g) /\ (InForce(g) => InForce(e))
        BY <3>2, SameTime
     <3>4. ledger.ret = about[g].at /\ InForce(g)
        BY <3>1, <3>3 DEF Signalling, Applying
     <3>5. ~SignalOne(g)
        BY <3>1 DEF SignalOne
     <3> QED
        BY <1>t, <3>2, <3>3, <3>4, <3>5, EventHeeds, InForceKept
   <2> QED
      BY <2>1, <2>2
 <1>7. ~uncommitted' /\ Answered(e)' => guard' >= about[e].at
   <2>1. Answered(e)' => Answered(e)
      BY <1>o DEF Answered
   <2>2. ~uncommitted /\ Answered(e) => guard >= about[e].at
      BY <1>a DEF Applying
   <2> QED
      BY <1>c, <1>n, <1>5, <2>1, <2>2
 <1> QED
    BY <1>1, <1>3, <1>4, <1>6, <1>7

\* The return of the newest change gets on the ledger.
LEMMA ReturnIsRecorded ==
    ASSUME TypeOK, Records, NEW e \in Event, Speaks(e), ledger' = LedgerReturned(about[e].at)
    PROVE  ledger'.ret = about[e].at
 <1>n. /\ ledger.ret \in Nat /\ ledger.off \in Nat
       /\ \A f \in Event : about[f].at \in Nat /\ about[f].at > 0
    BY TimesAre
 <1>t. ledger \in LedgerType
    BY DEF TypeOK, TenantOK, LedgerType
 <1>1. ledger.off < about[e].at
   <2>1. CASE ledger.off = 0
      BY <1>n, <2>1
   <2>2. CASE ledger.off # 0
     <3>1. PICK f \in Event : about[f].at = ledger.off /\ about[f].status = "offboarded"
        BY <2>2 DEF Records, LedgerIs
     <3>2. about[f].at <= about[e].at
        BY DEF Speaks, Newest
     <3>3. about[f].at # about[e].at
        BY <3>1, ContentIs DEF Speaks
     <3> QED
        BY <1>n, <3>1, <3>2, <3>3
   <2> QED
      BY <2>1, <2>2
 <1>2. ledger.ret <= about[e].at
    BY <1>n DEF Records, LedgerIs, Speaks, Newest
 <1>3. CASE ledger.ret = about[e].at
    BY <1>n, <1>3 DEF LedgerReturned
 <1>4. CASE ledger.ret # about[e].at
   <2>1. ledger' = [ledger EXCEPT !.ret = about[e].at, !.version = @ + 1]
      BY <1>n, <1>1, <1>2, <1>4 DEF LedgerReturned
   <2> QED
      BY <1>t, <2>1 DEF LedgerType
 <1> QED
    BY <1>3, <1>4

\* The sweep of the newest change.
LEMMA OwnSweep ==
    ASSUME TypeOK, Stages, NEW e \in Event, Speaks(e), Acts(e), Sweeps(e), Applying(e)
    PROVE  event'[e].pc = "sweep" /\ (~event'[e].failed => Signalled(e)')
 <1>t. EventsOK
    BY DEF TypeOK
 <1>s. event[e].pc \notin {"mark one", "confirm one"}
    BY DEF Stages, Speaks
 <1>v. Live' \subseteq Live /\ late' = late
    BY EventSettles, SettledBirths
 <1>1. CASE event[e].pc = "list" /\ Lists(e)
   <2>1. event'[e].pc = "sweep" /\ event'[e].todo = {<<i, row[i].run>> : i \in Live}
      BY <1>1 DEF Lists
   <2>2. ASSUME NEW i \in Live PROVE \E x \in event'[e].todo : x[1] = i
     <3>1. <<i, row[i].run>> \in event'[e].todo /\ <<i, row[i].run>>[1] = i
        BY <2>1
     <3> QED
        BY <3>1
   <2>3. Signalled(e)'
      BY <1>v, <2>2 DEF Signalled
   <2> QED
      BY <2>1, <2>3
 <1>2. CASE Fails(e)
   <2>1. event'[e].pc = "sweep" /\ event'[e].failed
      BY <1>2 DEF Fails
   <2> QED
      BY <2>1
 <1>3. CASE event[e].pc = "sweep" /\ ~Fails(e)
   <2>1. SignalOne(e)
     <3>1. event'[e].pc = "sweep" \/ (event'[e].pc = "mark one" /\ about[e].status = "offboarded")
        BY <1>s, <1>3, SweepGoes
     <3>2. event'[e].pc = "sweep"
        BY <3>1 DEF Speaks
     <3>3. ~Restarts(e)
       <4>1. Queued.pc = "queued"
          BY DEF Queued
       <4> QED
          BY <3>2, <4>1 DEF Restarts
     <3>4. ~(EndSweep(e) \/ EventDies(e))
       <4>1. ~EventAt(e, "plan")
          BY <1>t, <3>2, EventAtGoes DEF Goes
       <4> QED
          BY <1>t, <3>3, <4>1, QueuedRestarts DEF EndSweep, EventDies
     <3> QED
        BY <1>3, <3>4 DEF Acts, Deliver, HandleTenantStateChanged, HandleTenantMembershipsPurged,
           Received, Lock, RecordStatus,
           RecordReturned, ListInstances, TerminateOne, MarkOne, ConfirmOne, ApplyPlanChange, Commit, MarkProcessed, Redeliver, Speaks
   <2>2. PICK x \in event[e].todo :
           /\ event'[e].todo = event[e].todo \ {x}
           /\ \/ /\ Told(x[1], about[e].status \in Pausing) /\ RunsSettle
                 /\ unreached' = IF {r \in Open : runs[r].inst = x[1]} = {} THEN unreached \cup {x[1]} ELSE unreached
                 /\ event'[e].failed = event[e].failed
              \/ event'[e].failed
      BY <2>1, SignalTells
   <2>3. event'[e].pc = "sweep"
      BY <2>1, SignalTells
   <2>4. ASSUME ~event'[e].failed PROVE Signalled(e)'
     <3>1. /\ Told(x[1], about[e].status \in Pausing) /\ RunsSettle
           /\ unreached' = IF {r \in Open : runs[r].inst = x[1]} = {} THEN unreached \cup {x[1]} ELSE unreached
           /\ event'[e].failed = event[e].failed
        BY <2>2, <2>4
     <3>2. /\ \A i \in Live' : i # x[1] /\ Heeded(e, i) => Heeded(e, i)'
           /\ x[1] \in unreached' \/ Heeded(e, x[1])'
        BY <2>1, <3>1, SignalHeeds
     <3>3. Signalled(e)
        BY <1>3, <2>4, <3>1 DEF Applying
     <3>4. unreached \subseteq unreached'
        BY <3>1
     <3> SUFFICES ASSUME NEW i \in Live', i \notin late', i \notin unreached', ~Heeded(e, i)'
                  PROVE  \E y \in event'[e].todo : y[1] = i
        BY DEF Signalled
     <3>5. i # x[1]
        BY <3>2
     <3>6. ~Heeded(e, i)
        BY <3>2, <3>5
     <3>7. PICK y \in event[e].todo : y[1] = i
        BY <1>v, <3>3, <3>4, <3>6 DEF Signalled
     <3>8. y \in event'[e].todo
        BY <2>2, <3>5, <3>7
     <3> QED
        BY <3>7, <3>8
   <2> QED
      BY <2>3, <2>4
 <1> QED
    BY <1>s, <1>1, <1>2, <1>3 DEF Sweeps

\* A step of the newest change itself.
LEMMA ApplyingOwn ==
    ASSUME TypeOK, TypeOK', Stages, Records, Records', NEW e \in Event, Applying(e), Acts(e)
    PROVE  Applying(e)'
 <1>r. Route(e) /\ UNCHANGED about
    BY EventRoutes
 <1>n. guard \in Nat /\ guard' \in Nat /\ about[e].at \in Nat /\ about[e].at > 0
    BY TimesAre DEF TypeOK, TenantOK
 <1> DEFINE Goal == /\ event'[e].pc \in {"list", "sweep", "plan", "commit"} => ledger'.ret = about[e].at
                    /\ event'[e].pc = "sweep" /\ ~event'[e].failed => Signalled(e)'
                    /\ event'[e].pc \in {"plan", "commit"} => InForce(e)'
                    /\ guard' >= about[e].at => ledger'.ret = about[e].at /\ InForce(e)'
                    /\ ~uncommitted' /\ Answered(e)' => guard' >= about[e].at
 <1> SUFFICES ASSUME Speaks(e) PROVE Goal
    BY <1>r DEF Applying, Speaks, Newest
 <1>a. /\ event[e].pc \in {"list", "sweep", "plan", "commit"} => ledger.ret = about[e].at
       /\ event[e].pc = "sweep" /\ ~event[e].failed => Signalled(e)
       /\ event[e].pc \in {"plan", "commit"} => InForce(e)
       /\ guard >= about[e].at => ledger.ret = about[e].at /\ InForce(e)
       /\ ~uncommitted /\ Answered(e) => guard >= about[e].at
    BY DEF Applying
 <1>k. about[e].status # "offboarded" /\ about[e].changed /\ about[e].kind = "state"
    BY ContentIs DEF Content, Speaks
 <1>f. event[e].pc \in Held => ~(guard >= about[e].at)
    BY <1>k, <1>n DEF Records, Fresh
 <1>g. event'[e].pc \in Held => ~(guard' >= about[e].at)
    BY <1>k, <1>r, <1>n DEF Records, Fresh
 <1>p. e \in processed => Answered(e)
    BY DEF Answered
 <1>h. ~SignalOne(e) => Heeds(e) /\ UNCHANGED unreached
    BY EventHeeds
 <1>i. ~SignalOne(e) /\ InForce(e) => InForce(e)'
    BY <1>h, InForceKept
 <1>1. ASSUME Receives(e) PROVE Goal
   <2>1. /\ event'[e].pc \in {"done", "locking"} /\ (event'[e].pc = "done" => e \in processed) /\ event[e].pc = "queued"
         /\ UNCHANGED <<guard, ledger, processed, uncommitted>>
      BY <1>1, <1>k, WhereTo DEF Receives
   <2>2. ~SignalOne(e)
      BY <2>1 DEF SignalOne
   <2>3. Answered(e)' => Answered(e)
      BY <2>1, <1>p DEF Answered
   <2> QED
      BY <1>a, <1>i, <2>1, <2>2, <2>3
 <1>2. ASSUME Skips(e) PROVE Goal
   <2>1. event'[e].pc = "mark" /\ event[e].pc = "locking" /\ ~ShouldApply(e) /\ UNCHANGED <<guard, ledger, processed, uncommitted>>
      BY <1>2, WhereTo DEF Skips
   <2>2. ~SignalOne(e)
      BY <2>1 DEF SignalOne
   <2>3. guard >= about[e].at
      BY <1>n, <2>1 DEF ShouldApply
   <2> QED
      BY <1>a, <1>i, <2>1, <2>2, <2>3
 <1>3. ASSUME TakesLock(e) PROVE Goal
   <2>1. event'[e].pc = "status" /\ event[e].pc = "locking" /\ UNCHANGED <<guard, ledger, processed, uncommitted>>
      BY <1>3, WhereTo DEF TakesLock
   <2>2. Answered(e)' => Answered(e)
      BY <2>1 DEF Answered
   <2>3. ~(guard' >= about[e].at)
      BY <1>g, <2>1 DEF Held
   <2> QED
      BY <1>a, <2>1, <2>2, <2>3
 <1>4. ASSUME RecordsStatus(e) PROVE Goal
   <2>1. event'[e].pc = "returned" /\ event[e].pc = "status" /\ UNCHANGED <<guard, ledger, processed, uncommitted>>
      BY <1>4, <1>k, WhereTo DEF RecordsStatus
   <2>2. Answered(e)' => Answered(e)
      BY <2>1 DEF Answered
   <2>3. ~(guard' >= about[e].at)
      BY <1>g, <2>1 DEF Held
   <2> QED
      BY <1>a, <2>1, <2>2, <2>3
 <1>5. ASSUME RecordsReturn(e) PROVE Goal
   <2>1. /\ event'[e].pc = "list" /\ event[e].pc = "returned" /\ UNCHANGED <<guard, processed, uncommitted>>
         /\ ledger' = LedgerReturned(about[e].at)
      BY <1>5, WhereTo DEF RecordsReturn
   <2>2. Answered(e)' => Answered(e)
      BY <2>1 DEF Answered
   <2>3. ~(guard' >= about[e].at)
      BY <1>g, <2>1 DEF Held
   <2>4. ledger'.ret = about[e].at
      BY <2>1, ReturnIsRecorded
   <2> QED
      BY <1>a, <2>1, <2>2, <2>3, <2>4
 <1>6. ASSUME Sweeps(e) PROVE Goal
   <2>1. event'[e].pc = "sweep" /\ (~event'[e].failed => Signalled(e)')
      BY <1>6, OwnSweep
   <2>2. event[e].pc \in {"list", "sweep"} /\ UNCHANGED <<guard, ledger, processed, uncommitted>>
     <3>1. event[e].pc \notin {"mark one", "confirm one"}
        BY <1>k DEF Stages
     <3> QED
        BY <1>6, <3>1 DEF Sweeps
   <2>3. Answered(e)' => Answered(e)
      BY <2>1, <2>2 DEF Answered
   <2>4. ~(guard' >= about[e].at)
      BY <1>g, <2>1 DEF Held
   <2> QED
      BY <1>a, <2>1, <2>2, <2>3, <2>4
 <1>7. ASSUME EndsSweep(e) PROVE Goal
   <2>1. /\ event'[e].pc = "plan" /\ event[e].pc = "sweep" /\ event[e].todo = {} /\ ~event[e].failed
         /\ UNCHANGED <<guard, ledger, processed, uncommitted>>
      BY <1>7, <1>k, WhereTo DEF EndsSweep
   <2>2. InForce(e)
      BY <1>a, <2>1 DEF Signalled, InForce
   <2>3. ~SignalOne(e)
      BY <2>1 DEF SignalOne
   <2>4. Answered(e)' => Answered(e)
      BY <2>1 DEF Answered
   <2>5. ~(guard' >= about[e].at)
      BY <1>g, <2>1 DEF Held
   <2> QED
      BY <1>a, <1>i, <2>1, <2>2, <2>3, <2>4, <2>5
 <1>8. ASSUME Plans(e) PROVE Goal
   <2>1. event'[e].pc = "commit" /\ event[e].pc = "plan" /\ UNCHANGED <<guard, ledger, processed, uncommitted>>
      BY <1>8, <1>k, WhereTo DEF Plans
   <2>2. ~SignalOne(e)
      BY <2>1 DEF SignalOne
   <2>3. Answered(e)' => Answered(e)
      BY <2>1 DEF Answered
   <2>4. ~(guard' >= about[e].at)
      BY <1>g, <2>1 DEF Held
   <2> QED
      BY <1>a, <1>i, <2>1, <2>2, <2>3, <2>4
 <1>9. ASSUME Commits(e) PROVE Goal
   <2>1. /\ event'[e].pc = "mark" /\ event[e].pc = "commit" /\ UNCHANGED <<ledger, processed>>
         /\ guard' = (IF ShouldApply(e) THEN about[e].at ELSE guard) \/ uncommitted' = TRUE
      BY <1>9, WhereTo DEF Commits
   <2>2. ~SignalOne(e)
      BY <2>1 DEF SignalOne
   <2>3. ledger'.ret = about[e].at /\ InForce(e)'
      BY <1>a, <1>i, <2>1, <2>2
   <2>4. ~uncommitted' => guard' >= about[e].at
      BY <1>n, <2>1 DEF ShouldApply
   <2> QED
      BY <2>1, <2>3, <2>4
 <1>10. ASSUME Answers(e) PROVE Goal
   <2>1. event'[e].pc = "done" /\ event[e].pc = "mark" /\ UNCHANGED <<guard, ledger, uncommitted>>
      BY <1>10, WhereTo DEF Answers
   <2>2. ~SignalOne(e) /\ Answered(e)
      BY <2>1 DEF SignalOne, Answered
   <2> QED
      BY <1>a, <1>i, <2>1, <2>2
 <1>11. ASSUME StartsOver(e) PROVE Goal
   <2>1. event'[e].pc = "queued" /\ UNCHANGED <<guard, ledger, processed, uncommitted>>
      BY <1>11, WhereTo DEF StartsOver
   <2>2. ~SignalOne(e)
     <3>1. SignalOne(e) => event'[e].pc = "sweep"
        BY SignalTells
     <3> QED
        BY <2>1, <3>1
   <2>3. Answered(e)' => Answered(e)
      BY <2>1 DEF Answered
   <2> QED
      BY <1>a, <1>i, <2>1, <2>2, <2>3
 <1> QED
    BY <1>r, <1>1, <1>2, <1>3, <1>4, <1>5, <1>6, <1>7, <1>8, <1>9, <1>10, <1>11 DEF Route

(***************************************************************************)
(* The purge and the return.                                               *)
(***************************************************************************)
\* A return that was recorded, or could not be because of a newer event.
Brings(e)  == about[e].changed /\ about[e].status # "offboarded"
Noted(e)   == event[e].pc \in Past \ {"returned"} \/ Answered(e) \/ guard >= about[e].at
Spared(e)  == about[e].at <= ledger.off \/ about[e].at <= ledger.ret \/ Overtaken(e)
Returning  == \A e \in Event : Brings(e) /\ Noted(e) => Spared(e)
\* The ledger has a return only after the offboarding.
LedgerOrder == ledger.ret # 0 => ledger.off < ledger.ret

\* What a newer event is spared for, an older one is.
LEMMA SparedOlder ==
    ASSUME TypeOK, NEW e \in Event, NEW g \in Event, about[e].at <= about[g].at, Spared(g)
    PROVE  Spared(e)
 <1>n. /\ ledger.off \in Nat /\ ledger.ret \in Nat
       /\ \A f \in Event : about[f].at \in Nat
    BY TimesAre
 <1>1. CASE Overtaken(g)
   <2>1. PICK f \in Event : /\ about[g].at < about[f].at /\ about[f].at <= tenant.at
                            /\ about[f].status = "offboarded" \/ ~about[f].changed
      BY <1>1 DEF Overtaken
   <2>2. about[e].at < about[f].at
      BY <1>n, <2>1
   <2> QED
      BY <2>1, <2>2 DEF Spared, Overtaken
 <1>2. CASE about[g].at <= ledger.off \/ about[g].at <= ledger.ret
    BY <1>n, <1>2 DEF Spared
 <1> QED
    BY <1>1, <1>2 DEF Spared

\* A later record forgets neither.
LEMMA SparedStays ==
    ASSUME TypeOK, TypeOK', NEW g \in Event, OnRecord(g), UNCHANGED about, LedgerIs, LedgerOrder
    PROVE  LedgerOrder' /\ \A e \in Event : Spared(e) => Spared(e)'
 <1>n. /\ ledger.off \in Nat /\ ledger.ret \in Nat /\ ledger.version \in Nat /\ tenant.at \in Nat
       /\ \A f \in Event : about[f].at \in Nat /\ about[f].at > 0
    BY TimesAre
 <1>m. ledger'.off \in Nat /\ ledger'.ret \in Nat /\ tenant'.at \in Nat
    BY DEF TypeOK, TenantOK
 <1>t. ledger \in [off : Nat, ret : Nat, purged : BOOLEAN, version : Nat]
    BY DEF TypeOK, TenantOK
 <1>o. tenant.at <= tenant'.at
    BY <1>n, NewestIs DEF OnRecord
 <1>v. \A e \in Event : Overtaken(e) => Overtaken(e)'
   <2> SUFFICES ASSUME NEW e \in Event, Overtaken(e) PROVE Overtaken(e)'
      OBVIOUS
   <2>1. PICK f \in Event : /\ about[e].at < about[f].at /\ about[f].at <= tenant.at
                            /\ about[f].status = "offboarded" \/ ~about[f].changed
      BY DEF Overtaken
   <2>2. about[f].at <= tenant'.at
      BY <1>n, <1>m, <1>o, <2>1
   <2> QED
      BY <2>1, <2>2 DEF Overtaken
 <1>0. ledger' = ledger \/ ledger' = LedgerReturned(about[g].at) \/ ledger' = LedgerOffboarded(about[g].at)
    BY DEF OnRecord
 <1>1. CASE ledger' = ledger
    BY <1>1, <1>v DEF Spared, LedgerOrder
 <1>2. ASSUME ledger.off < about[g].at, ledger.ret < about[g].at,
              ledger' = [ledger EXCEPT !.ret = about[g].at, !.version = @ + 1]
       PROVE  LedgerOrder' /\ \A e \in Event : Spared(e) => Spared(e)'
   <2>1. ledger'.off = ledger.off /\ ledger'.ret = about[g].at
      BY <1>t, <1>2
   <2>2. \A e \in Event : about[e].at <= ledger.ret => about[e].at <= ledger'.ret
      BY <1>n, <1>2, <2>1
   <2> QED
      BY <1>2, <1>v, <2>1, <2>2 DEF Spared, LedgerOrder
 <1>3. ASSUME ledger.version = 0 \/ (ledger.ret # 0 /\ ledger.ret < about[g].at),
              ledger' = [off |-> about[g].at, ret |-> 0, purged |-> FALSE, version |-> ledger.version + 1]
       PROVE  LedgerOrder' /\ \A e \in Event : Spared(e) => Spared(e)'
   <2>1. ledger'.off = about[g].at /\ ledger'.ret = 0
      BY <1>3
   <2>2. ledger.off <= about[g].at /\ ledger.ret <= about[g].at
     <3>1. CASE ledger.version = 0
        BY <1>n, <3>1 DEF LedgerIs
     <3>2. CASE ledger.ret # 0 /\ ledger.ret < about[g].at
        BY <1>n, <3>2 DEF LedgerOrder
     <3> QED
        BY <1>3, <3>1, <3>2
   <2>3. \A e \in Event : about[e].at <= ledger.off \/ about[e].at <= ledger.ret => about[e].at <= ledger'.off
      BY <1>n, <2>1, <2>2
   <2> QED
      BY <1>v, <2>1, <2>3 DEF Spared, LedgerOrder
 <1> QED
    BY <1>0, <1>1, <1>2, <1>3 DEF LedgerReturned, LedgerOffboarded

\* A step of the event itself.
LEMMA NotedOwn ==
    ASSUME TypeOK, Stages, NEW e \in Event, Acts(e), Brings(e), Noted(e)'
    PROVE  Noted(e) \/ Spared(e)'
 <1>r. Route(e) /\ UNCHANGED about
    BY EventRoutes
 <1>n. guard \in Nat /\ about[e].at \in Nat /\ ledger.off \in Nat /\ ledger.ret \in Nat
    BY TimesAre
 <1>t. ledger \in [off : Nat, ret : Nat, purged : BOOLEAN, version : Nat]
    BY DEF TypeOK, TenantOK
 <1>s. about[e].changed /\ about[e].status # "offboarded" /\ about[e].kind # "memberships"
    BY ContentIs DEF Brings
 <1>a. ASSUME event'[e].pc \in {"queued", "locking", "status", "returned"}, UNCHANGED <<processed, guard>> PROVE Noted(e)
   <2>1. event'[e].pc \notin Past \ {"returned"} /\ event'[e].pc \notin {"mark", "done"}
      BY <1>a DEF Past, Held
   <2> QED
      BY <1>r, <1>a, <2>1 DEF Noted, Answered
 <1>b. ASSUME event[e].pc \in {"list", "sweep", "mark one", "confirm one", "plan", "commit", "mark"} PROVE Noted(e)
    BY <1>b DEF Noted, Answered, Past, Held
 <1>1. CASE Receives(e)
   <2>1. PICK p \in {"done", "locking", "status"} :
           Goes(e, p) /\ (p = "status" => about[e].kind = "memberships") /\ (p = "done" => e \in processed)
      BY <1>1 DEF Receives
   <2>2. CASE p = "done"
      BY <2>1, <2>2 DEF Noted, Answered
   <2>3. CASE p = "locking"
      BY <1>1, <1>a, <2>1, <2>3, WhereTo DEF Receives
   <2> QED
      BY <1>s, <2>1, <2>2, <2>3
 <1>2. CASE Skips(e)
    BY <1>n, <1>2 DEF Skips, ShouldApply, Noted
 <1>3. CASE TakesLock(e)
    BY <1>3, <1>a, WhereTo DEF TakesLock
 <1>4. CASE RecordsStatus(e)
   <2>1. Goes(e, "returned") /\ UNCHANGED <<processed, guard>>
      BY <1>4, <1>s DEF RecordsStatus
   <2> QED
      BY <1>a, <2>1, WhereTo
 <1>5. CASE RecordsReturn(e)
   <2>1. ledger' = LedgerReturned(about[e].at)
      BY <1>5 DEF RecordsReturn
   <2>2. CASE ledger.off < about[e].at /\ ledger.ret < about[e].at
     <3>1. ledger' = [ledger EXCEPT !.ret = about[e].at, !.version = @ + 1]
        BY <2>1, <2>2 DEF LedgerReturned
     <3>2. ledger'.ret = about[e].at
        BY <1>t, <3>1
     <3> QED
        BY <1>r, <1>n, <3>2 DEF Spared
   <2>3. CASE ~(ledger.off < about[e].at /\ ledger.ret < about[e].at)
     <3>1. ledger' = ledger
        BY <2>1, <2>3 DEF LedgerReturned
     <3>2. about[e].at <= ledger.off \/ about[e].at <= ledger.ret
        BY <1>n, <2>3
     <3> QED
        BY <1>r, <3>1, <3>2 DEF Spared
   <2> QED
      BY <2>2, <2>3
 <1>6. CASE Sweeps(e)
    BY <1>6, <1>b DEF Sweeps
 <1>7. CASE EndsSweep(e) \/ Plans(e) \/ Commits(e) \/ Answers(e)
    BY <1>7, <1>b DEF EndsSweep, Plans, Commits, Answers
 <1>8. CASE StartsOver(e)
    BY <1>8, <1>a, WhereTo DEF StartsOver
 <1> QED
    BY <1>r, <1>1, <1>2, <1>3, <1>4, <1>5, <1>6, <1>7, <1>8 DEF Route

\* A step of another event: it may raise the guard above this one.
LEMMA NotedOther ==
    ASSUME TypeOK, Stages, Records, Returning, NEW e \in Event, NEW g \in Event, g # e, Acts(g), Brings(e), Noted(e)'
    PROVE  Spared(e)
 <1>r. OnRecord(g) /\ UNCHANGED about
    BY EventRoutes, RouteRecords
 <1>n. guard \in Nat /\ \A f \in Event : about[f].at \in Nat
    BY TimesAre
 <1>1. event'[e] = event[e] /\ (e \in processed' => e \in processed)
    BY <1>r DEF OnRecord, Others
 <1>2. CASE Noted(e)
    BY <1>2 DEF Returning
 <1>3. CASE ~Noted(e)
   <2>1. guard' >= about[e].at /\ ~(guard >= about[e].at)
      BY <1>r, <1>1, <1>3 DEF Noted, Answered
   <2>2. event[g].pc = "commit" /\ guard' = about[g].at
      BY <1>r, <2>1 DEF OnRecord
   <2>3. about[e].at <= about[g].at
      BY <1>n, <2>1, <2>2
   <2>4. Noted(g) /\ Recorded(g)
      BY <2>2 DEF Noted, Recorded, Past, Held
   <2>5. CASE Brings(g)
      BY <2>3, <2>4, <2>5, SparedOlder DEF Returning
   <2>6. CASE ~Brings(g)
     <3>1. about[e].at # about[g].at
        BY <2>6, ContentIs DEF Brings
     <3>2. about[e].at < about[g].at
        BY <1>n, <2>3, <3>1
     <3>3. about[g].at <= tenant.at
        BY <2>4 DEF Records, Ordered
     <3>4. Overtaken(e)
        BY <2>6, <3>2, <3>3 DEF Overtaken, Brings
     <3> QED
        BY <3>4 DEF Spared
   <2> QED
      BY <2>5, <2>6
 <1> QED
    BY <1>2, <1>3

\* So a return that was handled is on the ledger, or was overtaken.
LEMMA ReturningStep ==
    ASSUME TypeOK, TypeOK', Stages, Records, Returning, LedgerOrder, NEW g \in Event, Acts(g)
    PROVE  Returning' /\ LedgerOrder'
 <1>r. OnRecord(g) /\ UNCHANGED about
    BY EventRoutes, RouteRecords
 <1>1. LedgerOrder' /\ \A e \in Event : Spared(e) => Spared(e)'
    BY <1>r, SparedStays DEF Records
 <1>2. ASSUME NEW e \in Event, Brings(e)', Noted(e)' PROVE Spared(e)'
   <2>1. Brings(e)
      BY <1>r, <1>2 DEF Brings
   <2>2. CASE e = g
      BY <1>1, <1>2, <2>1, <2>2, NotedOwn DEF Returning
   <2>3. CASE e # g
      BY <1>1, <1>2, <2>1, <2>3, NotedOther
   <2> QED
      BY <2>2, <2>3
 <1> QED
    BY <1>1, <1>2 DEF Returning

\* A step that leaves the events alone.
LEMMA ReturningQuiet ==
    ASSUME TypeOK, Returning, LedgerOrder, UNCHANGED <<about, event, processed, tenant>>,
           ledger'.off = ledger.off, ledger'.ret = ledger.ret, guard' = guard \/ guard' = 0
    PROVE  Returning' /\ LedgerOrder'
 <1>n. guard \in Nat /\ \A f \in Event : about[f].at \in Nat /\ about[f].at > 0
    BY TimesAre
 <1>1. \A e \in Event : guard' >= about[e].at => guard >= about[e].at
    BY <1>n
 <1>2. \A e \in Event : Noted(e)' => Noted(e)
    BY <1>1 DEF Noted, Answered
 <1>3. \A e \in Event : Spared(e) => Spared(e)'
    BY DEF Spared, Overtaken
 <1> QED
    BY <1>2, <1>3 DEF Returning, Brings, LedgerOrder

\* Only a batch deletes a row, and only while there is no return on the ledger.
LEMMA StartDeletesNone ==
    ASSUME StartTypeOK, KeysAgree, [StartNext]_startvars, NEW i \in Inst, row'[i].status = "purged"
    PROVE  row[i].status = "purged"
 <1>t. RowOK
    BY DEF StartTypeOK
 <1>a. ASSUME NEW j \in Inst, NEW st \in {"TERMINATED", "COMPLETED"}, row' = [row EXCEPT ![j].status = st]
       PROVE  row[i].status = "purged"
    BY <1>a, <1>t DEF RowOK, RowRecord
 <1>1. ASSUME NEW s \in Starter, Create(s) PROVE row[i].status = "purged"
   <2>1. CASE UNCHANGED row
      BY <2>1
   <2>2. ASSUME NEW j \in Inst, Inserted(j, s) PROVE row[i].status = "purged"
      BY <1>t, <2>2 DEF Inserted, RowOK
   <2> QED
      BY <1>1, <2>1, <2>2 DEF Create
 <1>2. ASSUME NEW s \in Starter, RecordRunID(s) PROVE row[i].status = "purged"
    BY <1>2, <1>t DEF RecordRunID, RowOK, RowRecord
 <1>3. ASSUME NEW c \in Closer, MarkTerminated(c) PROVE row[i].status = "purged"
    BY <1>3, <1>a DEF MarkTerminated, Live
 <1>4. ASSUME NEW r \in DOMAIN runs, Complete(r) PROVE row[i].status = "purged"
   <2>1. runs[r].inst \in Inst
      BY <1>4 DEF Complete, KeysAgree, ExecutionsNamed, Named
   <2> QED
      BY <1>4, <1>a, <2>1 DEF Complete
 <1>5. CASE UNCHANGED row
    BY <1>5
 <1> QED
    BY <1>1, <1>2, <1>3, <1>4, <1>5
       DEF StartNext, StartHandler, CloseStep, Gate, Refuse, ResolveTaskQueue, MatchingStart, Duplicate, StartDies, Retry, Launch, Launched,
           AfterWorkflowStarted, Terminate, CloseAgain, CloseDies, CloseExecution, ConfirmClosed, Return, startvars

\* A batch works while the ledger, which its transaction holds, is as it was listed.
Batches == \A p \in Purger : purge[p].pc \in InBatch => Current(p)

\* So it deletes nothing once a return is on the ledger.
LEMMA BatchesSpare ==
    ASSUME Batches, NEW p \in Purger, PurgeStep(p), ~UNCHANGED <<row, guard>>
    PROVE  ledger.ret = 0
 <1>1. purge[p].pc \in InBatch
    BY DEF PurgeStep, ListDue, PurgeBatch, PurgeInstances, PurgeQueues, PurgeGuards, CheckRows, MarkPurged, startvars, eventvars,
       InBatch
 <1> QED
    BY <1>1 DEF Batches, Current

\* No other step of the tenant deletes a row.
LEMMA DeletedByBatch ==
    ASSUME TypeOK, KeysAgree, Stages, Batches, [Next]_vars, NEW i \in Inst, row'[i].status = "purged", row[i].status # "purged"
    PROVE  ledger.ret = 0
 <1>t. StartTypeOK /\ RowOK
    BY DEF TypeOK, StartTypeOK
 <1>1. ASSUME [StartNext]_startvars PROVE FALSE
    BY <1>t, <1>1, StartDeletesNone
 <1>2. ASSUME NEW e \in Event, Acts(e) PROVE FALSE
   <2>1. CASE MarkOne(e)
      BY <1>t, <2>1 DEF MarkOne, RowOK, RowRecord, Live
   <2>2. CASE UNCHANGED row
      BY <2>2
   <2> QED
      BY <1>2, <2>1, <2>2 DEF Acts, Deliver, HandleTenantStateChanged, HandleTenantMembershipsPurged,
         Received, Lock, RecordStatus,
         RecordReturned, ListInstances, SignalOne, TerminateOne, ConfirmOne, EndSweep, ApplyPlanChange, Commit, MarkProcessed,
         Redeliver, EventDies, startvars
 <1>3. ASSUME NEW p \in Purger, PurgeStep(p) PROVE ledger.ret = 0
    BY <1>3, BatchesSpare
 <1>4. ASSUME NEW r \in DOMAIN runs, WriteStatus(r) PROVE FALSE
    BY <1>t, <1>4 DEF WriteStatus, RowOK, RowRecord, Live
 <1> QED
    BY <1>1, <1>2, <1>3, <1>4 DEF Next, Acts, vars

(***************************************************************************)
(* The purge.                                                              *)
(***************************************************************************)
\* The tenant is offboarded and the ledger says so; a purge has found it empty.
Offboarded == tenant.status = "offboarded" /\ ledger.off = tenant.at /\ ledger.ret = 0
FoundEmpty(p) == purge[p].pc = "empty" /\ AsListed(p)
Cleared == ledger.purged \/ \E p \in Purger : FoundEmpty(p)
\* Then what has a row came late.
Emptied == Offboarded /\ Cleared => Rows \subseteq late

\* The ledger an event leaves: the one there was, one with a return, or a fresh
\* offboarding of a version that no purge was listed with.
LEMMA EventLedger ==
    ASSUME TypeOK, Stages, NEW e \in Event, Acts(e)
    PROVE  \/ ledger' = ledger
           \/ LedgerFree /\ ledger'.ret # 0
           \/ LedgerFree /\ ledger'.purged = FALSE /\ ledger'.version = ledger.version + 1
 <1>t. ledger \in LedgerType
    BY DEF TypeOK, TenantOK, LedgerType
 <1>n. about[e].at \in Nat /\ about[e].at > 0
    BY TimesAre
 <1>1. CASE RecordReturned(e)
   <2>1. LedgerFree /\ ledger' = LedgerReturned(about[e].at)
      BY <1>1 DEF RecordReturned
   <2>2. ledger' = ledger \/ ledger' = [ledger EXCEPT !.ret = about[e].at, !.version = @ + 1]
      BY <2>1 DEF LedgerReturned
   <2>3. CASE ledger' = [ledger EXCEPT !.ret = about[e].at, !.version = @ + 1]
     <3>1. ledger'.ret = about[e].at
        BY <1>t, <2>3 DEF LedgerType
     <3>2. ledger'.ret # 0
        BY <1>n, <3>1
     <3> QED
        BY <2>1, <3>2
   <2> QED
      BY <2>1, <2>2, <2>3
 <1>2. CASE EndSweep(e)
   <2>1. ledger' = ledger \/ (LedgerFree /\ ledger' = LedgerOffboarded(about[e].at))
      BY <1>2 DEF EndSweep
   <2>2. ledger' = LedgerOffboarded(about[e].at) => ledger' = ledger \/ (ledger'.purged = FALSE /\ ledger'.version = ledger.version + 1)
      BY DEF LedgerOffboarded
   <2> QED
      BY <2>1, <2>2
 <1>3. CASE UNCHANGED ledger
    BY <1>3
 <1> QED
    BY <1>1, <1>2, <1>3 DEF Acts, Deliver, HandleTenantStateChanged, HandleTenantMembershipsPurged,
         Received, Lock, RecordStatus, ListInstances, SignalOne, TerminateOne, MarkOne, ConfirmOne, ApplyPlanChange, Commit,
         MarkProcessed, Redeliver, EventDies

\* The status an event records is no other offboarding of the same time.
LEMMA SameOffboarding ==
    ASSUME TypeOK, Stages, Records, NEW e \in Event, Acts(e), UNCHANGED ledger, Offboarded'
    PROVE  Offboarded
 <1>n. tenant.at \in Nat /\ ledger.off \in Nat /\ about[e].at \in Nat
    BY TimesAre
 <1>1. tenant' = tenant \/ tenant' = NewestState(e)
    BY DEF Acts, Deliver, HandleTenantStateChanged, HandleTenantMembershipsPurged, Received, Lock, RecordStatus, RecordReturned,
         ListInstances, SignalOne, TerminateOne, MarkOne, ConfirmOne, EndSweep, ApplyPlanChange, Commit, MarkProcessed, Redeliver,
         EventDies, startvars, ctxvars
 <1>2. CASE tenant' = tenant
    BY <1>2 DEF Offboarded
 <1>3. CASE tenant' = [status |-> about[e].status, at |-> about[e].at] /\ about[e].at >= tenant.at
   <2>1. about[e].status = "offboarded" /\ ledger.off = about[e].at /\ ledger.ret = 0
      BY <1>3 DEF Offboarded
   <2>2. tenant.at = about[e].at
      BY <1>n, <1>3, <2>1 DEF Records, Ordered
   <2>3. tenant.status = about[e].status
      BY <2>2, StatusIs DEF Records
   <2> QED
      BY <2>1, <2>2, <2>3 DEF Offboarded
 <1> QED
    BY <1>1, <1>2, <1>3 DEF NewestState

\* A step that leaves purges and ledger alone, and writes no unmarked row.
LEMMA PurgesQuiet ==
    ASSUME Batches, Emptied, UNCHANGED <<ledger, purge>>, Offboarded' => Offboarded,
           Offboarded => Rows' \ late' \subseteq Rows \ late
    PROVE  Batches' /\ Emptied'
 <1>1. Batches'
    BY DEF Batches, Current
 <1>2. Cleared' => Cleared
    BY DEF Cleared, FoundEmpty, AsListed
 <1> QED
    BY <1>1, <1>2 DEF Emptied

\* No step but a start writes a row.
LEMMA SettledRows ==
    ASSUME Settles
    PROVE  Rows' \subseteq Rows /\ late' = late
    BY DEF Settles, RowsSettle, Rows

\* Starts write late rows only, while the tenant is refused;
LEMMA StartPurges ==
    ASSUME TypeOK, Kept, Rising, UNCHANGED <<ledger, purge>>, Batches, Emptied
    PROVE  Batches' /\ Emptied'
 <1>1. UNCHANGED tenant /\ late \subseteq late'
    BY DEF Rising, ctxvars
 <1>2. ASSUME Offboarded, NEW i \in Rows', i \notin late' PROVE i \in Rows /\ i \notin late
   <2>1. i \in Inst /\ row'[i].status \notin {"none", "purged"}
      BY DEF Rows
   <2>2. row[i].status # "none"
      BY <1>2, <2>1 DEF Rising, Offboarded, Refused
   <2>3. i \in Rows
      BY <2>1, <2>2 DEF Kept, Rows, Live, NonTerminal
   <2> QED
      BY <1>1, <1>2, <2>3
 <1>3. Offboarded' => Offboarded
    BY <1>1 DEF Offboarded
 <1> QED
    BY <1>2, <1>3, PurgesQuiet

\* events wait for the transaction of a batch, and what they write on the ledger has
\* a return or a version no purge was listed with;
LEMMA EventPurges ==
    ASSUME TypeOK, KeysAgree, Stages, Records, Batches, Emptied, NEW e \in Event, Acts(e)
    PROVE  Batches' /\ Emptied'
 <1>1. Settles /\ UNCHANGED purge
    BY EventSettles, EventRoutes
 <1>2. Rows' \subseteq Rows /\ late' = late
    BY <1>1, SettledRows
 <1>3. CASE ledger' = ledger
    BY <1>1, <1>2, <1>3, SameOffboarding, PurgesQuiet
 <1>4. ASSUME LedgerFree PROVE Batches'
    BY <1>1, <1>4 DEF LedgerFree, Batches
 <1>5. ASSUME ledger'.ret # 0 PROVE Emptied'
    BY <1>5 DEF Emptied, Offboarded
 <1>6. ASSUME ledger'.purged = FALSE, ledger'.version = ledger.version + 1 PROVE Emptied'
   <2>1. ledger.version \in Nat /\ \A p \in Purger : purge[p].version \in Nat /\ purge[p].version <= ledger.version
      BY DEF TypeOK, TenantOK, PurgeOK, PurgeRecord
   <2>2. \A p \in Purger : ledger'.version # purge[p].version
      BY <1>6, <2>1
   <2>3. ~Cleared'
      BY <1>1, <1>6, <2>2 DEF Cleared, FoundEmpty, AsListed
   <2> QED
      BY <2>3 DEF Emptied
 <1> QED
    BY <1>3, <1>4, <1>5, <1>6, EventLedger

\* and a purge marks what it found empty, if the ledger is still the one it was listed
\* with.
LEMMA PurgePurges ==
    ASSUME TypeOK, KeysAgree, Stages, Batches, Emptied, NEW p \in Purger, PurgeStep(p)
    PROVE  Batches' /\ Emptied'
 <1>1. Settles /\ UNCHANGED tenant
    BY PurgeSettles
 <1>2. Rows' \subseteq Rows /\ late' = late
    BY <1>1, SettledRows
 <1>t. /\ ledger \in LedgerType /\ ledger.version \in Nat
       /\ \A q \in Purger : purge[q].version \in Nat /\ purge[q].version <= ledger.version
    BY DEF TypeOK, TenantOK, PurgeOK, PurgeRecord, LedgerType
 <1>g. /\ \A q \in Purger \ {p} : purge'[q] = purge[q]
       /\ purge'[p].pc = "empty" => Rows = {} /\ UNCHANGED ledger
       /\ purge'[p].pc \in InBatch => /\ purge'[p].version = purge[p].version /\ UNCHANGED ledger
                                      /\ purge[p].pc \in InBatch \/ Current(p)
    BY PurgeGoes
 <1>3. \/ ledger' = ledger
       \/ /\ LedgerFree /\ purge'[p].pc = "idle" /\ ledger'.version = ledger.version + 1
          /\ ledger'.purged => ledger.purged \/ FoundEmpty(p)
   <2>s. PurgeStops(p) => purge'[p].pc = "idle"
      BY DEF PurgeStops, NoPurge, TypeOK, PurgeOK
   <2>1. CASE CheckRows(p)
     <3>1. ledger' = ledger \/ (LedgerFree /\ PurgeStops(p) /\ ledger' = [ledger EXCEPT !.version = @ + 1])
        BY <2>1 DEF CheckRows, LedgerFailed
     <3> QED
        BY <1>t, <2>s, <3>1 DEF LedgerType
   <2>2. CASE MarkPurged(p)
     <3>1. ledger' = ledger \/ (LedgerFree /\ PurgeStops(p) /\ FoundEmpty(p) /\ ledger' = [ledger EXCEPT !.purged = TRUE, !.version = @ + 1])
        BY <2>2 DEF MarkPurged, LedgerPurged, FoundEmpty
     <3> QED
        BY <1>t, <2>s, <3>1 DEF LedgerType
   <2>3. CASE UNCHANGED ledger
      BY <2>3
   <2> QED
      BY <2>1, <2>2, <2>3 DEF PurgeStep, ListDue, PurgeBatch, PurgeInstances, PurgeQueues, PurgeGuards, eventvars
 <1>4. Batches'
   <2> SUFFICES ASSUME NEW q \in Purger, purge'[q].pc \in InBatch PROVE Current(q)'
      BY DEF Batches
   <2>1. CASE q = p
      BY <1>g, <2>1 DEF Batches, Current
   <2>2. CASE q # p
     <3>1. purge'[q] = purge[q] /\ Current(q)
        BY <1>g, <2>2 DEF Batches
     <3>2. ~LedgerFree
        BY <3>1 DEF LedgerFree
     <3> QED
        BY <1>3, <3>1, <3>2 DEF Current
   <2> QED
      BY <2>1, <2>2
 <1>5. Emptied'
   <2>1. Offboarded' => Offboarded
      BY <1>1, PurgeMoves DEF Offboarded
   <2>2. CASE ledger' = ledger
     <3>1. \A q \in Purger : FoundEmpty(q)' => FoundEmpty(q) \/ Rows = {}
        BY <1>g, <2>2 DEF FoundEmpty, AsListed
     <3> QED
        BY <1>2, <2>1, <2>2, <3>1 DEF Emptied, Cleared
   <2>3. CASE /\ purge'[p].pc = "idle" /\ ledger'.version = ledger.version + 1
              /\ ledger'.purged => ledger.purged \/ FoundEmpty(p)
     <3>1. \A q \in Purger : ledger'.version # purge[q].version
        BY <1>t, <2>3
     <3>2. \A q \in Purger : ~FoundEmpty(q)'
        BY <1>g, <2>3, <3>1 DEF FoundEmpty, AsListed
     <3> QED
        BY <1>2, <2>1, <2>3, <3>2 DEF Emptied, Cleared
   <2> QED
      BY <1>3, <2>2, <2>3
 <1> QED
    BY <1>4, <1>5

(***************************************************************************)
(* The invariant and the theorems.                                         *)
(***************************************************************************)
\* The inductive invariant.
Inv == /\ TypeOK /\ KeysAgree /\ Stages /\ Records /\ Terminating /\ OffLedger /\ Signalling
       /\ Returning /\ LedgerOrder /\ Batches /\ Emptied

\* A step that leaves the events alone keeps what is known of them.
LEMMA QuietStep ==
    ASSUME Inv, TypeOK', Births, UNCHANGED <<about, event, processed, uncommitted, unreached, tenant>>,
           ledger'.off = ledger.off, ledger'.ret = ledger.ret, guard' = guard \/ (guard' = 0 /\ ledger.ret = 0),
           \A e \in Event : tenant.at = about[e].at => Heeds(e)
    PROVE  Terminating' /\ OffLedger' /\ Signalling' /\ Returning' /\ LedgerOrder'
 <1>1. Terminating'
    BY EndingKept DEF Inv, Records, Terminating
 <1>2. OffLedger'
    BY OffLedgerKept DEF Inv, Records
 <1>3. Signalling'
    BY ApplyingQuiet DEF Inv, Signalling
 <1>4. Returning' /\ LedgerOrder'
    BY ReturningQuiet DEF Inv
 <1> QED
    BY <1>1, <1>2, <1>3, <1>4

\* The invariant holds at first
LEMMA InvInit == Init => Inv
 <1> SUFFICES ASSUME Init PROVE Inv
    OBVIOUS
 <1>1. StartTypeOK /\ KeysAgree
    BY StartInvInit DEF Init, StartInv
 <1>2. tenant = [status |-> "active", at |-> 0] /\ \A i \in Inst : row[i] = NoRow
    BY DEF Init, StartInit
 <1>3. Live = {} /\ Rows = {}
    BY <1>2 DEF Live, Rows, NonTerminal, NoRow
 <1>4. /\ about \in Histories /\ (\A e \in Event : event[e] = Queued) /\ event = [e \in Event |-> Queued] /\ processed = {}
       /\ lock = None /\ guard = 0
       /\ ledger = NoLedger /\ unreached = {} /\ uncommitted = FALSE
       /\ purge = [p \in Purger |-> NoPurge]
    BY DEF Init
 <1>5. EventsOK
   <2>1. Queued \in EventRecord
      BY DEF Queued, EventRecord, RunIds
   <2> QED
      BY <1>4, <2>1 DEF EventsOK
 <1>6. LockOK
   <2>1. \A e \in Event : event[e].pc = "queued"
      BY <1>4 DEF Queued
   <2> QED
      BY <1>4, <2>1, EventAssumption DEF LockOK, Held
 <1>7. TenantOK /\ PurgeOK
   <2>1. NoPurge \in PurgeRecord /\ NoPurge.version = 0 /\ ledger.version = 0
      BY <1>4 DEF NoPurge, PurgeRecord, NoLedger
   <2>2. PurgeOK
      BY <1>4, <2>1 DEF PurgeOK
   <2> QED
      BY <1>2, <1>4, <2>2 DEF TenantOK, NoLedger, Running
 <1>8. TypeOK
    BY <1>1, <1>5, <1>6, <1>7 DEF TypeOK
 <1>9. \A e \in Event : event[e].pc = "queued"
    BY <1>4 DEF Queued
 <1>10. Stages
    BY <1>9 DEF Stages
 <1>11. \A e \in Event : ~Recorded(e) /\ ~Answered(e)
    BY <1>4, <1>9 DEF Recorded, Answered, Past, Held
 <1>12. ledger.off = 0 /\ ledger.ret = 0
    BY <1>4 DEF NoLedger
 <1>13. Records
   <2>1. TenantIs
      BY <1>2 DEF TenantIs
   <2>2. LedgerIs
      BY <1>11, <1>12 DEF LedgerIs
   <2>3. Ordered
     <3>1. ledger.off = 0 /\ tenant.at = 0 /\ guard = 0
        BY <1>2, <1>4, <1>12
     <3> QED
        BY <1>11, <3>1 DEF Ordered
   <2>4. Fresh
      BY <1>4, <1>9 DEF Fresh, Held
   <2> QED
      BY <2>1, <2>2, <2>3, <2>4 DEF Records
 <1>14. Terminating /\ OffLedger
    BY <1>3 DEF Terminating, Ending, OffLedger
 <1>15. Signalling
   <2>1. \A e \in Event : about[e].at \in Nat /\ about[e].at > 0
      BY <1>8, TimesAre
   <2>2. \A e \in Event : ~(guard >= about[e].at)
      BY <1>4, <2>1
   <2> QED
      BY <1>9, <1>11, <2>2 DEF Signalling, Applying
 <1>16. Batches /\ Emptied
    BY <1>3, <1>4 DEF Batches, Emptied, NoPurge, InBatch
 <1>17. Returning /\ LedgerOrder
   <2>1. \A e \in Event : about[e].at \in Nat /\ about[e].at > 0
      BY <1>8, TimesAre
   <2>2. \A e \in Event : ~(guard >= about[e].at)
      BY <1>4, <2>1
   <2>3. \A e \in Event : ~Noted(e)
      BY <1>9, <1>11, <2>2 DEF Noted, Past, Held
   <2> QED
      BY <1>12, <2>3 DEF Returning, LedgerOrder
 <1> QED
    BY <1>1, <1>8, <1>10, <1>13, <1>14, <1>15, <1>16, <1>17 DEF Inv

\* and every step keeps it.
LEMMA InvStep == Inv /\ [Next]_vars => Inv'
 <1> SUFFICES ASSUME Inv, [Next]_vars PROVE Inv'
    OBVIOUS
 <1>i. /\ TypeOK /\ KeysAgree /\ Stages /\ Records /\ Terminating /\ OffLedger /\ Signalling /\ TenantIs
       /\ Returning /\ LedgerOrder /\ Batches /\ Emptied
    BY DEF Inv, Records
 <1>1. ASSUME [StartNext]_startvars, UNCHANGED <<eventvars, purge>> PROVE Inv'
   <2>1. TypeOK' /\ KeysAgree' /\ Kept /\ Rising
      BY <1>i, <1>1, StartLeaves
   <2>2. UNCHANGED <<about, event, processed, uncommitted, unreached, tenant, guard, ledger>>
      BY <1>1, <2>1 DEF eventvars, Rising, ctxvars
   <2>3. Stages' /\ Records'
      BY <1>i, <2>2, SameRecords DEF Stages
   <2>4. \A e \in Event : tenant.at = about[e].at => Heeds(e)
      BY <1>i, <1>1, <2>1, StartHeeds
   <2>5. Terminating' /\ OffLedger' /\ Signalling' /\ Returning' /\ LedgerOrder'
      BY <2>1, <2>2, <2>4, StartBirths, QuietStep
   <2>6. Batches' /\ Emptied'
      BY <1>i, <1>1, <2>1, <2>2, StartPurges
   <2> QED
      BY <2>1, <2>3, <2>5, <2>6 DEF Inv
 <1>2. ASSUME NEW e \in Event, Acts(e) PROVE Inv'
   <2>1. TypeOK' /\ KeysAgree' /\ Stages'
      BY <1>i, <1>2, EventStepType
   <2>2. Records'
      BY <1>i, <1>2, <2>1, EventRecords
   <2>3. Terminating' /\ OffLedger'
      BY <1>i, <1>2, OffboardingStep
   <2>4. Signalling'
      BY <1>i, <1>2, <2>1, <2>2, ApplyingOwn, ApplyingOther DEF Signalling
   <2>5. Returning' /\ LedgerOrder'
      BY <1>i, <1>2, <2>1, ReturningStep
   <2>6. Batches' /\ Emptied'
      BY <1>i, <1>2, EventPurges
   <2> QED
      BY <2>1, <2>2, <2>3, <2>4, <2>5, <2>6 DEF Inv
 <1>3. ASSUME NEW p \in Purger, PurgeStep(p) PROVE Inv'
   <2>1. TypeOK' /\ KeysAgree' /\ Stages'
      BY <1>i, <1>3, PurgeStepType
   <2>2. Records'
      BY <1>i, <1>3, <2>1, PurgeRecords
   <2>3. Settles /\ UNCHANGED <<runs, unreached, about, event, processed, tenant, uncommitted>>
      BY <1>i, <1>3, PurgeSettles
   <2>4. ledger'.off = ledger.off /\ ledger'.ret = ledger.ret /\ (guard' = guard \/ (guard' = 0 /\ ledger.ret = 0))
      BY <1>i, <1>3, PurgeMoves, BatchesSpare
   <2>5. \A e \in Event : Heeds(e)
      BY <2>3, SettledHeeds
   <2>6. Terminating' /\ OffLedger' /\ Signalling' /\ Returning' /\ LedgerOrder'
      BY <2>1, <2>3, <2>4, <2>5, SettledBirths, QuietStep
   <2>7. Batches' /\ Emptied'
      BY <1>i, <1>3, PurgePurges
   <2> QED
      BY <2>1, <2>2, <2>6, <2>7 DEF Inv
 <1>4. ASSUME NEW r \in DOMAIN runs, WriteStatus(r) PROVE Inv'
   <2>1. TypeOK' /\ KeysAgree' /\ Stages'
      BY <1>i, <1>4, WriteStepType
   <2>2. Settles /\ UNCHANGED <<runs, unreached, about, event, processed, tenant, uncommitted, guard, ledger>>
      BY <1>i, <1>4, WriteSettles DEF ctxvars, eventvars
   <2>3. Records'
      BY <1>i, <2>2, SameRecords
   <2>4. \A e \in Event : Heeds(e)
      BY <2>2, SettledHeeds
   <2>5. Terminating' /\ OffLedger' /\ Signalling' /\ Returning' /\ LedgerOrder'
      BY <2>1, <2>2, <2>4, SettledBirths, QuietStep
   <2>6. Batches' /\ Emptied'
     <3>1. UNCHANGED <<ledger, purge, tenant>>
        BY <1>i, <1>4, WriteSettles DEF ctxvars, eventvars
     <3> QED
        BY <1>i, <2>2, <3>1, SettledRows, PurgesQuiet DEF Offboarded
   <2> QED
      BY <2>1, <2>3, <2>5, <2>6 DEF Inv
 <1>5. CASE UNCHANGED vars
    BY <1>1, <1>5 DEF vars
 <1> QED
    BY <1>1, <1>2, <1>3, <1>4, <1>5 DEF Next, Acts

(***************************************************************************)
(* The theorems.                                                           *)
(***************************************************************************)
\* The inductive invariant holds in every reachable state.
THEOREM Invariance == Spec => []Inv
    BY InvInit, InvStep, PTL DEF Spec

\* Every variable has its type, and the lock of the tenant is held by the event between
\* its recency check and its commit and by no other (WithLock), for any events,
\* purgers, starts and faults.
THEOREM TenantTypeCorrect == Spec => []TypeOK
 <1>1. Inv => TypeOK
    BY DEF Inv
 <1> QED
    BY <1>1, Invariance, PTL

\* A tenant that is marked as purged and did not return has no row but those of starts
\* that had passed the check before its offboarding, whatever batches of other replicas
\* took each other's rows: no pass that merely deleted nothing counts as the end, and a
\* mark names the version it was listed with (purgeTenant, HasRows, MarkPurged).
THEOREM PurgedLeavesNothingHolds == Spec => []PurgedLeavesNothing
 <1>1. Inv => PurgedLeavesNothing
    BY DEF Inv, Emptied, Offboarded, Cleared, PurgedLeavesNothing
 <1> QED
    BY <1>1, Invariance, PTL

\* Whatever the order of the events, an offboarding on the ledger that is still the
\* status of the tenant left no instance alive but those whose start had passed the
\* check before (applyTenantStateChangeLocked, terminateAllNonTerminal).
THEOREM OffboardedLeavesNothingHolds == Spec => []OffboardedLeavesNothing
 <1>1. Inv => OffboardedLeavesNothing
   <2> SUFFICES ASSUME Inv, tenant.status = "offboarded", ledger.off = tenant.at PROVE Live \subseteq late
      BY DEF OffboardedLeavesNothing
   <2>1. tenant # [status |-> "active", at |-> 0]
      OBVIOUS
   <2>2. tenant.at # 0
      BY <2>1, TimesAre DEF Inv, Records, TenantIs
   <2> QED
      BY <2>2 DEF Inv, OffLedger
 <1> QED
    BY <1>1, Invariance, PTL

\* When every event is answered and every commit went through, the newest change rules:
\* its status is on record and every execution it could reach is paused or runs as it
\* says, however the events were delivered, repeated or interrupted
\* (applyTenantStateChangeLocked, signalAllNonTerminal).
THEOREM NewestStatusWinsHolds == Spec => []NewestStatusWins
 <1>1. Inv => NewestStatusWins
   <2> SUFFICES ASSUME Inv, \A e \in Event : event[e].pc = "done", ~uncommitted,
                       NEW e \in Event, \A f \in Event : about[f].at <= about[e].at
                PROVE  /\ tenant.status = about[e].status
                       /\ \A r \in Open :
                            /\ runs[r].inst \in Live \ (late \cup unreached \cup shared)
                            /\ Cardinality(RunsOf(runs[r].inst)) = 1
                            /\ about[e].changed
                            => runs[r].paused = (about[e].status \in Pausing)
      BY DEF NewestStatusWins
   <2>i. TypeOK /\ Records /\ TenantIs /\ Ending(e) /\ Applying(e) /\ Newest(e)
      BY DEF Inv, Records, Terminating, Signalling, Newest
   <2>a. Answered(e) /\ Recorded(e)
      BY DEF Answered, Recorded
   <2>1. tenant.at = about[e].at
      BY <2>i, <2>a, NewestOnRecord
   <2>2. tenant.status = about[e].status
      BY <2>i, <2>1, StatusIs
   <2>3. ASSUME NEW r \in Open, runs[r].inst \in Live, runs[r].inst \notin late, runs[r].inst \notin unreached,
                Cardinality(RunsOf(runs[r].inst)) = 1, about[e].changed
         PROVE  runs[r].paused = (about[e].status \in Pausing)
     <3>1. CASE about[e].status = "offboarded"
       <4>1. Live \subseteq late
          BY <2>i, <2>a, <2>1, <2>3, <3>1 DEF Ending, Offboards, Swept
       <4> QED
          BY <2>3, <4>1
     <3>2. CASE about[e].status # "offboarded"
       <4>0. RunsOK
          BY <2>i DEF TypeOK, StartTypeOK
       <4>1. Speaks(e)
          BY <2>i, <2>3, <3>2 DEF Speaks
       <4>2. Heeded(e, runs[r].inst)
          BY <2>i, <2>a, <2>3, <4>1 DEF Applying, InForce
       <4>3. \A q \in RunsOf(runs[r].inst) : q = r
         <5>1. IsFiniteSet(RunsOf(runs[r].inst))
           <6>1. RunsOf(runs[r].inst) \in SUBSET (1 .. Len(runs)) /\ Len(runs) \in Nat
              BY <4>0 DEF RunsOK, RunsOf
           <6>2. IsFiniteSet(1 .. Len(runs))
              BY <6>1, FS_Interval
           <6> QED
              BY <6>1, <6>2, FS_Subset
         <5>2. r \in RunsOf(runs[r].inst)
            BY DEF RunsOf, Open
         <5> QED
            BY <2>3, <5>1, <5>2, AtMostOne
       <4>4. runs[r].paused <=> about[e].status \in Pausing
          BY <4>2, <4>3 DEF Heeded
       <4>5. runs[r].paused \in BOOLEAN
         <5>1. \A q \in DOMAIN runs : runs[q] \in RunRecord
            BY <4>0 DEF RunsOK
         <5>2. r \in DOMAIN runs
            BY DEF Open
         <5> QED
            BY <5>1, <5>2 DEF RunRecord
       <4> QED
          BY <4>4, <4>5
     <3> QED
        BY <3>1, <3>2
   <2> QED
      BY <2>2, <2>3
 <1> QED
    BY <1>1, Invariance, PTL

\* No batch deletes a row of a tenant after an event that brought it back was handled,
\* for any histories, deliveries and purgers, unless the tenant was offboarded again or
\* the event was overtaken (purgeTenant, lockCurrentRetention, RecordReturned).
THEOREM PurgeSparesReturnedHolds == Spec => PurgeSparesReturned
 <1> DEFINE Step == \A i \in Inst : row'[i].status = "purged" /\ row[i].status # "purged" =>
                      \A e \in Event :
                        event[e].pc = "done" /\ about[e].changed /\ about[e].status # "offboarded"
                        => about[e].at <= ledger.off \/ Overtaken(e)
 <1>1. Inv /\ [Next]_vars => Step
   <2> SUFFICES ASSUME Inv, [Next]_vars, NEW i \in Inst, row'[i].status = "purged", row[i].status # "purged",
                       NEW e \in Event, event[e].pc = "done", about[e].changed, about[e].status # "offboarded"
                PROVE  about[e].at <= ledger.off \/ Overtaken(e)
      OBVIOUS
   <2>1. ledger.ret = 0
      BY DeletedByBatch DEF Inv
   <2>2. Spared(e)
      BY DEF Inv, Returning, Brings, Noted, Answered
   <2>3. about[e].at \in Nat /\ about[e].at > 0
      BY TimesAre DEF Inv
   <2> QED
      BY <2>1, <2>2, <2>3 DEF Spared
 <1>2. Inv /\ [Next]_vars => [Step]_vars
    BY <1>1
 <1> QED
    BY <1>2, Invariance, PTL DEF Spec, PurgeSparesReturned

=============================================================================
