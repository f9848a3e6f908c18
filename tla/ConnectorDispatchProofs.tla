---------------------- MODULE ConnectorDispatchProofs ----------------------
(***************************************************************************)
(* Safety of ConnectorDispatch, for any number of tasks, entries, workers, *)
(* attempts, deliveries and faults.  TypeInv is inductive; RunInv,         *)
(* ReservationGuards and AckInv are inductive relative to it, and          *)
(* VerdictsAgree relative to it and RunInv.                                *)
(***************************************************************************)
EXTENDS ConnectorDispatch, FiniteSetTheorems, TLAPS

\* A job with a result and a request have a verdict to carry.
VerdictsCarried ==
    /\ \A j \in Job : job[j].pc \in {"executed", "report", "resend", "posted"} => job[j].verdict \in Verdicts
    /\ \A j \in Job : call[j].at # "none" => call[j].verdict \in Verdicts

\* No worker has an entry that was not delivered yet.
UndeliveredUnclaimed ==
    \A w \in Worker, e \in Entry : entry[e].at \in {"none", "checked", "new"} => job[<<w, e>>].pc = "idle"

\* As long as no run of the task outlived its lease, the connector runs under it.
RunsUnderLease == \A j \in Job : job[j].pc \in Running /\ outlived[T(j)] = 0 => lease[T(j)] = j

\* As long as that is so, nothing is recorded while a run is under way.
RunsUnrecorded == \A j \in Job : job[j].pc \in Running /\ outlived[T(j)] = 0 => outcome[T(j)] = None

\* The run of the job that has the lease of a task.
LeasedRun(t) == \E j \in Job : T(j) = t /\ lease[t] = j /\ job[j].pc \in Running

\* A run that is neither lost nor outlived its lease is recorded or under it.
RunsAccounted ==
    \A t \in Task :
        /\ runs[t] <= 1 + lost[t] + outlived[t]
        /\ outcome[t] = None /\ ~LeasedRun(t) => runs[t] <= lost[t] + outlived[t]

\* While a reservation has not given way, one request at most is between it and
\* its signal, and once the signal is sent the reservation stands.
Signalling == {"reserved", "assigned"}
ReservationGuards ==
    \A t \in Task : ~gaveWay[t] =>
        /\ signals[t] <= 1
        /\ signals[t] = 1 => reserved[t]
        /\ \A j \in Job : T(j) = t /\ call[j].at \in Signalling => reserved[t] /\ signals[t] = 0
        /\ \A j, k \in Job :
             T(j) = t /\ T(k) = t /\ {call[j].at, call[k].at} \subseteq Signalling => j = k

\* A job acknowledges its entry when the service said that nothing is left to do.
AcksAnswered == \A j \in Job : job[j].pc = "ack" => Settled(T(j)) \/ refused[T(j)]

\* Nothing went wrong with the runs of the task.
Undisturbed(t) == lost[t] = 0 /\ outlived[t] = 0

\* The verdict everyone carries for a task whose runs went well.
Verdict(t) == IF shape[t] = "unknown" THEN "fail" ELSE outcome[t]
VerdictsAgree ==
    /\ \A j \in Job :
         /\ job[j].pc \in {"waiting", "entered", "leased", "running", "executed"} => shape[T(j)] # "unknown"
         /\ Undisturbed(T(j)) =>
              /\ job[j].pc \in {"report", "resend", "posted"} => job[j].verdict = Verdict(T(j))
              /\ call[j].at # "none" => call[j].verdict = Verdict(T(j))
    /\ \A t \in Task :
         /\ shape[t] = "unknown" => outcome[t] = None
         /\ Undisturbed(t) => sent[t] \subseteq {Verdict(t)}

\* TypeOK is not inductive: what is recorded and signalled has to be a verdict.
TypeInv == TypeOK /\ VerdictsCarried

\* What keeps a connector from running twice.
RunInv == UndeliveredUnclaimed /\ RunsUnderLease /\ RunsUnrecorded /\ RunsAccounted

\* What an acknowledgement rests on.
AckInv == AcksAnswered /\ AckedMeansSettled

-----------------------------------------------------------------------------
(***************************************************************************)
(* Type correctness.                                                       *)
(***************************************************************************)
\* The worker, the entry and the task of a job.
LEMMA JobParts ==
    ASSUME NEW j \in Job
    PROVE  j[1] \in Worker /\ j[2] \in Entry /\ j = <<j[1], j[2]>> /\ T(j) \in Task
BY DispatchAssumption DEF Job, T

\* A worker and an entry make a job.
LEMMA JobPair ==
    ASSUME NEW w \in Worker, NEW e \in Entry
    PROVE  <<w, e>> \in Job /\ T(<<w, e>>) = TaskOf[e] /\ TaskOf[e] \in Task
BY DispatchAssumption DEF Job, T

\* The initial state is type-correct.
LEMMA TypeInit == Init => TypeOK
<1> SUFFICES ASSUME Init PROVE TypeOK
    OBVIOUS
<1> USE DispatchAssumption DEF Init
<1>1. EntryOK  BY DEF EntryOK, EntryRecord, Deliveries
<1>2. JobOK    BY DEF JobOK, JobRecord, NoJob, PCs, Deliveries
<1>3. CallOK   BY DEF CallOK, CallRecord, NoCall
<1>4. FlagsOK  BY DEF FlagsOK
<1>5. LedgerOK BY DEF LedgerOK
<1>6. FaultsOK BY DEF FaultsOK
<1> QED BY <1>1, <1>2, <1>3, <1>4, <1>5, <1>6 DEF TypeOK

\* No step of a goroutine or of its request leaves the records of the jobs.
LEMMA JobStepType ==
    ASSUME TypeOK, NEW j \in Job, JobStep(j) \/ CallStep(j) \/ CallTimeout(j)
    PROVE  JobOK'
<1> USE JobParts, DispatchAssumption DEF TypeOK, JobOK
<1> HIDE DEF EntryOK, CallOK, FlagsOK
<1>a. NoJob \in JobRecord
    BY DEF NoJob, JobRecord, PCs, Deliveries
<1>b. ASSUME NEW r \in JobRecord, NEW p \in PCs PROVE [r EXCEPT !.pc = p] \in JobRecord
    BY DEF JobRecord
<1>c. ASSUME NEW r \in JobRecord, NEW p \in PCs, NEW v \in Verdicts \cup {None}
      PROVE  [r EXCEPT !.pc = p, !.verdict = v] \in JobRecord
    BY DEF JobRecord
<1>l. ASSUME Leave(j) PROVE JobOK'
    BY <1>a, <1>l DEF Leave
<1>g. ASSUME NEW p \in PCs, Goto(j, p) PROVE JobOK'
    BY <1>b, <1>g DEF Goto
<1>1. CASE HandleEntry(j)
  <2>1. ASSUME NEW p \in PCs, NEW v \in Verdicts \cup {None}, job' = [job EXCEPT ![j] = [NoJob EXCEPT !.pc = p, !.verdict = v]]
        PROVE  JobOK'
    BY <1>a, <1>c, <2>1
  <2>2. CASE job' = [job EXCEPT ![j] = [NoJob EXCEPT !.pc = "waiting"]]
    BY <1>a, <1>b, <2>2 DEF PCs
  <2>3. outcome[T(j)] \in Verdicts \cup {None}
    BY DEF LedgerOK
  <2> QED
    BY <1>1, <1>l, <2>1, <2>2, <2>3 DEF HandleEntry, LeavesStream, Verdicts, PCs
<1>2. CASE EnterPool(j)
    BY <1>2, <1>g DEF EnterPool, PCs
<1>3. CASE TakeLease(j)
  <2>1. ASSUME NEW r \in JobRecord PROVE [r EXCEPT !.pc = "leased", !.due = TRUE] \in JobRecord
    BY DEF JobRecord, PCs
  <2>2. CASE job' = [job EXCEPT ![j].pc = "leased", ![j].due = TRUE]
    BY <2>1, <2>2
  <2> QED
    BY <1>3, <1>l, <2>2 DEF TakeLease
<1>4. CASE Recheck(j)
  <2>1. ASSUME NEW r \in JobRecord PROVE [r EXCEPT !.pc = "running", !.attempt = 1] \in JobRecord
    BY DEF JobRecord, PCs
  <2>3. outcome[T(j)] \in Verdicts \cup {None}
    BY DEF LedgerOK
  <2>4. CASE job' = [job EXCEPT ![j].pc = "report", ![j].verdict = outcome[T(j)]]
    BY <1>c, <2>3, <2>4 DEF PCs
  <2>5. CASE job' = [job EXCEPT ![j].pc = "running", ![j].attempt = 1]
    BY <2>1, <2>5
  <2> QED
    BY <1>4, <1>l, <2>4, <2>5 DEF Recheck
<1>5. CASE Attempt(j)
  <2>1. ASSUME NEW r \in JobRecord, NEW v \in Verdicts, NEW n \in {0, 1} \cup 0..MaxAttempts
        PROVE  [r EXCEPT !.pc = "executed", !.verdict = v, !.attempt = n] \in JobRecord
    BY DEF JobRecord, PCs
  <2>2. ASSUME NEW r \in JobRecord, NEW n \in {0, 1} \cup 0..MaxAttempts
        PROVE [r EXCEPT !.attempt = n] \in JobRecord
    BY DEF JobRecord
  <2>3. job[j].attempt \in {0, 1} \cup 0..MaxAttempts
    BY DEF JobRecord
  <2>4. job[j].attempt < MaxAttempts => job[j].attempt + 1 \in 0..MaxAttempts
    BY <2>3
  <2>5. ASSUME NEW v \in Verdicts, Executed(j, v) PROVE JobOK'
    BY <2>1, <2>5 DEF Executed
  <2>6. CASE job[j].attempt < MaxAttempts /\ job' = [job EXCEPT ![j].attempt = @ + 1]
    BY <2>2, <2>4, <2>6
  <2> QED
    BY <1>5, <2>5, <2>6 DEF Attempt
<1>6. CASE RecordOutcome(j)
    BY <1>6, <1>g DEF RecordOutcome, PCs
<1>7. CASE Report(j)
    BY <1>7, <1>g, <1>l DEF Report, PCs
<1>8. CASE AckEntry(j)
    BY <1>8, <1>l DEF AckEntry, LeavesStream
<1>9. CASE CallStep(j)
    BY <1>9, <1>g, <1>l DEF CallStep, LoadTask, ReserveSignal, AssignActor, SignalWorkflow,
       PrincipalFails, Answer, PCs
<1>10. CASE CallTimeout(j)
    BY <1>10, <1>l DEF CallTimeout
<1> QED
    BY <1>1, <1>2, <1>3, <1>4, <1>5, <1>6, <1>7, <1>8, <1>9, <1>10 DEF JobStep
\* No step leaves the records of the jobs.
LEMMA JobType == TypeOK /\ [Next]_vars => JobOK'
<1> SUFFICES ASSUME TypeOK, [Next]_vars PROVE JobOK'
    OBVIOUS
<1>a. NoJob \in JobRecord
    BY DispatchAssumption DEF NoJob, JobRecord, PCs, Deliveries
<1>0. CASE UNCHANGED job
    BY <1>0 DEF TypeOK, JobOK
<1>1. ASSUME NEW w \in Worker, NEW e \in Entry, NEW n \in Deliveries, Claimed(<<w, e>>, n) PROVE JobOK'
  <2>1. ASSUME NEW r \in JobRecord PROVE [r EXCEPT !.pc = "claimed", !.seen = n] \in JobRecord
    BY DEF JobRecord, PCs
  <2>2. [NoJob EXCEPT !.pc = "claimed", !.seen = n] \in JobRecord
    BY <1>a, <2>1
  <2> QED
    BY <1>1, <2>2, JobPair DEF Claimed, TypeOK, JobOK
<1>2. ASSUME NEW w \in Worker, NEW e \in Entry, ReadGroup(w, e) PROVE JobOK'
    BY <1>1, <1>2, DispatchAssumption DEF ReadGroup, Deliveries
<1>3. ASSUME NEW w \in Worker, NEW e \in Entry, ReclaimStale(w, e) PROVE JobOK'
  <2>1. NextDelivery(e) \in Deliveries /\ 0 \in Deliveries
    BY DispatchAssumption DEF NextDelivery, TypeOK, EntryOK, EntryRecord, Deliveries
  <2> QED
    BY <1>0, <1>1, <1>3, <2>1 DEF ReclaimStale
<1>4. ASSUME NEW w \in Worker, WorkerCrash(w) PROVE JobOK'
    BY <1>4, <1>a DEF WorkerCrash, TypeOK, JobOK
<1>5. CASE ServiceCrash
    BY <1>5, <1>a DEF ServiceCrash, TypeOK, JobOK
<1>6. ASSUME NEW e \in Entry, CheckEvent(e) \/ PublishTaskCreated(e) \/ IdlesOut(e) PROVE UNCHANGED job
    BY <1>6 DEF CheckEvent, PublishTaskCreated, IdlesOut, workervars
<1>7. ASSUME NEW w \in Worker, HeartbeatOnce(w) \/ Shutdown(w) \/ Restart(w) PROVE UNCHANGED job
    BY <1>7 DEF HeartbeatOnce, Shutdown, Restart, workervars
<1>8. ASSUME NEW t \in Task, LeaseExpires(t) \/ ReservationExpires(t) \/ TaskCloses(t) \/ InstanceEnds(t)
      PROVE UNCHANGED job
    BY <1>8 DEF LeaseExpires, ReservationExpires, TaskCloses, InstanceEnds, workervars
<1>9. CASE UNCHANGED vars
    BY <1>0, <1>9 DEF vars, workervars
<1> QED
    BY <1>0, <1>2, <1>3, <1>4, <1>5, <1>6, <1>7, <1>8, <1>9, JobStepType DEF Next

\* No step leaves the records of the stream: a count that is read or
\* raised stays within the deliveries.
LEMMA EntryType == TypeOK /\ [Next]_vars => EntryOK'
<1> SUFFICES ASSUME TypeOK, [Next]_vars PROVE EntryOK'
    OBVIOUS
<1> USE DEF TypeOK, EntryOK
<1> HIDE DEF JobOK, CallOK, FlagsOK, LedgerOK
<1>0. CASE UNCHANGED entry
    BY <1>0
<1>1. ASSUME NEW e \in Entry, CheckEvent(e) \/ PublishTaskCreated(e) \/ IdlesOut(e) PROVE EntryOK'
    BY <1>1 DEF CheckEvent, PublishTaskCreated, Published, IdlesOut, EntryRecord
<1>2. ASSUME NEW w \in Worker, NEW e \in Entry, ReadGroup(w, e) \/ ReclaimStale(w, e) PROVE EntryOK'
  <2>1. NextDelivery(e) \in Deliveries /\ 1 \in Deliveries
    BY DispatchAssumption DEF NextDelivery, EntryRecord, Deliveries
  <2>2. ASSUME NEW n \in Deliveries, Delivered(e, n) PROVE EntryOK'
    BY <2>2 DEF Delivered, EntryRecord
  <2> QED
    BY <1>2, <2>1, <2>2 DEF ReadGroup, ReclaimStale
<1>3. ASSUME NEW w \in Worker, HeartbeatOnce(w) PROVE EntryOK'
    BY <1>3 DEF HeartbeatOnce, Touched, EntryRecord
<1>4. ASSUME NEW w \in Worker, Shutdown(w) \/ Restart(w) \/ WorkerCrash(w) PROVE UNCHANGED entry
    BY <1>4 DEF Shutdown, Restart, WorkerCrash, streamvars
<1>5. ASSUME NEW j \in Job, HandleEntry(j) \/ AckEntry(j) PROVE EntryOK'
  <2>1. ASSUME NEW at \in {"acked", "dead"}, LeavesStream(j, at) PROVE EntryOK'
    <3>1. ASSUME NEW r \in EntryRecord PROVE [r EXCEPT !.at = at, !.idle = FALSE] \in EntryRecord
        BY DEF EntryRecord
    <3>2. CASE Removed(j[2], at)
        BY <3>1, <3>2, JobParts DEF Removed
    <3> QED
        BY <1>0, <2>1, <3>2 DEF LeavesStream
  <2> QED
    BY <1>5, <1>0, <2>1 DEF HandleEntry, AckEntry
<1>6. ASSUME NEW j \in Job, JobStep(j), ~HandleEntry(j), ~AckEntry(j) PROVE UNCHANGED entry
    BY <1>6 DEF JobStep, EnterPool, TakeLease, Recheck, Attempt, RecordOutcome, Report, streamvars
<1>7. ASSUME NEW j \in Job, CallStep(j) \/ CallTimeout(j) PROVE UNCHANGED entry
    BY <1>7 DEF CallStep, LoadTask, ReserveSignal, AssignActor, SignalWorkflow, CallTimeout, streamvars
<1>8. ASSUME NEW t \in Task, LeaseExpires(t) \/ ReservationExpires(t) \/ TaskCloses(t) \/ InstanceEnds(t)
      PROVE UNCHANGED entry
    BY <1>8 DEF LeaseExpires, ReservationExpires, TaskCloses, InstanceEnds, streamvars
<1>9. CASE ServiceCrash \/ UNCHANGED vars
    BY <1>9 DEF ServiceCrash, vars, streamvars
<1> QED
    BY <1>0, <1>1, <1>2, <1>3, <1>4, <1>5, <1>6, <1>7, <1>8, <1>9 DEF Next

\* No step leaves the records of the requests.
LEMMA CallType == TypeOK /\ [Next]_vars => CallOK'
<1> SUFFICES ASSUME TypeOK, [Next]_vars PROVE CallOK'
    OBVIOUS
<1> USE DEF TypeOK, CallOK
<1> HIDE DEF EntryOK, FlagsOK, LedgerOK
<1>a. NoCall \in CallRecord
    BY DEF NoCall, CallRecord
<1>0. CASE UNCHANGED call
    BY <1>0
<1>1. ASSUME NEW e \in Entry, CheckEvent(e) \/ PublishTaskCreated(e) \/ IdlesOut(e) PROVE UNCHANGED call
    BY <1>1 DEF CheckEvent, PublishTaskCreated, IdlesOut, servicevars
<1>2. ASSUME NEW w \in Worker, NEW e \in Entry, ReadGroup(w, e) \/ ReclaimStale(w, e)
      PROVE UNCHANGED call
    BY <1>2 DEF ReadGroup, ReclaimStale, servicevars
<1>3. ASSUME NEW w \in Worker, HeartbeatOnce(w) \/ Shutdown(w) \/ Restart(w) \/ WorkerCrash(w)
      PROVE UNCHANGED call
    BY <1>3 DEF HeartbeatOnce, Shutdown, Restart, WorkerCrash, servicevars
<1>4. ASSUME NEW j \in Job, Report(j) PROVE CallOK'
    BY <1>4 DEF Report, Posted, CallRecord, JobOK, JobRecord
<1>5. ASSUME NEW j \in Job, JobStep(j), ~Report(j) PROVE UNCHANGED call
    BY <1>5 DEF JobStep, HandleEntry, EnterPool, TakeLease, Recheck, Attempt, RecordOutcome,
       AckEntry, servicevars
<1>6. ASSUME NEW j \in Job, CallStep(j) PROVE CallOK'
  <2>1. ASSUME NEW ok, Answer(j, ok) PROVE CallOK'
    BY <1>a, <2>1 DEF Answer
  <2>2. ASSUME NEW at \in {"loaded", "reserved", "assigned"}, call' = [call EXCEPT ![j].at = at]
        PROVE CallOK'
    BY <2>2 DEF CallRecord
  <2> QED
    BY <1>6, <2>1, <2>2 DEF CallStep, LoadTask, ReserveSignal, AssignActor, SignalWorkflow,
       PrincipalFails
<1>7. ASSUME NEW j \in Job, CallTimeout(j) PROVE UNCHANGED call
    BY <1>7 DEF CallTimeout, servicevars
<1>8. ASSUME NEW t \in Task, LeaseExpires(t) \/ ReservationExpires(t) \/ TaskCloses(t) \/ InstanceEnds(t)
      PROVE UNCHANGED call
    BY <1>8 DEF LeaseExpires, ReservationExpires, TaskCloses, InstanceEnds, servicevars
<1>9. CASE ServiceCrash \/ UNCHANGED vars
    BY <1>9, <1>a DEF ServiceCrash, vars, servicevars
<1> QED
    BY <1>0, <1>1, <1>2, <1>3, <1>4, <1>5, <1>6, <1>7, <1>8, <1>9 DEF Next
\* No step leaves the states of the processes, rows and reservations.
LEMMA FlagsType == TypeOK /\ [Next]_vars => FlagsOK'
<1> SUFFICES ASSUME TypeOK, [Next]_vars PROVE FlagsOK'
    OBVIOUS
<1> USE DEF TypeOK, FlagsOK
<1> HIDE DEF EntryOK, JobOK, CallOK, LedgerOK
<1>1. ASSUME NEW e \in Entry, CheckEvent(e) \/ PublishTaskCreated(e) \/ IdlesOut(e) PROVE FlagsOK'
    BY <1>1 DEF CheckEvent, PublishTaskCreated, IdlesOut, workervars, servicevars, history
<1>2. ASSUME NEW w \in Worker, NEW e \in Entry, ReadGroup(w, e) \/ ReclaimStale(w, e) PROVE FlagsOK'
    BY <1>2 DEF ReadGroup, ReclaimStale, servicevars, history
<1>3. ASSUME NEW w \in Worker, HeartbeatOnce(w) \/ Shutdown(w) \/ Restart(w) \/ WorkerCrash(w)
      PROVE FlagsOK'
    BY <1>3 DEF HeartbeatOnce, Shutdown, Restart, WorkerCrash, streamvars, workervars,
       servicevars, history
<1>4. ASSUME NEW j \in Job, JobStep(j) PROVE FlagsOK'
    BY <1>4 DEF JobStep, HandleEntry, EnterPool, TakeLease, Recheck, Attempt, RecordOutcome,
       Report, AckEntry,
                streamvars, servicevars, history
<1>5. ASSUME NEW j \in Job, CallStep(j) \/ CallTimeout(j) PROVE FlagsOK'
  <2>1. CASE LoadTask(j) \/ CallTimeout(j)
    BY <2>1 DEF LoadTask, CallTimeout, streamvars, servicevars, history
  <2>2. CASE ReserveSignal(j)
    BY <2>2, JobParts DEF ReserveSignal, streamvars
  <2>3. CASE AssignActor(j)
    BY <2>3, JobParts DEF AssignActor, ReleaseSignalReservation, streamvars, history
  <2>4. CASE SignalWorkflow(j)
    BY <2>4, JobParts DEF SignalWorkflow, ReleaseSignalReservation, streamvars
  <2> QED
    BY <1>5, <2>1, <2>2, <2>3, <2>4 DEF CallStep
<1>6. ASSUME NEW t \in Task, LeaseExpires(t) \/ ReservationExpires(t) \/ TaskCloses(t) \/ InstanceEnds(t)
      PROVE FlagsOK'
    BY <1>6 DEF LeaseExpires, ReservationExpires, TaskCloses, InstanceEnds, streamvars,
       workervars, servicevars, history
<1>7. CASE ServiceCrash \/ UNCHANGED vars
    BY <1>7 DEF ServiceCrash, vars, streamvars, workervars, servicevars, history
<1> QED
    BY <1>1, <1>2, <1>3, <1>4, <1>5, <1>6, <1>7 DEF Next
\* Every step is at most one fault.
LEMMA FaultsType == TypeOK /\ [Next]_vars => FaultsOK'
<1> SUFFICES ASSUME TypeOK, [Next]_vars PROVE Fault \/ NoFault
    BY DispatchAssumption DEF TypeOK, FaultsOK, Fault, NoFault
<1>0. CASE UNCHANGED faults
    BY <1>0 DEF NoFault
<1>1. ASSUME NEW e \in Entry, CheckEvent(e) \/ PublishTaskCreated(e) \/ IdlesOut(e)
      PROVE Fault \/ NoFault
    BY <1>0, <1>1 DEF CheckEvent, PublishTaskCreated, IdlesOut
<1>2. ASSUME NEW w \in Worker, NEW e \in Entry, ReadGroup(w, e) \/ ReclaimStale(w, e)
      PROVE Fault \/ NoFault
    BY <1>0, <1>2 DEF ReadGroup, ReclaimStale
<1>3. ASSUME NEW w \in Worker, HeartbeatOnce(w) \/ Shutdown(w) \/ Restart(w) \/ WorkerCrash(w)
      PROVE Fault \/ NoFault
    BY <1>0, <1>3 DEF HeartbeatOnce, Shutdown, Restart, WorkerCrash
<1>4. ASSUME NEW j \in Job, HandleEntry(j) \/ AckEntry(j) PROVE Fault \/ NoFault
    BY <1>0, <1>4 DEF HandleEntry, AckEntry, LeavesStream
<1>5. ASSUME NEW j \in Job, JobStep(j), ~HandleEntry(j), ~AckEntry(j) PROVE Fault \/ NoFault
    BY <1>0, <1>5 DEF JobStep, EnterPool, TakeLease, Recheck, Attempt, RecordOutcome, Report
<1>6. ASSUME NEW j \in Job, CallStep(j) \/ CallTimeout(j) PROVE Fault \/ NoFault
    BY <1>6 DEF CallStep, LoadTask, ReserveSignal, AssignActor, SignalWorkflow,
       PrincipalFails, CallTimeout
<1>7. ASSUME NEW t \in Task, LeaseExpires(t) \/ ReservationExpires(t) \/ TaskCloses(t) \/ InstanceEnds(t)
      PROVE  Fault \/ NoFault
    BY <1>0, <1>7 DEF LeaseExpires, ReservationExpires, TaskCloses, InstanceEnds
<1>8. CASE ServiceCrash \/ UNCHANGED vars
    BY <1>0, <1>8 DEF ServiceCrash, vars
<1> QED
    BY <1>1, <1>2, <1>3, <1>4, <1>5, <1>6, <1>7, <1>8 DEF Next

\* Leases, outcomes and counts keep their types; a verdict that is
\* recorded or signalled is one that was carried.
LEMMA LedgerType == TypeOK /\ VerdictsCarried /\ [Next]_vars => LedgerOK'
<1> SUFFICES ASSUME TypeOK, VerdictsCarried, [Next]_vars PROVE LedgerOK'
    OBVIOUS
<1>a. LedgerOK
    BY DEF TypeOK
<1>0. CASE UNCHANGED <<lease, outcome, runs, lost, outlived, sent, signals>>
    BY <1>0, <1>a DEF LedgerOK
<1>1. ASSUME NEW e \in Entry, CheckEvent(e) \/ PublishTaskCreated(e) \/ IdlesOut(e) PROVE LedgerOK'
    BY <1>0, <1>1 DEF CheckEvent, PublishTaskCreated, IdlesOut, workervars, history
<1>2. ASSUME NEW w \in Worker, NEW e \in Entry, ReadGroup(w, e) \/ ReclaimStale(w, e) PROVE LedgerOK'
    BY <1>0, <1>2 DEF ReadGroup, ReclaimStale, history
<1>3. ASSUME NEW w \in Worker, HeartbeatOnce(w) \/ Shutdown(w) \/ Restart(w) PROVE LedgerOK'
    BY <1>0, <1>3 DEF HeartbeatOnce, Shutdown, Restart, workervars, history
<1>4. ASSUME NEW w \in Worker, WorkerCrash(w) PROVE LedgerOK'
  <2>1. ASSUME NEW S \in SUBSET Entry PROVE Cardinality(S) \in Nat
    BY DispatchAssumption, FS_Subset, FS_CardinalityType
  <2>2. ASSUME NEW t \in Task
        PROVE  Cardinality({e \in Entry : TaskOf[e] = t /\ job[<<w, e>>].pc \in Running}) \in Nat
    BY <2>1
  <2>3. lost' = [t \in Task |-> lost[t] + Cardinality({e \in Entry : TaskOf[e] = t /\ job[<<w, e>>].pc \in Running})]
    BY <1>4 DEF WorkerCrash
  <2>4. lost' \in [Task -> Nat]
    BY <1>a, <2>2, <2>3 DEF LedgerOK
  <2> QED
    BY <1>4, <1>a, <2>4 DEF WorkerCrash, LedgerOK
<1>5. ASSUME NEW j \in Job, JobStep(j) PROVE LedgerOK'
  <2>1. CASE HandleEntry(j) \/ AckEntry(j) \/ EnterPool(j) \/ Attempt(j) \/ Report(j)
    BY <1>0, <2>1 DEF HandleEntry, AckEntry, EnterPool, Attempt, Report, history
  <2>2. CASE TakeLease(j)
    <3>1. lease' \in [Task -> Job \cup {None}]
        BY <1>a, <2>2, JobParts DEF TakeLease, LedgerOK
    <3> QED
        BY <1>a, <2>2, <3>1 DEF TakeLease, LedgerOK, history
  <2>3. CASE Recheck(j)
    <3>1. runs' \in [Task -> Nat] /\ outlived' \in [Task -> Nat]
        BY <1>a, <2>3 DEF Recheck, Outlives, LedgerOK
    <3> QED
        BY <1>a, <2>3, <3>1 DEF Recheck, LedgerOK
  <2>4. CASE RecordOutcome(j)
    <3>1. job[j].verdict \in Verdicts
        BY <2>4 DEF RecordOutcome, VerdictsCarried
    <3>2. outcome' \in [Task -> Verdicts \cup {None}]
        BY <1>a, <2>4, <3>1 DEF RecordOutcome, LedgerOK
    <3>3. lost' \in [Task -> Nat]
        BY <1>a, <2>4 DEF RecordOutcome, LedgerOK
    <3> QED
        BY <1>a, <2>4, <3>2, <3>3 DEF RecordOutcome, LedgerOK
  <2> QED
    BY <1>5, <2>1, <2>2, <2>3, <2>4 DEF JobStep
<1>6. ASSUME NEW j \in Job, CallStep(j) \/ CallTimeout(j) PROVE LedgerOK'
  <2>1. CASE LoadTask(j) \/ CallTimeout(j) \/ ReserveSignal(j) \/ AssignActor(j)
    BY <1>0, <2>1 DEF LoadTask, CallTimeout, ReserveSignal, AssignActor, history
  <2>2. CASE SignalWorkflow(j)
    <3>1. UNCHANGED <<lease, outcome, runs, lost, outlived>>
        BY <2>2 DEF SignalWorkflow
    <3>2. CASE Signalled(j)
        <4>1. call[j].verdict \in Verdicts
            BY <2>2 DEF SignalWorkflow, VerdictsCarried
        <4>2. sent' \in [Task -> SUBSET Verdicts]
            BY <1>a, <3>2, <4>1, JobParts DEF Signalled, LedgerOK
        <4>3. signals' \in [Task -> 0..2]
            BY <1>a, <3>2, JobParts DEF Signalled, LedgerOK
        <4> QED
            BY <1>a, <3>1, <4>2, <4>3 DEF LedgerOK
    <3> QED
        BY <1>0, <2>2, <3>1, <3>2 DEF SignalWorkflow
  <2> QED
    BY <1>6, <2>1, <2>2 DEF CallStep
<1>7. ASSUME NEW t \in Task, LeaseExpires(t) PROVE LedgerOK'
  <2>1. outlived' \in [Task -> Nat]
    BY <1>7, <1>a DEF LeaseExpires, Outlives, LedgerOK
  <2> QED
    BY <1>7, <1>a, <2>1 DEF LeaseExpires, LedgerOK
<1>8. ASSUME NEW t \in Task, ReservationExpires(t) \/ TaskCloses(t) \/ InstanceEnds(t) PROVE LedgerOK'
    BY <1>0, <1>8 DEF ReservationExpires, TaskCloses, InstanceEnds, workervars, history
<1>9. CASE ServiceCrash \/ UNCHANGED vars
    BY <1>0, <1>9 DEF ServiceCrash, vars, workervars, history
<1> QED
    BY <1>1, <1>2, <1>3, <1>4, <1>5, <1>6, <1>7, <1>8, <1>9 DEF Next

\* Whoever has a result goes on carrying it (runJob, report, Complete).
LEMMA VerdictsStep == TypeOK /\ VerdictsCarried /\ [Next]_vars => VerdictsCarried'
<1> SUFFICES ASSUME TypeOK, VerdictsCarried, [Next]_vars PROVE VerdictsCarried'
    OBVIOUS
<1> USE DEF VerdictsCarried
<1>0. CASE UNCHANGED <<job, call>>
    BY <1>0
<1>a. JobOK /\ CallOK /\ LedgerOK
    BY DEF TypeOK
<1>l. ASSUME NEW j \in Job, Leave(j), UNCHANGED call PROVE VerdictsCarried'
    BY <1>a, <1>l DEF Leave, NoJob, JobOK
<1>1. ASSUME NEW e \in Entry, CheckEvent(e) \/ PublishTaskCreated(e) \/ IdlesOut(e)
      PROVE VerdictsCarried'
    BY <1>0, <1>1 DEF CheckEvent, PublishTaskCreated, IdlesOut, workervars, servicevars
<1>2. ASSUME NEW w \in Worker, NEW e \in Entry, ReadGroup(w, e) \/ ReclaimStale(w, e)
      PROVE VerdictsCarried'
  <2>1. ASSUME NEW n, Claimed(<<w, e>>, n), UNCHANGED call PROVE VerdictsCarried'
    BY <1>a, <2>1, JobPair DEF Claimed, NoJob, JobOK
  <2> QED
    BY <1>0, <1>2, <2>1 DEF ReadGroup, ReclaimStale, servicevars
<1>3. ASSUME NEW w \in Worker, HeartbeatOnce(w) \/ Shutdown(w) \/ Restart(w) PROVE VerdictsCarried'
    BY <1>0, <1>3 DEF HeartbeatOnce, Shutdown, Restart, workervars, servicevars
<1>4. ASSUME NEW w \in Worker, WorkerCrash(w) PROVE VerdictsCarried'
    BY <1>4, <1>a DEF WorkerCrash, NoJob, JobOK, servicevars
<1>5. ASSUME NEW j \in Job, JobStep(j) PROVE VerdictsCarried'
  <2>0. outcome[T(j)] \in Verdicts \cup {None} /\ job[j] \in JobRecord
    BY <1>a, JobParts DEF LedgerOK, JobOK
  <2>1. CASE HandleEntry(j)
    <3>1. ASSUME NEW p, NEW v \in Verdicts, UNCHANGED call,
                 job' = [job EXCEPT ![j] = [NoJob EXCEPT !.pc = p, !.verdict = v]]
          PROVE  VerdictsCarried'
        BY <1>a, <3>1 DEF NoJob, JobOK
    <3>2. CASE UNCHANGED call /\ job' = [job EXCEPT ![j] = [NoJob EXCEPT !.pc = "waiting"]]
        BY <1>a, <3>2 DEF NoJob, JobOK
    <3>3. outcome[T(j)] # None => outcome[T(j)] \in Verdicts
        BY <2>0
    <3> QED
        BY <1>l, <2>1, <3>1, <3>2, <3>3 DEF HandleEntry, LeavesStream, servicevars, Verdicts
  <2>2. CASE EnterPool(j)
    BY <1>a, <2>2 DEF EnterPool, Goto, JobOK, JobRecord, servicevars
  <2>3. CASE TakeLease(j)
    <3>1. CASE UNCHANGED call /\ job' = [job EXCEPT ![j].pc = "leased", ![j].due = TRUE]
        BY <1>a, <3>1 DEF JobOK, JobRecord
    <3> QED
        BY <1>l, <2>3, <3>1 DEF TakeLease, servicevars
  <2>4. CASE Recheck(j)
    <3>1. CASE UNCHANGED call /\ outcome[T(j)] # None /\ job' = [job EXCEPT ![j].pc = "report", ![j].verdict = outcome[T(j)]]
        BY <1>a, <2>0, <3>1 DEF JobOK, JobRecord
    <3>2. CASE UNCHANGED call /\ job' = [job EXCEPT ![j].pc = "running", ![j].attempt = 1]
        BY <1>a, <3>2 DEF JobOK, JobRecord
    <3> QED
        BY <1>l, <2>4, <3>1, <3>2 DEF Recheck, servicevars
  <2>5. CASE Attempt(j)
    <3>1. ASSUME NEW v \in Verdicts, UNCHANGED call, Executed(j, v) PROVE VerdictsCarried'
        BY <1>a, <3>1 DEF Executed, JobOK, JobRecord
    <3>2. CASE UNCHANGED call /\ job' = [job EXCEPT ![j].attempt = @ + 1]
        BY <1>a, <3>2 DEF JobOK, JobRecord
    <3> QED
        BY <2>5, <3>1, <3>2 DEF Attempt, servicevars
  <2>6. CASE RecordOutcome(j)
    <3>1. UNCHANGED call /\ Goto(j, "report") /\ job[j].pc = "executed"
        BY <2>6 DEF RecordOutcome, servicevars
    <3> QED
        BY <1>a, <3>1 DEF Goto, JobOK, JobRecord
  <2>7. CASE Report(j)
    <3>1. CASE Posted(j) /\ Goto(j, "posted") /\ job[j].pc \in {"report", "resend"}
        BY <1>a, <3>1 DEF Posted, Goto, JobOK, JobRecord, CallOK, CallRecord
    <3> QED
        BY <1>l, <2>7, <3>1 DEF Report
  <2>8. CASE AckEntry(j)
    BY <1>l, <2>8 DEF AckEntry, LeavesStream, servicevars
  <2> QED
    BY <1>5, <2>1, <2>2, <2>3, <2>4, <2>5, <2>6, <2>7, <2>8 DEF JobStep
<1>6. ASSUME NEW j \in Job, CallStep(j) PROVE VerdictsCarried'
  <2>1. ASSUME NEW ok, Answer(j, ok) PROVE VerdictsCarried'
    BY <1>a, <2>1 DEF Answer, Goto, Leave, NoJob, NoCall, JobOK, JobRecord, CallOK, CallRecord
  <2>2. ASSUME NEW at, call[j].at # "none", call' = [call EXCEPT ![j].at = at], UNCHANGED job
        PROVE VerdictsCarried'
    BY <1>a, <2>2 DEF CallOK, CallRecord
  <2> QED
    BY <1>6, <2>1, <2>2 DEF CallStep, LoadTask, ReserveSignal, AssignActor, SignalWorkflow,
       PrincipalFails
<1>7. ASSUME NEW j \in Job, CallTimeout(j) PROVE VerdictsCarried'
    BY <1>l, <1>7 DEF CallTimeout, servicevars
<1>8. ASSUME NEW t \in Task, LeaseExpires(t) \/ ReservationExpires(t) \/ TaskCloses(t) \/ InstanceEnds(t)
      PROVE VerdictsCarried'
    BY <1>0, <1>8 DEF LeaseExpires, ReservationExpires, TaskCloses, InstanceEnds, workervars, servicevars
<1>9. CASE ServiceCrash
    BY <1>9, <1>a DEF ServiceCrash, NoJob, NoCall, JobOK, CallOK
<1>10. CASE UNCHANGED vars
    BY <1>0, <1>10 DEF vars, workervars, servicevars
<1> QED
    BY <1>1, <1>2, <1>3, <1>4, <1>5, <1>6, <1>7, <1>8, <1>9, <1>10 DEF Next

\* Every reachable state satisfies TypeInv.
LEMMA TypeInvariant == Spec => []TypeInv
<1>1. Init => TypeInv
    BY TypeInit DEF TypeInv, VerdictsCarried, Init, NoJob, NoCall
<1>2. TypeInv /\ [Next]_vars => TypeInv'
    BY EntryType, JobType, CallType, FlagsType, LedgerType, FaultsType, VerdictsStep DEF TypeOK, TypeInv
<1> QED
    BY <1>1, <1>2, PTL DEF Spec

\* Every reachable state is type-correct, for every number of workers,
\* entries and tasks: delivery counts stop one past the cap (ReclaimStale),
\* attempts at MaxAttempts (executeWithRetry), and only verdicts are signalled.
THEOREM DispatchTypeCorrect == Spec => []TypeOK
BY TypeInvariant, PTL DEF TypeInv

-----------------------------------------------------------------------------
(***************************************************************************)
(* One run of the connector.                                               *)
(***************************************************************************)
\* An entry is in a worker only after it was delivered (inflightSet.claim).
LEMMA UndeliveredStep == TypeInv /\ UndeliveredUnclaimed /\ [Next]_vars => UndeliveredUnclaimed'
<1> SUFFICES ASSUME TypeInv, UndeliveredUnclaimed, [Next]_vars PROVE UndeliveredUnclaimed'
    OBVIOUS
<1> DEFINE Early == {"none", "checked", "new"}
<1>a. EntryOK /\ JobOK
    BY DEF TypeInv, TypeOK
<1>b. CASE /\ \A e \in Entry : entry'[e].at \in Early => entry[e].at \in Early
           /\ \A k \in Job : job[k].pc = "idle" => job'[k].pc = "idle"
    BY <1>b, JobPair DEF UndeliveredUnclaimed
<1>j. ASSUME NEW j \in Job, job[j].pc # "idle", NEW r, job' = [job EXCEPT ![j] = r]
      PROVE  \A k \in Job : job[k].pc = "idle" => job'[k].pc = "idle"
    BY <1>j, <1>a DEF JobOK
<1>1. ASSUME NEW e \in Entry, CheckEvent(e) \/ PublishTaskCreated(e) \/ IdlesOut(e)
      PROVE UndeliveredUnclaimed'
    BY <1>1, <1>a, <1>b DEF CheckEvent, PublishTaskCreated, Published, IdlesOut, workervars,
       EntryOK, EntryRecord
<1>2. ASSUME NEW w \in Worker, NEW e \in Entry, ReadGroup(w, e) \/ ReclaimStale(w, e)
      PROVE UndeliveredUnclaimed'
  <2>1. \A f \in Entry : entry'[f].at \in Early => f # e /\ entry[f].at \in Early
    BY <1>2, <1>a DEF ReadGroup, ReclaimStale, Delivered, EntryOK
  <2>2. \A k \in Job : k # <<w, e>> => job'[k] = job[k]
    BY <1>2, <1>a DEF ReadGroup, ReclaimStale, Claimed, JobOK
  <2> QED
    BY <2>1, <2>2, JobPair DEF UndeliveredUnclaimed
<1>3. ASSUME NEW w \in Worker, HeartbeatOnce(w) PROVE UndeliveredUnclaimed'
    BY <1>3, <1>a, <1>b DEF HeartbeatOnce, Touched, workervars, EntryOK, EntryRecord
<1>4. ASSUME NEW w \in Worker, Shutdown(w) \/ Restart(w) PROVE UndeliveredUnclaimed'
    BY <1>4, <1>b DEF Shutdown, Restart, streamvars
<1>5. ASSUME NEW w \in Worker, WorkerCrash(w) PROVE UndeliveredUnclaimed'
    BY <1>5, <1>a, <1>b DEF WorkerCrash, streamvars, NoJob, JobOK
<1>6. ASSUME NEW j \in Job, HandleEntry(j) \/ AckEntry(j) PROVE UndeliveredUnclaimed'
  <2>1. \A k \in Job : job[k].pc = "idle" => job'[k].pc = "idle"
    BY <1>6, <1>j DEF HandleEntry, AckEntry, LeavesStream, Leave
  <2>2. ASSUME NEW at \in {"acked", "dead"}, Removed(j[2], at)
        PROVE \A e \in Entry : entry'[e].at \in Early => entry[e].at \in Early
    BY <1>a, <2>2, JobParts DEF Removed, EntryOK, EntryRecord
  <2> QED
    BY <1>6, <1>b, <2>1, <2>2 DEF HandleEntry, AckEntry, LeavesStream
<1>7. ASSUME NEW j \in Job, JobStep(j), ~HandleEntry(j), ~AckEntry(j) PROVE UndeliveredUnclaimed'
  <2>1. \A k \in Job : job[k].pc = "idle" => job'[k].pc = "idle"
    <3>1. job[j].pc # "idle"
        BY <1>7 DEF JobStep, EnterPool, TakeLease, Recheck, Attempt, RecordOutcome, Report
    <3>2. \A k \in Job : k # j => job'[k] = job[k]
        BY <1>7, <1>a DEF JobStep, EnterPool, TakeLease, Recheck, Attempt, Executed,
           RecordOutcome, Report, Goto, Leave, JobOK, JobRecord
    <3> QED
        BY <3>1, <3>2
  <2>2. UNCHANGED entry
    BY <1>7 DEF JobStep, EnterPool, TakeLease, Recheck, Attempt, RecordOutcome, Report, streamvars
  <2> QED
    BY <1>b, <2>1, <2>2
<1>8. ASSUME NEW j \in Job, CallStep(j) \/ CallTimeout(j) PROVE UndeliveredUnclaimed'
  <2>1. ASSUME NEW ok, Answer(j, ok) PROVE \A k \in Job : job[k].pc = "idle" => job'[k].pc = "idle"
    BY <1>a, <2>1 DEF Answer, Goto, Leave, JobOK, JobRecord
  <2>2. \A k \in Job : job[k].pc = "idle" => job'[k].pc = "idle"
    BY <1>8, <1>j, <2>1 DEF CallStep, LoadTask, ReserveSignal, AssignActor, SignalWorkflow,
       PrincipalFails, CallTimeout, Leave
  <2>3. UNCHANGED entry
    BY <1>8 DEF CallStep, LoadTask, ReserveSignal, AssignActor, SignalWorkflow, CallTimeout, streamvars
  <2> QED
    BY <1>b, <2>2, <2>3
<1>9. ASSUME NEW t \in Task, LeaseExpires(t) \/ ReservationExpires(t) \/ TaskCloses(t) \/ InstanceEnds(t)
      PROVE UndeliveredUnclaimed'
    BY <1>9, <1>b DEF LeaseExpires, ReservationExpires, TaskCloses, InstanceEnds, streamvars, workervars
<1>10. CASE ServiceCrash
    BY <1>10, <1>a, <1>b DEF ServiceCrash, NoJob, JobOK, streamvars
<1>11. CASE UNCHANGED vars
    BY <1>11, <1>b DEF vars, streamvars, workervars
<1> QED
    BY <1>1, <1>2, <1>3, <1>4, <1>5, <1>6, <1>7, <1>8, <1>9, <1>10, <1>11 DEF Next
\* Every step keeps RunInv.  The steps that matter take a lease, start a
\* run, record it, lose it in a crash, or let a lease expire.
LEMMA RunStep == TypeInv /\ RunInv /\ [Next]_vars => RunInv'
<1> SUFFICES ASSUME TypeInv, RunInv, [Next]_vars PROVE RunsUnderLease' /\ RunsUnrecorded' /\ RunsAccounted'
    BY UndeliveredStep DEF RunInv
<1> DEFINE Good == RunsUnderLease /\ RunsUnrecorded /\ RunsAccounted
<1> DEFINE Same(k) == job'[k].pc \in Running <=> job[k].pc \in Running
<1> DEFINE Accounted(t) ==
      /\ runs[t] <= 1 + lost[t] + outlived[t]
      /\ outcome[t] = None /\ ~LeasedRun(t) => runs[t] <= lost[t] + outlived[t]
<1>a. EntryOK /\ JobOK /\ LedgerOK /\ VerdictsCarried /\ Good /\ UndeliveredUnclaimed
    BY DEF TypeInv, TypeOK, RunInv
<1>n. \A t \in Task : runs[t] \in Nat /\ lost[t] \in Nat /\ outlived[t] \in Nat
    BY <1>a DEF LedgerOK
<1>u. \A j, k \in Job :
        T(j) = T(k) /\ outlived[T(j)] = 0 /\ {job[j].pc, job[k].pc} \subseteq Running => j = k
    BY <1>a DEF RunsUnderLease
<1>c. ASSUME UNCHANGED <<lease, outcome, runs, lost, outlived>>, \A k \in Job : Same(k) PROVE Good'
  <2>1. RunsUnderLease'
    BY <1>c, <1>a DEF RunsUnderLease, T
  <2>2. RunsUnrecorded'
    BY <1>c, <1>a DEF RunsUnrecorded, T
  <2>3. RunsAccounted'
    BY <1>c, <1>a DEF RunsAccounted, LeasedRun, T
  <2> QED
    BY <2>1, <2>2, <2>3
<1>o. ASSUME NEW j \in Job, NEW r, job' = [job EXCEPT ![j] = r], r.pc \notin Running, job[j].pc \notin Running
      PROVE  \A k \in Job : Same(k)
    BY <1>o, <1>a DEF JobOK
<1>l. ASSUME NEW j \in Job, Leave(j), job[j].pc \notin Running PROVE \A k \in Job : Same(k)
    BY <1>l, <1>o DEF Leave, NoJob, Running
<1>1. ASSUME NEW e \in Entry, CheckEvent(e) \/ PublishTaskCreated(e) \/ IdlesOut(e) PROVE Good'
    BY <1>1, <1>c DEF CheckEvent, PublishTaskCreated, IdlesOut, workervars, history
<1>2. ASSUME NEW w \in Worker, NEW e \in Entry, ReadGroup(w, e) \/ ReclaimStale(w, e) PROVE Good'
  <2>1. ASSUME NEW n, Claimed(<<w, e>>, n), job[<<w, e>>].pc = "idle" PROVE \A k \in Job : Same(k)
    BY <2>1, <1>a, JobPair DEF Claimed, NoJob, Running, JobOK
  <2>2. ReadGroup(w, e) => job[<<w, e>>].pc = "idle"
    BY <1>a DEF ReadGroup, UndeliveredUnclaimed
  <2> QED
    BY <1>2, <1>c, <2>1, <2>2 DEF ReadGroup, ReclaimStale, history
<1>3. ASSUME NEW w \in Worker, HeartbeatOnce(w) \/ Shutdown(w) \/ Restart(w) PROVE Good'
    BY <1>3, <1>c DEF HeartbeatOnce, Shutdown, Restart, workervars, history
<1>4. ASSUME NEW w \in Worker, WorkerCrash(w) PROVE Good'
  <2> DEFINE S(t) == {e \in Entry : TaskOf[e] = t /\ job[<<w, e>>].pc \in Running}
  <2>1. /\ UNCHANGED <<lease, outcome, runs, outlived>>
        /\ job' = [j \in Job |-> IF j[1] = w THEN NoJob ELSE job[j]]
        /\ lost' = [t \in Task |-> lost[t] + Cardinality(S(t))]
    BY <1>4 DEF WorkerCrash
  <2>2. \A k \in Job : IF k[1] = w THEN job'[k].pc = "idle" ELSE job'[k] = job[k]
    BY <2>1 DEF NoJob
  <2>3. RunsUnderLease' /\ RunsUnrecorded'
    BY <1>a, <2>1, <2>2 DEF RunsUnderLease, RunsUnrecorded, T, Running
  <2>4. ASSUME NEW t \in Task PROVE Accounted(t)'
    <3>1. IsFiniteSet(S(t)) /\ Cardinality(S(t)) \in Nat
        BY DispatchAssumption, FS_Subset, FS_CardinalityType
    <3>2. lost'[t] = lost[t] + Cardinality(S(t)) /\ runs'[t] = runs[t] /\ outlived'[t] = outlived[t]
        BY <2>1
    <3>3. Accounted(t)
        BY <1>a DEF RunsAccounted
    <3>4. CASE S(t) # {}
        <4>1. Cardinality(S(t)) # 0
            BY <3>1, <3>4, FS_EmptySet
        <4> QED
            BY <1>n, <3>1, <3>2, <3>3, <4>1
    <3>5. CASE S(t) = {}
        <4>1. ASSUME NEW k \in Job, T(k) = t, job[k].pc \in Running PROVE job'[k] = job[k]
            BY <2>2, <3>5, <4>1, JobParts DEF T
        <4>2. LeasedRun(t) => LeasedRun(t)'
            BY <2>1, <4>1 DEF LeasedRun, T
        <4> QED
            BY <1>n, <2>1, <3>1, <3>2, <3>3, <4>2
    <3> QED
        BY <3>4, <3>5
  <2> QED
    BY <2>3, <2>4 DEF RunsAccounted
<1>5. ASSUME NEW j \in Job, HandleEntry(j) \/ AckEntry(j) PROVE Good'
  <2>1. job[j].pc \notin Running
    BY <1>5 DEF HandleEntry, AckEntry, Running
  <2>2. ASSUME NEW p \in {"resend", "waiting"}, NEW v, job' = [job EXCEPT ![j] = [NoJob EXCEPT !.pc = p, !.verdict = v]]
        PROVE  \A k \in Job : Same(k)
    BY <1>o, <2>1, <2>2 DEF NoJob, Running
  <2>3. CASE job' = [job EXCEPT ![j] = [NoJob EXCEPT !.pc = "waiting"]]
    BY <1>o, <2>1, <2>3, <1>c, <1>5 DEF NoJob, Running, HandleEntry, AckEntry, history
  <2> QED
    BY <1>5, <1>c, <1>l, <2>1, <2>2, <2>3 DEF HandleEntry, AckEntry, LeavesStream, history
<1>6. ASSUME NEW j \in Job, EnterPool(j) PROVE Good'
  <2>1. \A k \in Job : Same(k)
    BY <1>6, <1>a DEF EnterPool, Goto, JobOK, JobRecord, Running
  <2> QED
    BY <1>6, <1>c, <2>1 DEF EnterPool, history
<1>7. ASSUME NEW j \in Job, TakeLease(j) PROVE Good'
  <2>1. CASE Leave(j) /\ UNCHANGED lease
    BY <1>7, <1>c, <1>l, <2>1 DEF TakeLease, history, Running
  <2>2. CASE ~(Leave(j) /\ UNCHANGED lease)
    <3>1. /\ lease[T(j)] = None /\ lease' = [lease EXCEPT ![T(j)] = j]
          /\ job' = [job EXCEPT ![j].pc = "leased", ![j].due = TRUE]
          /\ job[j].pc = "entered"
          /\ UNCHANGED <<outcome, runs, lost, outlived>>
        BY <1>7, <2>2 DEF TakeLease, history
    <3>2. \A k \in Job : k # j => job'[k] = job[k]
        BY <3>1, <1>a DEF JobOK
    <3>3. job'[j].pc = "leased"
        BY <3>1, <1>a DEF JobOK, JobRecord
    <3>4. \A k \in Job : Same(k)
        BY <3>1, <3>2, <3>3 DEF Running
    <3>5. \A k \in Job : T(k) = T(j) => lease[T(j)] # k
        BY <3>1, DispatchAssumption
    <3>6. RunsUnderLease'
        BY <1>a, <3>1, <3>4, <3>5, JobParts DEF RunsUnderLease, T, LedgerOK
    <3>7. RunsUnrecorded'
        BY <1>a, <3>1, <3>4 DEF RunsUnrecorded, T
    <3>8. ASSUME NEW t \in Task, LeasedRun(t) PROVE LeasedRun(t)'
        BY <1>a, <3>1, <3>4, <3>5, <3>8 DEF LeasedRun, T, LedgerOK
    <3>9. RunsAccounted'
        BY <1>a, <3>1, <3>8 DEF RunsAccounted
    <3> QED
        BY <3>6, <3>7, <3>9
  <2> QED
    BY <2>1, <2>2
<1>8. ASSUME NEW j \in Job, Recheck(j) PROVE Good'
  <2>0. job[j].pc = "leased" /\ T(j) \in Task
    BY <1>8, JobParts DEF Recheck
  <2>1. CASE Leave(j) /\ UNCHANGED <<runs, outlived>>
    BY <1>8, <1>c, <1>l, <2>0, <2>1 DEF Recheck, Running
  <2>2. CASE job' = [job EXCEPT ![j].pc = "report", ![j].verdict = outcome[T(j)]] /\ UNCHANGED <<runs, outlived>>
    <3>1. \A k \in Job : Same(k)
        BY <1>a, <2>0, <2>2 DEF JobOK, JobRecord, Running
    <3> QED
        BY <1>8, <1>c, <2>2, <3>1 DEF Recheck
  <2>3. CASE /\ outcome[T(j)] = None
             /\ job' = [job EXCEPT ![j].pc = "running", ![j].attempt = 1]
             /\ runs' = [runs EXCEPT ![T(j)] = @ + 1]
             /\ IF lease[T(j)] = j THEN UNCHANGED outlived ELSE Outlives(T(j))
    <3>1. UNCHANGED <<lease, outcome, lost>>
        BY <1>8 DEF Recheck
    <3>2. (\A k \in Job : k # j => job'[k] = job[k]) /\ job'[j].pc = "running" /\ job'[j].pc \in Running
        BY <1>a, <2>3 DEF JobOK, JobRecord, Running
    <3>3. /\ \A t \in Task : t # T(j) => runs'[t] = runs[t] /\ outlived'[t] = outlived[t]
          /\ runs'[T(j)] = runs[T(j)] + 1
          /\ lease[T(j)] = j => outlived'[T(j)] = outlived[T(j)]
          /\ lease[T(j)] # j => outlived'[T(j)] = outlived[T(j)] + 1
        BY <1>a, <2>0, <2>3 DEF LedgerOK, Outlives
    <3>4. \A t \in Task : outlived'[t] = 0 => outlived[t] = 0 /\ (t = T(j) => lease[t] = j)
        BY <1>n, <3>3
    <3>5. RunsUnderLease' /\ RunsUnrecorded'
        BY <1>a, <2>0, <2>3, <3>1, <3>2, <3>4, JobParts DEF RunsUnderLease, RunsUnrecorded, T
    <3>6. ASSUME NEW t \in Task PROVE Accounted(t)'
        <4>1. Accounted(t)
            BY <1>a DEF RunsAccounted
        <4>2. CASE t = T(j) /\ lease[t] = j
            <5>1. ~LeasedRun(t) /\ LeasedRun(t)'
                BY <2>0, <3>1, <3>2, <4>2 DEF LeasedRun, T, Running
            <5> QED
                BY <1>n, <2>3, <3>1, <3>3, <4>1, <4>2, <5>1
        <4>3. CASE t = T(j) /\ lease[t] # j
            <5>1. LeasedRun(t) => LeasedRun(t)'
                BY <3>1, <3>2, <4>3 DEF LeasedRun, T
            <5> QED
                BY <1>n, <3>1, <3>3, <4>1, <4>3, <5>1
        <4>4. CASE t # T(j)
            <5>1. LeasedRun(t) => LeasedRun(t)'
                BY <3>1, <3>2, <4>4 DEF LeasedRun, T
            <5> QED
                BY <3>1, <3>3, <4>1, <4>4, <5>1
        <4> QED
            BY <4>2, <4>3, <4>4
    <3> QED
        BY <3>5, <3>6 DEF RunsAccounted
  <2> QED
    BY <1>8, <2>1, <2>2, <2>3 DEF Recheck
<1>9. ASSUME NEW j \in Job, Attempt(j) PROVE Good'
  <2>1. \A k \in Job : Same(k)
    BY <1>9, <1>a DEF Attempt, Executed, JobOK, JobRecord, Running
  <2> QED
    BY <1>9, <1>c, <2>1 DEF Attempt, history
<1>10. ASSUME NEW j \in Job, RecordOutcome(j) PROVE Good'
  <2>1. /\ job[j].pc = "executed" /\ UNCHANGED <<lease, runs, outlived>> /\ T(j) \in Task
        /\ (\A k \in Job : k # j => job'[k] = job[k]) /\ job'[j].pc \notin Running
    BY <1>10, <1>a, JobParts DEF RecordOutcome, Goto, JobOK, JobRecord, Running
  <2>2. \A k \in Job : T(k) = T(j) /\ outlived[T(j)] = 0 => job'[k].pc \notin Running
    BY <1>u, <2>1 DEF Running
  <2>3. RunsUnderLease'
    BY <1>a, <2>1 DEF RunsUnderLease, T
  <2>4. job[j].verdict \in Verdicts /\ job[j].verdict # None
    BY <1>a, <2>1, DispatchAssumption DEF VerdictsCarried
  <2>5. \A t \in Task : t # T(j) => outcome'[t] = outcome[t] /\ lost'[t] = lost[t]
    BY <1>10, <1>a DEF RecordOutcome, LedgerOK
  <2>6. \/ outcome'[T(j)] # None /\ lost'[T(j)] = lost[T(j)]
        \/ lost'[T(j)] = lost[T(j)] + 1
    BY <1>10, <1>a, <2>1, <2>4 DEF RecordOutcome, LedgerOK
  <2>7. RunsUnrecorded'
    <3> SUFFICES ASSUME NEW k \in Job, job'[k].pc \in Running, outlived[T(k)] = 0 PROVE outcome'[T(k)] = None
        BY <2>1 DEF RunsUnrecorded, T
    <3>1. T(k) # T(j) /\ k # j /\ T(k) \in Task
        BY <2>2, JobParts
    <3> QED
        BY <1>a, <2>1, <2>5, <3>1 DEF RunsUnrecorded
  <2>8. ASSUME NEW t \in Task PROVE Accounted(t)'
    <3>1. Accounted(t) /\ runs'[t] = runs[t] /\ outlived'[t] = outlived[t]
        BY <1>a, <2>1 DEF RunsAccounted
    <3>2. CASE t = T(j)
        BY <1>n, <2>6, <3>1, <3>2
    <3>3. CASE t # T(j)
        <4>1. LeasedRun(t) => LeasedRun(t)'
            BY <2>1, <3>3 DEF LeasedRun, T
        <4> QED
            BY <2>5, <3>1, <3>3, <4>1
    <3> QED
        BY <3>2, <3>3
  <2> QED
    BY <2>3, <2>7, <2>8 DEF RunsAccounted
<1>11. ASSUME NEW j \in Job, Report(j) PROVE Good'
  <2>1. job[j].pc \notin Running
    BY <1>11 DEF Report, Running
  <2>2. CASE Goto(j, "posted")
    <3>1. \A k \in Job : Same(k)
        BY <1>a, <2>1, <2>2 DEF Goto, JobOK, JobRecord, Running
    <3> QED
        BY <1>11, <1>c, <3>1 DEF Report, history
  <2> QED
    BY <1>11, <1>c, <1>l, <2>1, <2>2 DEF Report, history
<1>12. ASSUME NEW j \in Job, CallStep(j) \/ CallTimeout(j) PROVE Good'
  <2>1. ASSUME NEW ok, Answer(j, ok) PROVE \A k \in Job : Same(k)
    BY <1>a, <2>1 DEF Answer, Goto, Leave, NoJob, JobOK, JobRecord, Running
  <2>2. CallTimeout(j) => Leave(j) /\ job[j].pc \notin Running
    BY DEF CallTimeout, Running
  <2>3. UNCHANGED <<lease, outcome, runs, lost, outlived>>
    BY <1>12 DEF CallStep, LoadTask, ReserveSignal, AssignActor, SignalWorkflow, CallTimeout, history
  <2>4. UNCHANGED job \/ \A k \in Job : Same(k)
    BY <1>12, <1>l, <2>1, <2>2 DEF CallStep, LoadTask, ReserveSignal, AssignActor,
       SignalWorkflow, PrincipalFails
  <2> QED
    BY <1>c, <2>3, <2>4
<1>13. ASSUME NEW t \in Task, LeaseExpires(t) PROVE Good'
  <2>1. lease' = [lease EXCEPT ![t] = None] /\ UNCHANGED <<job, outcome, runs, lost>>
    BY <1>13 DEF LeaseExpires
  <2>2. /\ \A u \in Task : u # t => outlived'[u] = outlived[u]
        /\ job[lease[t]].pc \in Running => outlived'[t] = outlived[t] + 1
        /\ job[lease[t]].pc \notin Running => outlived'[t] = outlived[t]
    BY <1>13, <1>a DEF LeaseExpires, Outlives, LedgerOK
  <2>3. RunsUnderLease' /\ RunsUnrecorded'
    <3> SUFFICES ASSUME NEW k \in Job, job[k].pc \in Running, outlived'[T(k)] = 0
                 PROVE  lease'[T(k)] = k /\ outcome[T(k)] = None
        BY <2>1 DEF RunsUnderLease, RunsUnrecorded, T
    <3>1. outlived[T(k)] = 0 /\ T(k) \in Task
        BY <1>n, <2>2, JobParts
    <3>2. lease[T(k)] = k /\ outcome[T(k)] = None
        BY <1>a, <3>1 DEF RunsUnderLease, RunsUnrecorded
    <3>3. T(k) # t
        BY <1>n, <2>2, <3>1, <3>2
    <3> QED
        BY <1>a, <2>1, <3>1, <3>2, <3>3 DEF LedgerOK
  <2>4. ASSUME NEW u \in Task PROVE Accounted(u)'
    <3>1. Accounted(u)
        BY <1>a DEF RunsAccounted
    <3>2. CASE u = t
        <4>1. LeasedRun(t) => job[lease[t]].pc \in Running
            BY DEF LeasedRun
        <4> QED
            BY <1>n, <2>1, <2>2, <3>1, <3>2, <4>1
    <3>3. CASE u # t
        <4>1. LeasedRun(u) => LeasedRun(u)'
            BY <1>a, <2>1, <3>3 DEF LeasedRun, T, LedgerOK
        <4> QED
            BY <2>1, <2>2, <3>1, <3>3, <4>1
    <3> QED
        BY <3>2, <3>3
  <2> QED
    BY <2>3, <2>4 DEF RunsAccounted
<1>14. ASSUME NEW t \in Task, ReservationExpires(t) \/ TaskCloses(t) \/ InstanceEnds(t) PROVE Good'
    BY <1>14, <1>c DEF ReservationExpires, TaskCloses, InstanceEnds, workervars, history
<1>15. CASE ServiceCrash
  <2>1. \A k \in Job : Same(k)
    BY <1>15, <1>a DEF ServiceCrash, NoJob, JobOK, Running
  <2> QED
    BY <1>15, <1>c, <2>1 DEF ServiceCrash, history
<1>16. CASE UNCHANGED vars
    BY <1>16, <1>c DEF vars, workervars, history
<1> QED
    BY <1>1, <1>2, <1>3, <1>4, <1>5, <1>6, <1>7, <1>8, <1>9, <1>10, <1>11, <1>12, <1>13,
       <1>14, <1>15, <1>16
    DEF Next, JobStep

\* Every reachable state satisfies RunInv.
LEMMA RunInvariant == Spec => []RunInv
<1>1. Init => RunInv
    BY DEF Init, RunInv, UndeliveredUnclaimed, RunsUnderLease, RunsUnrecorded, RunsAccounted,
       NoJob, Running, Job
<1> QED
    BY <1>1, RunStep, TypeInvariant, PTL DEF Spec

\* However many workers and entries a task has, its connector runs again only
\* for a run whose outcome was lost or that was not under its lease to the end:
\* the lease excludes a second run and the record is read again under it (runJob,
\* outcome.go).
THEOREM RunsOnceUnlessLostHolds == Spec => []RunsOnceUnlessLost
<1>1. RunInv => RunsOnceUnlessLost
    BY DEF RunInv, RunsAccounted, RunsOnceUnlessLost
<1> QED
    BY <1>1, RunInvariant, PTL
-----------------------------------------------------------------------------
(***************************************************************************)
(* One signal.                                                             *)
(***************************************************************************)
\* Every step keeps ReservationGuards: a request that fails before its signal
\* may give the reservation back, one that signalled leaves it.
LEMMA ReservationStep == TypeInv /\ ReservationGuards /\ [Next]_vars => ReservationGuards'
<1> SUFFICES ASSUME TypeInv, ReservationGuards, [Next]_vars PROVE ReservationGuards'
    OBVIOUS
<1>a. JobOK /\ CallOK /\ FlagsOK /\ LedgerOK
    BY DEF TypeInv, TypeOK
<1>c. ASSUME UNCHANGED <<reserved, signals, gaveWay>>,
             \A k \in Job : call'[k].at \in Signalling => call[k].at \in Signalling
      PROVE  ReservationGuards'
    BY <1>c DEF ReservationGuards, T
<1>n. ASSUME NEW j \in Job, NEW ok, Answer(j, ok)
      PROVE  (\A k \in Job : k # j => call'[k] = call[k]) /\ call'[j].at \notin Signalling
    BY <1>a, <1>n DEF Answer, NoCall, CallOK, Signalling
<1>m. ASSUME NEW j \in Job, NEW at, call' = [call EXCEPT ![j].at = at]
      PROVE  (\A k \in Job : k # j => call'[k] = call[k]) /\ call'[j].at = at
    BY <1>a, <1>m DEF CallOK, CallRecord
<1>1. ASSUME NEW e \in Entry, CheckEvent(e) \/ PublishTaskCreated(e) \/ IdlesOut(e)
      PROVE ReservationGuards'
    BY <1>1, <1>c DEF CheckEvent, PublishTaskCreated, IdlesOut, servicevars, history
<1>2. ASSUME NEW w \in Worker, NEW e \in Entry, ReadGroup(w, e) \/ ReclaimStale(w, e)
      PROVE ReservationGuards'
    BY <1>2, <1>c DEF ReadGroup, ReclaimStale, servicevars, history
<1>3. ASSUME NEW w \in Worker, HeartbeatOnce(w) \/ Shutdown(w) \/ Restart(w) \/ WorkerCrash(w)
      PROVE ReservationGuards'
    BY <1>3, <1>c DEF HeartbeatOnce, Shutdown, Restart, WorkerCrash, servicevars, history
<1>4. ASSUME NEW j \in Job, Report(j) PROVE ReservationGuards'
  <2>1. \A k \in Job : call'[k].at \in Signalling => call[k].at \in Signalling
    BY <1>4, <1>a DEF Report, Posted, CallOK, Signalling
  <2> QED
    BY <1>4, <1>c, <2>1 DEF Report, history
<1>5. ASSUME NEW j \in Job, JobStep(j), ~Report(j) PROVE ReservationGuards'
    BY <1>5, <1>c DEF JobStep, HandleEntry, EnterPool, TakeLease, Recheck, Attempt,
       RecordOutcome, AckEntry,
                      servicevars, history
<1>6. ASSUME NEW j \in Job, LoadTask(j) PROVE ReservationGuards'
  <2>1. \A k \in Job : call'[k].at \in Signalling => call[k].at \in Signalling
    BY <1>6, <1>n, <1>m DEF LoadTask, PrincipalFails, Signalling
  <2> QED
    BY <1>6, <1>c, <2>1 DEF LoadTask, history
<1>7. ASSUME NEW j \in Job, ReserveSignal(j) PROVE ReservationGuards'
  <2>0. T(j) \in Task /\ UNCHANGED signals
    BY <1>7, JobParts DEF ReserveSignal
  <2>1. CASE Answer(j, TRUE) /\ UNCHANGED <<reserved, gaveWay>>
    BY <1>c, <1>n, <2>0, <2>1
  <2>2. CASE /\ ~reserved[T(j)] /\ reserved' = [reserved EXCEPT ![T(j)] = TRUE] /\ UNCHANGED gaveWay
             /\ call' = [call EXCEPT ![j].at = "reserved"]
    <3>1. ASSUME NEW k \in Job, k # j, T(k) = T(j), ~gaveWay[T(j)] PROVE call'[k].at \notin Signalling
        BY <1>m, <2>0, <2>2, <3>1 DEF ReservationGuards
    <3>2. ~gaveWay[T(j)] => signals[T(j)] = 0
        BY <1>a, <2>0, <2>2 DEF ReservationGuards, LedgerOK
    <3>3. reserved'[T(j)] /\ \A t \in Task : t # T(j) => reserved'[t] = reserved[t]
        BY <1>a, <2>0, <2>2 DEF FlagsOK
    <3> QED
        BY <1>m, <2>0, <2>2, <3>1, <3>2, <3>3 DEF ReservationGuards, T
  <2>3. CASE /\ gaveWay' = [gaveWay EXCEPT ![T(j)] = TRUE] /\ UNCHANGED reserved
             /\ call' = [call EXCEPT ![j].at = "reserved"]
    <3>1. \A t \in Task : ~gaveWay'[t] => t # T(j) /\ ~gaveWay[t]
        BY <1>a, <2>0, <2>3 DEF FlagsOK
    <3> QED
        BY <1>m, <2>0, <2>3, <3>1 DEF ReservationGuards, T
  <2> QED
    BY <1>7, <2>1, <2>2, <2>3 DEF ReserveSignal
<1>8. ASSUME NEW j \in Job, call[j].at \in Signalling, NEW ok, Answer(j, ok), ReleaseSignalReservation(T(j)),
             UNCHANGED <<signals, gaveWay>>
      PROVE  ReservationGuards'
  <2>1. \A t \in Task : t # T(j) => reserved'[t] = reserved[t]
    BY <1>8, <1>a DEF ReleaseSignalReservation, FlagsOK
  <2>2. ASSUME NEW k \in Job, T(k) = T(j), ~gaveWay[T(j)] PROVE call'[k].at \notin Signalling
    BY <1>8, <1>n, <2>2, JobParts DEF ReservationGuards
  <2>3. ~gaveWay[T(j)] => signals[T(j)] = 0
    BY <1>8, JobParts DEF ReservationGuards
  <2> QED
    BY <1>8, <1>n, <2>1, <2>2, <2>3 DEF ReservationGuards, T
<1>9. ASSUME NEW j \in Job, AssignActor(j) PROVE ReservationGuards'
  <2>1. CASE call' = [call EXCEPT ![j].at = "assigned"] /\ UNCHANGED reserved
    BY <1>9, <1>c, <1>m, <2>1 DEF AssignActor, history, Signalling
  <2> QED
    BY <1>9, <1>8, <2>1 DEF AssignActor, history, Signalling
<1>10. ASSUME NEW j \in Job, SignalWorkflow(j) PROVE ReservationGuards'
  <2>0. T(j) \in Task /\ call[j].at \in Signalling /\ call[j].at = "assigned"
    BY <1>10, JobParts DEF SignalWorkflow, Signalling
  <2>s. ASSUME Signalled(j)
        PROVE  /\ signals[T(j)] = 0 => signals'[T(j)] = 1
               /\ \A t \in Task : t # T(j) => signals'[t] = signals[t]
    <3>1. signals' = [signals EXCEPT ![T(j)] = IF @ = 0 THEN 1 ELSE 2]
        BY <2>s DEF Signalled
    <3> QED
        BY <1>a, <2>0, <3>1 DEF LedgerOK
  <2>1. CASE Signalled(j) /\ Answer(j, TRUE) /\ UNCHANGED <<reserved, gaveWay>>
    <3>1. /\ UNCHANGED <<reserved, gaveWay>>
          /\ \A t \in Task : t # T(j) => signals'[t] = signals[t]
          /\ (\A k \in Job : k # j => call'[k] = call[k]) /\ call'[j].at \notin Signalling
        BY <1>n, <2>1, <2>s
    <3>2. ASSUME NEW k \in Job, T(k) = T(j), ~gaveWay[T(j)] PROVE call'[k].at \notin Signalling
        BY <2>0, <3>1, <3>2 DEF ReservationGuards
    <3>3. ~gaveWay[T(j)] => reserved[T(j)] /\ signals'[T(j)] = 1
        <4>1. ~gaveWay[T(j)] => reserved[T(j)] /\ signals[T(j)] = 0
            BY <2>0 DEF ReservationGuards
        <4> QED
            BY <2>1, <2>s, <4>1
    <3> QED
        BY <2>0, <3>1, <3>2, <3>3 DEF ReservationGuards, T
  <2>2. CASE Signalled(j) /\ Answer(j, FALSE) /\ ReleaseSignalReservation(T(j)) /\ gaveWay' = [gaveWay EXCEPT ![T(j)] = TRUE]
    <3>1. \A t \in Task : ~gaveWay'[t] => t # T(j) /\ ~gaveWay[t]
        BY <1>a, <2>0, <2>2 DEF FlagsOK
    <3>2. \A t \in Task : t # T(j) => signals'[t] = signals[t] /\ reserved'[t] = reserved[t]
        <4>1. ReleaseSignalReservation(T(j)) /\ \A t \in Task : t # T(j) => signals'[t] = signals[t]
            BY <2>2, <2>s
        <4> QED
            BY <1>a, <4>1 DEF ReleaseSignalReservation, FlagsOK
    <3>3. (\A k \in Job : k # j => call'[k] = call[k]) /\ call'[j].at \notin Signalling
        BY <1>n, <2>2
    <3> QED
        BY <3>1, <3>2, <3>3 DEF ReservationGuards, T
  <2> QED
    BY <1>10, <1>8, <2>0, <2>1, <2>2 DEF SignalWorkflow
<1>11. ASSUME NEW j \in Job, CallTimeout(j) PROVE ReservationGuards'
    BY <1>11, <1>c DEF CallTimeout, servicevars, history
<1>12. ASSUME NEW t \in Task, ReservationExpires(t) PROVE ReservationGuards'
  <2>1. \A u \in Task : ~gaveWay'[u] => ~gaveWay[u] /\ reserved'[u] = reserved[u]
    BY <1>12, <1>a DEF ReservationExpires, FlagsOK
  <2> QED
    BY <1>12, <2>1 DEF ReservationExpires, ReservationGuards, T
<1>13. ASSUME NEW t \in Task, LeaseExpires(t) \/ TaskCloses(t) \/ InstanceEnds(t)
      PROVE ReservationGuards'
    BY <1>13, <1>c DEF LeaseExpires, TaskCloses, InstanceEnds, servicevars, history
<1>14. CASE ServiceCrash
    BY <1>14, <1>c DEF ServiceCrash, NoCall, Signalling, history
<1>15. CASE UNCHANGED vars
    BY <1>15, <1>c DEF vars, servicevars, history
<1> QED
    BY <1>1, <1>2, <1>3, <1>4, <1>5, <1>6, <1>7, <1>9, <1>10, <1>11, <1>12, <1>13, <1>14,
       <1>15 DEF Next, CallStep

\* However many callbacks of a task are under way, the workflow is signalled
\* once while the reservation has not given way (reserveSignal, Complete, Fail).
THEOREM SignalledOnceHolds == Spec => []SignalledOnce
<1>1. Init => ReservationGuards
    BY DEF Init, ReservationGuards, NoCall, Signalling
<1>2. ReservationGuards => SignalledOnce
    BY DEF ReservationGuards, SignalledOnce
<1> QED
    BY <1>1, <1>2, ReservationStep, TypeInvariant, PTL DEF Spec

-----------------------------------------------------------------------------
(***************************************************************************)
(* Acknowledged entries.                                                   *)
(***************************************************************************)
\* A task that is settled stays so, and a refusal is not forgotten.
LEMMA SettledStays ==
    ASSUME TypeInv, [Next]_vars, NEW t \in Task
    PROVE  /\ Settled(t) => Settled(t)'
           /\ refused[t] => refused'[t]
           /\ shape'[t] = shape[t]
<1>a. FlagsOK /\ LedgerOK
    BY DEF TypeInv, TypeOK
<1> DEFINE Good == /\ Settled(t) => Settled(t)'
                   /\ refused[t] => refused'[t]
                   /\ shape'[t] = shape[t]
<1>0. CASE UNCHANGED <<signals, row, inst, refused, shape>>
    BY <1>0 DEF Settled
<1>1. ASSUME NEW e \in Entry, CheckEvent(e) \/ PublishTaskCreated(e) \/ IdlesOut(e) PROVE Good
    BY <1>0, <1>1 DEF CheckEvent, PublishTaskCreated, IdlesOut, servicevars, history
<1>2. ASSUME NEW w \in Worker, NEW e \in Entry, ReadGroup(w, e) \/ ReclaimStale(w, e) PROVE Good
    BY <1>0, <1>2 DEF ReadGroup, ReclaimStale, servicevars, history
<1>3. ASSUME NEW w \in Worker, HeartbeatOnce(w) \/ Shutdown(w) \/ Restart(w) \/ WorkerCrash(w) PROVE Good
    BY <1>0, <1>3 DEF HeartbeatOnce, Shutdown, Restart, WorkerCrash, streamvars, servicevars, history
<1>4. ASSUME NEW j \in Job, JobStep(j) PROVE Good
    BY <1>0, <1>4 DEF JobStep, HandleEntry, EnterPool, TakeLease, Recheck, Attempt,
       RecordOutcome, Report, AckEntry,
                      streamvars, servicevars, history
<1>5. ASSUME NEW j \in Job, LoadTask(j) \/ AssignActor(j) \/ CallTimeout(j) PROVE Good
    BY <1>0, <1>5 DEF LoadTask, AssignActor, CallTimeout, streamvars, servicevars, history
<1>6. ASSUME NEW j \in Job, ReserveSignal(j) PROVE Good
  <2>1. UNCHANGED <<signals, row, inst, shape>>
    BY <1>6 DEF ReserveSignal, streamvars
  <2>2. UNCHANGED refused \/ refused' = [refused EXCEPT ![T(j)] = TRUE]
    BY <1>6 DEF ReserveSignal
  <2>3. refused[t] => refused'[t]
    BY <1>a, <2>2 DEF FlagsOK
  <2> QED
    BY <2>1, <2>3 DEF Settled
<1>7. ASSUME NEW j \in Job, SignalWorkflow(j) PROVE Good
  <2>1. UNCHANGED <<row, inst, refused, shape>> /\ (Signalled(j) \/ UNCHANGED signals)
    BY <1>7 DEF SignalWorkflow, streamvars
  <2>2. signals[t] > 0 => signals'[t] > 0
    BY <1>a, <2>1 DEF Signalled, LedgerOK
  <2> QED
    BY <2>1, <2>2 DEF Settled
<1>8. ASSUME NEW u \in Task, TaskCloses(u) \/ InstanceEnds(u) PROVE Good
  <2>1. UNCHANGED <<signals, refused, shape>>
    BY <1>8 DEF TaskCloses, InstanceEnds, streamvars, history
  <2>2. (row[t] = "closed" => row'[t] = "closed") /\ (inst[t] = "over" => inst'[t] = "over")
    BY <1>8, <1>a DEF TaskCloses, InstanceEnds, FlagsOK
  <2> QED
    BY <2>1, <2>2 DEF Settled
<1>9. ASSUME NEW u \in Task, LeaseExpires(u) \/ ReservationExpires(u) PROVE Good
    BY <1>0, <1>9 DEF LeaseExpires, ReservationExpires, streamvars, servicevars, history
<1>10. CASE ServiceCrash \/ UNCHANGED vars
    BY <1>0, <1>10 DEF ServiceCrash, vars, streamvars, servicevars, history
<1> QED
    BY <1>1, <1>2, <1>3, <1>4, <1>5, <1>6, <1>7, <1>8, <1>9, <1>10 DEF Next, CallStep
\* Every step keeps AckInv: a 2xx answer is given only for a settled task or
\* for one that somebody else had reserved.
LEMMA AckStep == TypeInv /\ AckInv /\ [Next]_vars => AckInv'
<1> SUFFICES ASSUME TypeInv, AckInv, [Next]_vars PROVE AckInv'
    OBVIOUS
<1>a. EntryOK /\ JobOK /\ FlagsOK /\ LedgerOK
    BY DEF TypeInv, TypeOK
<1> DEFINE Acked(e) == entry[e].at = "acked"
<1> DEFINE Done(t) == Settled(t) \/ refused[t]
<1>c. ASSUME \A k \in Job : job'[k].pc = "ack" => job[k].pc = "ack" \/ Done(T(k))',
             \A e \in Entry : entry'[e].at = "acked" =>
                  Acked(e) \/ shape[TaskOf[e]] = "malformed" \/ Done(TaskOf[e])
      PROVE  AckInv'
  <2>1. AcksAnswered'
    BY <1>c, SettledStays, JobParts DEF AckInv, AcksAnswered, T
  <2>2. \A e \in Entry : TaskOf[e] \in Task
    BY DispatchAssumption
  <2>3. AckedMeansSettled'
    BY <1>c, <2>2, SettledStays DEF AckInv, AckedMeansSettled
  <2> QED
    BY <2>1, <2>3 DEF AckInv
<1>l. ASSUME NEW j \in Job, Leave(j) PROVE \A k \in Job : job'[k].pc = "ack" => job[k].pc = "ack"
    BY <1>l, <1>a DEF Leave, NoJob, JobOK
<1>1. ASSUME NEW e \in Entry, CheckEvent(e) \/ PublishTaskCreated(e) \/ IdlesOut(e) PROVE AckInv'
  <2>1. \A f \in Entry : entry'[f].at = "acked" => Acked(f)
    BY <1>1, <1>a DEF CheckEvent, PublishTaskCreated, Published, IdlesOut, EntryOK, EntryRecord
  <2>2. UNCHANGED job
    BY <1>1 DEF CheckEvent, PublishTaskCreated, IdlesOut, workervars
  <2> QED
    BY <1>c, <2>1, <2>2
<1>2. ASSUME NEW w \in Worker, NEW e \in Entry, ReadGroup(w, e) \/ ReclaimStale(w, e) PROVE AckInv'
  <2>1. \A f \in Entry : entry'[f].at = "acked" => Acked(f)
    BY <1>2, <1>a DEF ReadGroup, ReclaimStale, Delivered, EntryOK
  <2>2. ASSUME NEW n, Claimed(<<w, e>>, n) PROVE \A k \in Job : job'[k].pc = "ack" => job[k].pc = "ack"
    BY <1>a, <2>2 DEF Claimed, NoJob, JobOK
  <2> QED
    BY <1>2, <1>c, <2>1, <2>2 DEF ReadGroup, ReclaimStale
<1>3. ASSUME NEW w \in Worker, HeartbeatOnce(w) PROVE AckInv'
  <2>1. \A f \in Entry : entry'[f].at = "acked" => Acked(f)
    BY <1>3, <1>a DEF HeartbeatOnce, Touched, EntryOK, EntryRecord
  <2> QED
    BY <1>3, <1>c, <2>1 DEF HeartbeatOnce, workervars
<1>4. ASSUME NEW w \in Worker, Shutdown(w) \/ Restart(w) PROVE AckInv'
    BY <1>4, <1>c DEF Shutdown, Restart, streamvars
<1>5. ASSUME NEW w \in Worker, WorkerCrash(w) PROVE AckInv'
    BY <1>5, <1>c DEF WorkerCrash, streamvars, NoJob
<1>6. ASSUME NEW j \in Job, HandleEntry(j) PROVE AckInv'
  <2>1. ASSUME NEW at \in {"acked", "dead"}, LeavesStream(j, at), at = "acked" => shape[T(j)] = "malformed"
        PROVE AckInv'
    <3>1. \A e \in Entry : entry'[e].at = "acked" => Acked(e) \/ (e = j[2] /\ at = "acked")
        BY <1>a, <2>1, JobParts DEF LeavesStream, Removed, EntryOK, EntryRecord
    <3>2. \A e \in Entry : entry'[e].at = "acked" => Acked(e) \/ shape[TaskOf[e]] = "malformed"
        BY <2>1, <3>1 DEF T
    <3> QED
        BY <1>c, <1>l, <2>1, <3>2 DEF LeavesStream
  <2>2. ASSUME NEW p \in {"resend", "waiting"}, NEW v, job' = [job EXCEPT ![j] = [NoJob EXCEPT !.pc = p, !.verdict = v]], UNCHANGED entry
        PROVE  AckInv'
    <3>1. \A k \in Job : job'[k].pc = "ack" => job[k].pc = "ack"
        BY <1>a, <2>2 DEF NoJob, JobOK
    <3> QED
        BY <1>c, <2>2, <3>1
  <2>3. CASE job' = [job EXCEPT ![j] = [NoJob EXCEPT !.pc = "waiting"]] /\ UNCHANGED entry
    <3>1. \A k \in Job : job'[k].pc = "ack" => job[k].pc = "ack"
        BY <1>a, <2>3 DEF NoJob, JobOK
    <3> QED
        BY <1>c, <2>3, <3>1
  <2>4. CASE Leave(j) /\ UNCHANGED entry
    BY <1>c, <1>l, <2>4
  <2> QED
    BY <1>6, <2>1, <2>2, <2>3, <2>4 DEF HandleEntry
<1>7. ASSUME NEW j \in Job, AckEntry(j) PROVE AckInv'
  <2>1. Done(T(j)) /\ Leave(j) /\ (Removed(j[2], "acked") \/ UNCHANGED entry)
    BY <1>7 DEF AckEntry, LeavesStream, AckInv, AcksAnswered
  <2>2. \A e \in Entry : entry'[e].at = "acked" => Acked(e) \/ e = j[2]
    BY <1>a, <2>1, JobParts DEF Removed, EntryOK, EntryRecord
  <2>3. \A e \in Entry : entry'[e].at = "acked" => Acked(e) \/ Done(TaskOf[e])
    BY <2>1, <2>2 DEF T
  <2> QED
    BY <1>c, <1>l, <2>1, <2>3
<1>8. ASSUME NEW j \in Job, JobStep(j), ~HandleEntry(j), ~AckEntry(j) PROVE AckInv'
  <2>1. UNCHANGED entry
    BY <1>8 DEF JobStep, EnterPool, TakeLease, Recheck, Attempt, RecordOutcome, Report, streamvars
  <2>2. \A k \in Job : job'[k].pc = "ack" => job[k].pc = "ack"
    BY <1>8, <1>a, <1>l DEF JobStep, EnterPool, TakeLease, Recheck, Attempt, Executed,
       RecordOutcome, Report, Goto, JobOK, JobRecord
  <2> QED
    BY <1>c, <2>1, <2>2
<1>9. ASSUME NEW j \in Job, CallStep(j) \/ CallTimeout(j) PROVE AckInv'
  <2>0. T(j) \in Task
    BY JobParts
  <2>1. UNCHANGED entry
    BY <1>9 DEF CallStep, LoadTask, ReserveSignal, AssignActor, SignalWorkflow, CallTimeout, streamvars
  <2>2. ASSUME Answer(j, TRUE) PROVE \A k \in Job : job'[k].pc = "ack" => job[k].pc = "ack" \/ k = j
    BY <1>a, <2>2 DEF Answer, Goto, JobOK, JobRecord
  <2>3. ASSUME Answer(j, FALSE) PROVE \A k \in Job : job'[k].pc = "ack" => job[k].pc = "ack"
    BY <1>a, <2>3 DEF Answer, Leave, NoJob, JobOK, JobRecord
  <2>4. CASE UNCHANGED job
    BY <1>c, <2>1, <2>4
  <2>5. CASE Answer(j, FALSE)
    BY <1>c, <2>1, <2>3, <2>5
  <2>6. CASE Leave(j)
    BY <1>c, <1>l, <2>1, <2>6
  <2>7. CASE Answer(j, TRUE) /\ Done(T(j))'
    <3>1. \A k \in Job : job'[k].pc = "ack" => job[k].pc = "ack" \/ Done(T(k))'
        BY <2>2, <2>7
    <3> QED
        BY <1>c, <2>1, <3>1
  <2>8. CASE LoadTask(j)
    <3>1. CASE (Closed(T(j)) \/ ~Accepting(T(j))) /\ Answer(j, TRUE)
        <4>1. UNCHANGED <<row, inst, signals>>
            BY <2>8 DEF LoadTask, history
        <4>2. Settled(T(j))
            BY <1>a, <2>0, <3>1 DEF Closed, Accepting, Settled, FlagsOK
        <4> QED
            BY <2>7, <3>1, <4>1, <4>2 DEF Settled, T
    <3> QED
        BY <2>4, <2>5, <2>8, <3>1 DEF LoadTask, PrincipalFails
  <2>9. CASE ReserveSignal(j)
    <3>1. CASE Answer(j, TRUE) /\ refused' = [refused EXCEPT ![T(j)] = TRUE]
        <4>1. refused'[T(j)]
            BY <1>a, <2>0, <3>1 DEF FlagsOK
        <4> QED
            BY <2>7, <3>1, <4>1 DEF T
    <3> QED
        BY <2>4, <2>9, <3>1 DEF ReserveSignal
  <2>10. CASE AssignActor(j)
    BY <2>4, <2>5, <2>10 DEF AssignActor
  <2>11. CASE SignalWorkflow(j)
    <3>1. CASE Signalled(j) /\ Answer(j, TRUE)
        <4>1. signals' = [signals EXCEPT ![T(j)] = IF @ = 0 THEN 1 ELSE 2]
            BY <3>1 DEF Signalled
        <4>2. signals'[T(j)] > 0
            BY <1>a, <2>0, <4>1 DEF LedgerOK
        <4> QED
            BY <2>7, <3>1, <4>2 DEF Settled, T
    <3> QED
        BY <2>5, <2>11, <3>1 DEF SignalWorkflow
  <2> QED
    BY <1>9, <2>6, <2>8, <2>9, <2>10, <2>11 DEF CallStep, CallTimeout
<1>10. ASSUME NEW t \in Task, LeaseExpires(t) \/ ReservationExpires(t) \/ TaskCloses(t) \/ InstanceEnds(t)
      PROVE AckInv'
    BY <1>10, <1>c DEF LeaseExpires, ReservationExpires, TaskCloses, InstanceEnds, streamvars, workervars
<1>11. CASE ServiceCrash
    BY <1>11, <1>c DEF ServiceCrash, NoJob, streamvars
<1>12. CASE UNCHANGED vars
    BY <1>12, <1>c DEF vars, streamvars, workervars
<1> QED
    BY <1>1, <1>2, <1>3, <1>4, <1>5, <1>6, <1>7, <1>8, <1>9, <1>10, <1>11, <1>12 DEF Next

\* No worker acknowledges an entry whose task still needs its result, except
\* after a callback was refused for another's reservation, whatever crashes,
\* is redelivered or times out (ackEntry, Complete, Fail).
THEOREM AckedMeansSettledHolds == Spec => []AckedMeansSettled
<1>1. Init => AckInv
    BY DEF Init, AckInv, AcksAnswered, AckedMeansSettled, NoJob
<1> QED
    BY <1>1, AckStep, TypeInvariant, PTL DEF Spec, AckInv
-----------------------------------------------------------------------------
(***************************************************************************)
(* One verdict.                                                            *)
(***************************************************************************)
\* Every step keeps VerdictsAgree: a recorded outcome is the first verdict
\* anyone carries for its task, and later ones repeat it.
LEMMA VerdictStep == TypeInv /\ RunInv /\ VerdictsAgree /\ [Next]_vars => VerdictsAgree'
<1> SUFFICES ASSUME TypeInv, RunInv, VerdictsAgree, [Next]_vars PROVE VerdictsAgree'
    OBVIOUS
<1>a. JobOK /\ CallOK /\ FlagsOK /\ LedgerOK /\ VerdictsCarried /\ RunsUnrecorded
    BY DEF TypeInv, TypeOK, RunInv
<1> DEFINE Work == {"waiting", "entered", "leased", "running", "executed"}
<1> DEFINE Held == {"report", "resend", "posted"}
<1> DEFINE JobFine(k) ==
      /\ job'[k].pc \in Work => job[k].pc \in Work \/ shape[T(k)] # "unknown"
      /\ job'[k].pc \in Held => \/ job[k].pc \in Held /\ job'[k].verdict = job[k].verdict
                                \/ job'[k].verdict = Verdict(T(k))
<1> DEFINE CallFine(k) ==
      call'[k].at # "none" => \/ call[k].at # "none" /\ call'[k].verdict = call[k].verdict
                              \/ Undisturbed(T(k)) => call'[k].verdict = Verdict(T(k))
<1>c. ASSUME UNCHANGED <<outcome, shape>>,
             \A t \in Task : Undisturbed(t)' => Undisturbed(t) /\ sent'[t] \subseteq sent[t] \cup {Verdict(t)},
             \A k \in Job : JobFine(k), \A k \in Job : CallFine(k)
      PROVE  VerdictsAgree'
  <2>1. \A t \in Task : Verdict(t)' = Verdict(t)
    BY <1>c DEF Verdict
  <2>2. ASSUME NEW k \in Job
        PROVE  /\ job'[k].pc \in Work => shape'[T(k)] # "unknown"
               /\ Undisturbed(T(k))' => /\ job'[k].pc \in Held => job'[k].verdict = Verdict(T(k))
                                        /\ call'[k].at # "none" => call'[k].verdict = Verdict(T(k))
    BY <1>c, JobParts DEF VerdictsAgree, Undisturbed, T
  <2>3. \A t \in Task : /\ shape'[t] = "unknown" => outcome'[t] = None
                        /\ Undisturbed(t)' => sent'[t] \subseteq {Verdict(t)}
    BY <1>c DEF VerdictsAgree
  <2> QED
    BY <2>1, <2>2, <2>3, JobParts DEF VerdictsAgree, T
<1>j. UNCHANGED job => \A k \in Job : JobFine(k)
    OBVIOUS
<1>k. UNCHANGED call => \A k \in Job : CallFine(k)
    OBVIOUS
<1>l. ASSUME NEW j \in Job, Leave(j) PROVE \A k \in Job : JobFine(k)
    BY <1>l, <1>a DEF Leave, NoJob, JobOK
<1>s. UNCHANGED <<lost, outlived, sent>> =>
        \A t \in Task : Undisturbed(t)' => Undisturbed(t) /\ sent'[t] \subseteq sent[t] \cup {Verdict(t)}
    BY DEF Undisturbed
<1>0. CASE UNCHANGED <<job, call, outcome, shape, lost, outlived, sent>>
    BY <1>0, <1>c, <1>j, <1>k, <1>s
<1>1. ASSUME NEW e \in Entry, CheckEvent(e) \/ PublishTaskCreated(e) \/ IdlesOut(e) PROVE VerdictsAgree'
    BY <1>0, <1>1 DEF CheckEvent, PublishTaskCreated, IdlesOut, workervars, servicevars, history
<1>2. ASSUME NEW w \in Worker, NEW e \in Entry, ReadGroup(w, e) \/ ReclaimStale(w, e)
      PROVE VerdictsAgree'
  <2>1. ASSUME NEW n, Claimed(<<w, e>>, n) PROVE \A k \in Job : JobFine(k)
    BY <1>a, <2>1 DEF Claimed, NoJob, JobOK
  <2>2. UNCHANGED <<call, outcome, shape, lost, outlived, sent>>
    BY <1>2 DEF ReadGroup, ReclaimStale, servicevars, history
  <2>3. \A k \in Job : JobFine(k)
    BY <1>2, <1>j, <2>1 DEF ReadGroup, ReclaimStale
  <2> QED
    BY <1>c, <1>k, <1>s, <2>2, <2>3
<1>3. ASSUME NEW w \in Worker, HeartbeatOnce(w) \/ Shutdown(w) \/ Restart(w) PROVE VerdictsAgree'
    BY <1>0, <1>3 DEF HeartbeatOnce, Shutdown, Restart, streamvars, workervars, servicevars, history
<1>4. ASSUME NEW w \in Worker, WorkerCrash(w) PROVE VerdictsAgree'
  <2>1. UNCHANGED <<call, outcome, shape, outlived, sent>>
    BY <1>4 DEF WorkerCrash, streamvars, servicevars
  <2>2. \A k \in Job : JobFine(k)
    BY <1>4 DEF WorkerCrash, NoJob
  <2>3. ASSUME NEW t \in Task, lost'[t] = 0 PROVE lost[t] = 0
    <3> DEFINE S == {e \in Entry : TaskOf[e] = t /\ job[<<w, e>>].pc \in Running}
    <3>1. Cardinality(S) \in Nat
        BY DispatchAssumption, FS_Subset, FS_CardinalityType
    <3>2. lost'[t] = lost[t] + Cardinality(S)
        BY <1>4 DEF WorkerCrash
    <3> QED
        BY <1>a, <2>3, <3>1, <3>2 DEF LedgerOK
  <2> QED
    BY <1>c, <1>k, <2>1, <2>2, <2>3 DEF Undisturbed
<1>5. ASSUME NEW j \in Job, HandleEntry(j) PROVE VerdictsAgree'
  <2>0. UNCHANGED <<call, outcome, shape, lost, outlived, sent>> /\ T(j) \in Task
    BY <1>5, JobParts DEF HandleEntry, servicevars, history
  <2>1. CASE /\ outcome[T(j)] # None
             /\ job' = [job EXCEPT ![j] = [NoJob EXCEPT !.pc = "resend", !.verdict = outcome[T(j)]]]
    <3>1. outcome[T(j)] = Verdict(T(j))
        BY <2>0, <2>1 DEF Verdict, VerdictsAgree
    <3>2. \A k \in Job : JobFine(k)
        BY <1>a, <2>1, <3>1 DEF NoJob, JobOK
    <3> QED
        BY <1>c, <1>k, <1>s, <2>0, <3>2
  <2>2. CASE /\ shape[T(j)] = "unknown"
             /\ job' = [job EXCEPT ![j] = [NoJob EXCEPT !.pc = "resend", !.verdict = "fail"]]
    <3>1. "fail" = Verdict(T(j))
        BY <2>2 DEF Verdict
    <3>2. \A k \in Job : JobFine(k)
        BY <1>a, <2>2, <3>1 DEF NoJob, JobOK
    <3> QED
        BY <1>c, <1>k, <1>s, <2>0, <3>2
  <2>3. CASE /\ shape[T(j)] # "unknown"
             /\ job' = [job EXCEPT ![j] = [NoJob EXCEPT !.pc = "waiting"]]
    <3>1. \A k \in Job : JobFine(k)
        BY <1>a, <2>3 DEF NoJob, JobOK
    <3> QED
        BY <1>c, <1>k, <1>s, <2>0, <3>1
  <2>4. CASE Leave(j)
    BY <1>c, <1>k, <1>l, <1>s, <2>0, <2>4
  <2> QED
    BY <1>5, <2>1, <2>2, <2>3, <2>4 DEF HandleEntry, LeavesStream
<1>6. ASSUME NEW j \in Job, EnterPool(j) \/ TakeLease(j) \/ Attempt(j) \/ AckEntry(j)
      PROVE VerdictsAgree'
  <2>1. UNCHANGED <<call, outcome, shape, lost, outlived, sent>>
    BY <1>6 DEF EnterPool, TakeLease, Attempt, AckEntry, streamvars, servicevars, history
  <2>2. EnterPool(j) => \A k \in Job : JobFine(k)
    BY <1>a DEF EnterPool, Goto, JobOK, JobRecord
  <2>3. TakeLease(j) => \A k \in Job : JobFine(k)
    BY <1>a, <1>l DEF TakeLease, JobOK, JobRecord
  <2>4. Attempt(j) => \A k \in Job : JobFine(k)
    <3>1. ASSUME job[j].pc = "running", NEW v, Executed(j, v) PROVE \A k \in Job : JobFine(k)
        BY <1>a, <3>1 DEF Executed, JobOK, JobRecord
    <3>2. ASSUME job' = [job EXCEPT ![j].attempt = @ + 1] PROVE \A k \in Job : JobFine(k)
        BY <1>a, <3>2 DEF JobOK, JobRecord
    <3> QED
        BY <3>1, <3>2 DEF Attempt
  <2>5. AckEntry(j) => \A k \in Job : JobFine(k)
    BY <1>l DEF AckEntry, LeavesStream
  <2> QED
    BY <1>6, <1>c, <1>k, <1>s, <2>1, <2>2, <2>3, <2>4, <2>5
<1>7. ASSUME NEW j \in Job, Recheck(j) PROVE VerdictsAgree'
  <2>1. UNCHANGED <<call, outcome, shape, lost, sent>> /\ job[j].pc = "leased" /\ T(j) \in Task
    BY <1>7, JobParts DEF Recheck, streamvars, servicevars
  <2>s. \A t \in Task : Undisturbed(t)' => Undisturbed(t)
    <3>1. UNCHANGED outlived \/ Outlives(T(j))
        BY <1>7 DEF Recheck
    <3>2. \A t \in Task : outlived[t] \in Nat /\ outlived'[t] \in {outlived[t], outlived[t] + 1}
        BY <1>a, <3>1 DEF Outlives, LedgerOK
    <3> QED
        BY <2>1, <3>2 DEF Undisturbed
  <2>2. Verdict(T(j)) = outcome[T(j)]
    BY <2>1 DEF VerdictsAgree, Verdict
  <2>3. CASE job' = [job EXCEPT ![j].pc = "report", ![j].verdict = outcome[T(j)]]
    <3>1. \A k \in Job : JobFine(k)
        BY <1>a, <2>2, <2>3 DEF JobOK, JobRecord
    <3> QED
        BY <1>c, <1>k, <2>s, <2>1, <3>1
  <2>4. CASE job' = [job EXCEPT ![j].pc = "running", ![j].attempt = 1]
    <3>1. \A k \in Job : JobFine(k)
        BY <1>a, <2>1, <2>4 DEF JobOK, JobRecord
    <3> QED
        BY <1>c, <1>k, <2>s, <2>1, <3>1
  <2> QED
    BY <1>7, <1>c, <1>k, <1>l, <2>s, <2>1, <2>3, <2>4 DEF Recheck
<1>8. ASSUME NEW j \in Job, RecordOutcome(j) PROVE VerdictsAgree'
  <2>1. /\ job[j].pc = "executed" /\ T(j) \in Task /\ UNCHANGED <<call, shape, outlived, sent>>
        /\ (\A k \in Job : k # j => job'[k] = job[k])
        /\ job'[j].pc = "report" /\ job'[j].verdict = job[j].verdict
    BY <1>8, <1>a, JobParts DEF RecordOutcome, Goto, JobOK, JobRecord, streamvars, servicevars
  <2>2. shape[T(j)] # "unknown" /\ (outlived[T(j)] = 0 => outcome[T(j)] = None)
    BY <1>a, <2>1 DEF VerdictsAgree, RunsUnrecorded, Running
  <2>3. \A t \in Task : t # T(j) => outcome'[t] = outcome[t] /\ lost'[t] = lost[t]
    BY <1>8, <1>a DEF RecordOutcome, LedgerOK
  <2>4. \/ outcome'[T(j)] = job[j].verdict /\ lost'[T(j)] = lost[T(j)]
        \/ outcome'[T(j)] = outcome[T(j)] /\ lost'[T(j)] = lost[T(j)] + 1 /\ lost[T(j)] \in Nat
    BY <1>8, <1>a, <2>1 DEF RecordOutcome, LedgerOK
  <2>5. lost'[T(j)] = 0 => lost[T(j)] = 0 /\ outcome'[T(j)] = job[j].verdict
    BY <2>4
  <2>6. Undisturbed(T(j)) => Verdict(T(j)) = None /\ None \notin Verdicts
    BY <2>2, DispatchAssumption DEF Verdict, Undisturbed
  <2>7. \A t \in Task : /\ t # T(j) => Verdict(t)' = Verdict(t)
                        /\ t = T(j) => Verdict(t)' = outcome'[t]
    BY <2>1, <2>2, <2>3 DEF Verdict
  <2>8. ASSUME NEW k \in Job
        PROVE  /\ job'[k].pc \in Work => shape'[T(k)] # "unknown"
               /\ Undisturbed(T(k))' => /\ job'[k].pc \in Held => job'[k].verdict = Verdict(T(k))'
                                        /\ call'[k].at # "none" => call'[k].verdict = Verdict(T(k))'
    <3>0. T(k) \in Task
        BY JobParts
    <3>1. job'[k].pc \in Work => shape'[T(k)] # "unknown"
        BY <2>1 DEF VerdictsAgree
    <3>2. CASE T(k) # T(j)
        <4>1. k # j
            BY <3>2
        <4>2. Undisturbed(T(k))' = Undisturbed(T(k)) /\ Verdict(T(k))' = Verdict(T(k))
            BY <2>1, <2>3, <2>7, <3>0, <3>2 DEF T, Undisturbed
        <4> QED
            BY <2>1, <3>1, <4>1, <4>2 DEF VerdictsAgree
    <3>3. CASE T(k) = T(j)
        <4>1. Undisturbed(T(j)) => job[k].pc \notin Held /\ call[k].at = "none"
            BY <1>a, <2>6, <3>3 DEF VerdictsAgree, VerdictsCarried
        <4>2. Undisturbed(T(k))' => Undisturbed(T(j)) /\ Verdict(T(k))' = job[j].verdict
            BY <2>1, <2>5, <2>7, <3>0, <3>3 DEF T, Undisturbed
        <4>3. CASE k = j
            BY <2>1, <3>1, <4>1, <4>2, <4>3
        <4>4. CASE k # j
            BY <2>1, <3>1, <4>1, <4>2, <4>4, <3>3
        <4> QED
            BY <4>3, <4>4
    <3> QED
        BY <3>2, <3>3
  <2>9. ASSUME NEW t \in Task
        PROVE  /\ shape'[t] = "unknown" => outcome'[t] = None
               /\ Undisturbed(t)' => sent'[t] \subseteq {Verdict(t)'}
    <3>1. CASE t # T(j)
        BY <2>1, <2>3, <2>7, <3>1 DEF VerdictsAgree, Undisturbed
    <3>2. CASE t = T(j)
        <4>1. Undisturbed(t) => sent[t] = {}
            BY <1>a, <2>6, <3>2 DEF VerdictsAgree, LedgerOK
        <4> QED
            BY <2>1, <2>2, <2>5, <3>2, <4>1 DEF Undisturbed
    <3> QED
        BY <3>1, <3>2
  <2> QED
    BY <2>8, <2>9 DEF VerdictsAgree, T
<1>9. ASSUME NEW j \in Job, Report(j) PROVE VerdictsAgree'
  <2>1. UNCHANGED <<outcome, shape, lost, outlived, sent>> /\ job[j].pc \in Held
    BY <1>9 DEF Report, streamvars, history
  <2>2. CASE Leave(j) /\ UNCHANGED call
    BY <1>c, <1>k, <1>l, <1>s, <2>1, <2>2
  <2>3. CASE Posted(j) /\ Goto(j, "posted")
    <3>1. \A k \in Job : JobFine(k)
        BY <1>a, <2>1, <2>3 DEF Goto, JobOK, JobRecord
    <3>2. Undisturbed(T(j)) => job[j].verdict = Verdict(T(j))
        BY <2>1 DEF VerdictsAgree
    <3>3. \A k \in Job : CallFine(k)
        BY <1>a, <2>3, <3>2 DEF Posted, CallOK
    <3> QED
        BY <1>c, <1>s, <2>1, <3>1, <3>3
  <2> QED
    BY <1>9, <2>2, <2>3 DEF Report
<1>10. ASSUME NEW j \in Job, CallStep(j) PROVE VerdictsAgree'
  <2>0. UNCHANGED <<outcome, shape, lost, outlived>>
    BY <1>10 DEF CallStep, LoadTask, ReserveSignal, AssignActor, SignalWorkflow, streamvars, history
  <2>1. ASSUME NEW ok, Answer(j, ok) PROVE (\A k \in Job : JobFine(k)) /\ \A k \in Job : CallFine(k)
    BY <1>a, <2>1 DEF Answer, Goto, Leave, NoJob, NoCall, JobOK, JobRecord, CallOK
  <2>2. ASSUME NEW at, call[j].at # "none", call' = [call EXCEPT ![j].at = at]
        PROVE \A k \in Job : CallFine(k)
    BY <1>a, <2>2 DEF CallOK, CallRecord
  <2>3. (\A k \in Job : JobFine(k)) /\ (\A k \in Job : CallFine(k))
    BY <1>10, <1>j, <2>1, <2>2 DEF CallStep, LoadTask, ReserveSignal, AssignActor,
       SignalWorkflow, PrincipalFails
  <2>4. CASE UNCHANGED sent
    BY <1>c, <1>s, <2>0, <2>3, <2>4
  <2>5. CASE SignalWorkflow(j) /\ Signalled(j)
    <3>1. Undisturbed(T(j)) => call[j].verdict = Verdict(T(j))
        BY <2>5 DEF SignalWorkflow, VerdictsAgree
    <3>2. sent' = [sent EXCEPT ![T(j)] = @ \cup {call[j].verdict}]
        BY <2>5 DEF Signalled
    <3>3. \A t \in Task : Undisturbed(t)' => Undisturbed(t) /\ sent'[t] \subseteq sent[t] \cup {Verdict(t)}
        BY <1>a, <2>0, <3>1, <3>2 DEF LedgerOK, Undisturbed
    <3> QED
        BY <1>c, <2>0, <2>3, <3>3
  <2> QED
    BY <1>10, <2>4, <2>5 DEF CallStep, LoadTask, ReserveSignal, AssignActor, SignalWorkflow, history
<1>11. ASSUME NEW j \in Job, CallTimeout(j) PROVE VerdictsAgree'
  <2>1. UNCHANGED <<call, outcome, shape, lost, outlived, sent>> /\ Leave(j)
    BY <1>11 DEF CallTimeout, streamvars, servicevars, history
  <2> QED
    BY <1>c, <1>k, <1>l, <1>s, <2>1
<1>e. ASSUME NEW t \in Task, LeaseExpires(t) PROVE VerdictsAgree'
  <2>1. UNCHANGED <<job, call, outcome, shape, lost, sent>> /\ (UNCHANGED outlived \/ Outlives(t))
    BY <1>e DEF LeaseExpires, streamvars, servicevars
  <2>2. \A u \in Task : outlived[u] \in Nat /\ outlived'[u] \in {outlived[u], outlived[u] + 1}
    BY <1>a, <2>1 DEF Outlives, LedgerOK
  <2>3. \A u \in Task : Undisturbed(u)' => Undisturbed(u)
    BY <2>1, <2>2 DEF Undisturbed
  <2> QED
    BY <1>c, <1>j, <1>k, <2>1, <2>3
<1>12. ASSUME NEW t \in Task, ReservationExpires(t) \/ TaskCloses(t) \/ InstanceEnds(t)
      PROVE VerdictsAgree'
    BY <1>0, <1>12 DEF ReservationExpires, TaskCloses, InstanceEnds, streamvars,
       workervars, servicevars, history
<1>13. CASE ServiceCrash
  <2>1. UNCHANGED <<outcome, shape, lost, outlived, sent>>
    BY <1>13 DEF ServiceCrash, streamvars, history
  <2>2. (\A k \in Job : JobFine(k)) /\ \A k \in Job : CallFine(k)
    BY <1>13 DEF ServiceCrash, NoJob, NoCall
  <2> QED
    BY <1>c, <1>s, <2>1, <2>2
<1>14. CASE UNCHANGED vars
    BY <1>0, <1>14 DEF vars, streamvars, workervars, servicevars, history
<1> QED
    BY <1>1, <1>2, <1>3, <1>4, <1>5, <1>6, <1>7, <1>8, <1>9, <1>10, <1>11, <1>e, <1>12,
       <1>13, <1>14 DEF Next, JobStep

\* As long as no outcome of a task is lost and no run outlives its lease, all callbacks of all workers signal
\* one verdict (handleEntry, resendRecordedOutcome, runJob).
THEOREM OneVerdictHolds == Spec => []OneVerdict
<1>1. Init => VerdictsAgree
    BY DEF Init, VerdictsAgree, NoJob, NoCall
<1>2. VerdictsAgree => OneVerdict
  <2> SUFFICES ASSUME VerdictsAgree, NEW t \in Task, Undisturbed(t) PROVE Cardinality(sent[t]) <= 1
    BY DEF OneVerdict, Undisturbed
  <2>1. sent[t] \in SUBSET {Verdict(t)}
    BY DEF VerdictsAgree
  <2>2. IsFiniteSet({Verdict(t)}) /\ Cardinality({Verdict(t)}) = 1
    BY FS_Singleton
  <2> QED
    BY <2>1, <2>2, FS_Subset
<1> QED
    BY <1>1, <1>2, VerdictStep, RunInvariant, TypeInvariant, PTL DEF Spec
=============================================================================
