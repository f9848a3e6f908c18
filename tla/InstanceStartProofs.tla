------------------------- MODULE InstanceStartProofs -------------------------
(***************************************************************************)
(* Lemmas about the steps of starts, terminates and executions, for the    *)
(* modules that compose them with others.  The inductive invariant         *)
(* (StartInv) has three layers: what names what (KeysAgree), that a key    *)
(* has one live instance and one open execution at a time and that         *)
(* everything under way for the key of a live instance is its own          *)
(* (OwnKeys), and that the open execution of a TERMINATED row is one that  *)
(* somebody is to close (ClosesCovered).  Each layer is shown from what a  *)
(* step does (Kept, StartsMove ...), stated once per action.               *)
(***************************************************************************)
EXTENDS InstanceStart, FiniteSetTheorems, TLAPS

\* A start that knows the run it was given.
AtRun(s) == start[s].pc \in {"record", "check"}

\* A key has one live instance, and one open execution.
OneLivePerKey == \A i, j \in Live : row[i].key = row[j].key => i = j
OneOpenPerKey == \A q, r \in Open : runs[q].key = runs[r].key => q = r

\* What an execution, a start or a terminate names.
Named(i) == i \in Inst /\ row[i].status # "none" /\ row[i].key \in Key
StartsNamed == \A s \in Starter : Launching(s) => Named(start[s].inst) /\ row[start[s].inst].key = KeyOf[s]
RunsNamed   == \A s \in Starter : AtRun(s) => start[s].run \in DOMAIN runs /\ runs[start[s].run].key = KeyOf[s]
ClosesNamed ==
    \A c \in Closer : Closing(c) =>
        /\ Named(close[c].inst)
        /\ close[c].run # NoRun => runs[close[c].run].key = row[close[c].inst].key
RowsNamed ==
    \A i \in Inst :
        /\ row[i].status # "none" => row[i].key \in Key
        /\ row[i].run # NoRun => runs[row[i].run].key = row[i].key
ExecutionsNamed == \A r \in DOMAIN runs : Named(runs[r].inst) /\ runs[r].key = row[runs[r].inst].key
KeysAgree == StartsNamed /\ RunsNamed /\ ClosesNamed /\ RowsNamed /\ ExecutionsNamed

\* An execution that is open under the key is kept; else one is added, open, for the
\* instance.  Either way the current run of the key is open (StartWorkflow).
LEMMA StartedRuns ==
    ASSUME RunsOK, NEW i \in Inst, row[i].key \in Key
    PROVE  LET rs == StartWorkflow(i)
           IN /\ rs \in Seq(RunRecord)
              /\ DOMAIN runs \subseteq DOMAIN rs
              /\ \A q \in DOMAIN runs : rs[q] = runs[q]
              /\ \A q \in DOMAIN rs \ DOMAIN runs :
                   /\ rs[q].inst = i /\ rs[q].key = row[i].key /\ rs[q].open
                   /\ OpenOf(runs, row[i].key) = {}
              /\ \A p, q \in DOMAIN rs \ DOMAIN runs : p = q
              /\ CurrentRun(rs, row[i].key) \in OpenOf(rs, row[i].key)
 <1> DEFINE new == [inst |-> i, key |-> row[i].key, open |-> TRUE, paused |-> FALSE]
            rs == StartWorkflow(i)
 <1>1. new \in RunRecord
    BY DEF RunRecord
 <1>2. runs \in Seq(RunRecord)
    BY DEF RunsOK
 <1>3. CASE OpenOf(runs, row[i].key) # {}
   <2>1. rs = runs
      BY <1>3 DEF StartWorkflow
   <2>2. CurrentRun(runs, row[i].key) \in OpenOf(runs, row[i].key)
      BY <1>3 DEF CurrentRun
   <2> QED
      BY <1>2, <2>1, <2>2
 <1>4. CASE OpenOf(runs, row[i].key) = {}
   <2>1. rs = Append(runs, new)
      BY <1>4 DEF StartWorkflow
   <2> HIDE DEF new, rs
   <2>2. rs \in Seq(RunRecord)
      BY <1>1, <1>2, <2>1
   <2>3. DOMAIN runs = 1..Len(runs) /\ DOMAIN rs = 1..(Len(runs) + 1) /\ Len(runs) \in Nat
      BY <1>1, <1>2, <2>1
   <2>4. \A q \in DOMAIN runs : rs[q] = runs[q]
      BY <1>1, <1>2, <2>1
   <2>5. rs[Len(runs) + 1] = new
      BY <1>1, <1>2, <2>1
   <2>6. Len(runs) + 1 \in OpenOf(rs, row[i].key)
      BY <2>3, <2>5 DEF OpenOf, new
   <2>7. CurrentRun(rs, row[i].key) \in OpenOf(rs, row[i].key)
      BY <2>6 DEF CurrentRun
   <2>8. \A q \in DOMAIN rs \ DOMAIN runs : q = Len(runs) + 1
      BY <2>3
   <2>9. \A q \in DOMAIN rs \ DOMAIN runs : rs[q].inst = i /\ rs[q].key = row[i].key /\ rs[q].open
      BY <2>5, <2>8 DEF new
   <2>10. DOMAIN runs \subseteq DOMAIN rs
      BY <2>3
   <2> QED
      BY <1>4, <2>2, <2>4, <2>7, <2>8, <2>9, <2>10 DEF rs
 <1> QED
    BY <1>3, <1>4

\* A close leaves every execution in place and closes the one that is named, or all
\* of the key when none is (TerminateWorkflow).
LEMMA TerminatedRuns ==
    ASSUME RunsOK, NEW i, NEW r
    PROVE  LET rs == TerminateWorkflow(i, r)
           IN /\ rs \in Seq(RunRecord)
              /\ DOMAIN rs = DOMAIN runs
              /\ \A q \in DOMAIN runs :
                   /\ rs[q].inst = runs[q].inst /\ rs[q].key = runs[q].key
                   /\ rs[q].open <=> runs[q].open /\ q # r /\ ~(r = NoRun /\ runs[q].key = row[i].key)
 <1> DEFINE rs == TerminateWorkflow(i, r)
 <1>1. runs \in Seq(RunRecord) /\ DOMAIN runs = 1..Len(runs) /\ Len(runs) \in Nat
    BY DEF RunsOK
 <1>2. DOMAIN rs = DOMAIN runs
    BY DEF TerminateWorkflow
 <1>3. \A q \in DOMAIN runs : runs[q] \in RunRecord
    BY <1>1
 <1>4. \A q \in DOMAIN runs :
         /\ rs[q] \in RunRecord
         /\ rs[q].inst = runs[q].inst /\ rs[q].key = runs[q].key
         /\ rs[q].open <=> runs[q].open /\ q # r /\ ~(r = NoRun /\ runs[q].key = row[i].key)
    BY <1>3 DEF TerminateWorkflow, RunRecord
 <1>5. rs \in [1..Len(runs) -> RunRecord]
    BY <1>1, <1>2, <1>4 DEF TerminateWorkflow
 <1>6. rs \in Seq(RunRecord)
    BY <1>1, <1>5
 <1> QED
    BY <1>2, <1>4, <1>6

\* Records that name a run go on naming one when executions are added.
LEMMA MoreRuns ==
    ASSUME StartTypeOK, DOMAIN runs \subseteq DOMAIN runs'
    PROVE  /\ UNCHANGED row => RowOK'
           /\ UNCHANGED start => StartOK'
           /\ UNCHANGED close => CloseOK'
    BY DEF StartTypeOK, RowOK, StartOK, CloseOK, RowRecord, StartRecord, CloseRecord, RunIds

\* A start that moves on keeps its type.
LEMMA StartAtType ==
    ASSUME StartTypeOK, UNCHANGED runs, NEW s \in Starter,
           NEW p \in {"new", "allowed", "create", "insert", "duplicate", "launch", "record", "check", "done",
                    "refused", "failed"},
           start' = [start EXCEPT ![s].pc = p]
    PROVE  StartOK'
    BY DEF StartTypeOK, StartOK, StartRecord, RunIds

\* A start that reads its task queue only moves on to the insert.
LEMMA QueueResolved ==
    ASSUME StartOK, NEW s \in Starter, ResolveTaskQueue(s)
    PROVE  /\ UNCHANGED <<row, runs, close, ctxvars, faults, history>> /\ start[s].pc = "create"
           /\ start' \in [Starter -> StartRecord] /\ start'[s].pc = "insert"
           /\ start'[s].inst = start[s].inst /\ start'[s].run = start[s].run
           /\ \A q \in Starter \ {s} : start'[q] = start[q]
    BY DEF ResolveTaskQueue, StartOK, StartRecord, RunIds

\* A terminate that moves on keeps its type.
LEMMA CloseAtType ==
    ASSUME StartTypeOK, DOMAIN runs \subseteq DOMAIN runs', NEW c \in Closer,
           NEW p \in {"new", "close", "mark", "confirm", "over", "failed"}, close' = [close EXCEPT ![c].pc = p]
    PROVE  CloseOK'
    BY DEF StartTypeOK, CloseOK, CloseRecord, RunIds

\* Every step of the starts, the terminates and the executions keeps the types.
LEMMA TypeStep == StartTypeOK /\ KeysAgree /\ [StartNext]_startvars => StartTypeOK'
 <1> SUFFICES ASSUME StartTypeOK, KeysAgree, [StartNext]_startvars
              PROVE  StartTypeOK'
    OBVIOUS
 <1> USE StartAssumption
 <1>t. RunsOK /\ RowOK /\ StartOK /\ CloseOK /\ MarksOK
    BY DEF StartTypeOK
 <1>f. Fault \/ NoFault => faults' \in 0 .. MaxFaults
    BY <1>t DEF Fault, NoFault, MarksOK
 <1>u. UNCHANGED runs => RunsOK' /\ RunIds' = RunIds
    BY <1>t DEF RunsOK, RunIds, RunRecord
 <1>1. ASSUME NEW s \in Starter, Gate(s) \/ Refuse(s) PROVE StartTypeOK'
   <2>1. UNCHANGED <<row, runs, close, ctxvars, faults, history>>
      BY <1>1 DEF Gate, Refuse
   <2>2. StartOK'
      BY <1>1, <2>1, StartAtType DEF Gate, Refuse, StartAt
   <2> QED
      BY <1>t, <1>u, <2>1, <2>2, MoreRuns DEF StartTypeOK, MarksOK, ctxvars, history
 <1>q. ASSUME NEW s \in Starter, ResolveTaskQueue(s) PROVE StartTypeOK'
   <2>1. UNCHANGED <<row, runs, close, ctxvars, faults, history>> /\ start' \in [Starter -> StartRecord]
      BY <1>q, <1>t, QueueResolved
   <2>2. StartRecord' = StartRecord
      BY <1>u, <2>1 DEF StartRecord
   <2> QED
      BY <1>t, <1>u, <2>1, <2>2, MoreRuns DEF StartTypeOK, StartOK, MarksOK, ctxvars, history
 <1>2. ASSUME NEW s \in Starter, MatchingStart(s) \/ Duplicate(s) PROVE StartTypeOK'
   <2>1. UNCHANGED <<row, runs, close, ctxvars, faults, history>>
      BY <1>2 DEF MatchingStart, Duplicate
   <2>2. ASSUME NEW i \in Matching(s), ResumeStart(s, i) PROVE StartOK'
     <3>1. i \in Inst /\ row[i].run \in RunIds
        BY <1>t DEF Matching, LiveOf, Live, RowOK, RowRecord
     <3>2. PICK p \in {"launch", "done"} :
             start' = [start EXCEPT ![s].pc = p, ![s].inst = i, ![s].run = row[i].run]
        BY <2>2 DEF ResumeStart
     <3>3. start[s] \in StartRecord
        BY <1>t DEF StartOK
     <3>4. [start[s] EXCEPT !.pc = p, !.inst = i, !.run = row[i].run] \in StartRecord
        BY <3>1, <3>3 DEF StartRecord
     <3>5. start' = [start EXCEPT ![s] = [start[s] EXCEPT !.pc = p, !.inst = i, !.run = row[i].run]]
        BY <3>2, Zenon
     <3>6. StartRecord' = StartRecord
        BY <1>u, <2>1 DEF StartRecord
     <3> QED
        BY <1>t, <3>4, <3>5, <3>6 DEF StartOK
   <2>3. StartOK'
      BY <1>2, <2>1, <2>2, StartAtType DEF MatchingStart, Duplicate, StartAt
   <2> QED
      BY <1>t, <1>u, <2>1, <2>3, MoreRuns DEF StartTypeOK, MarksOK, ctxvars, history
 <1>3. ASSUME NEW s \in Starter, Create(s) PROVE StartTypeOK'
   <2>0. UNCHANGED <<runs, close, ctxvars, faults, missed>>
      BY <1>3 DEF Create
   <2>1. CASE StartAt(s, "duplicate") /\ UNCHANGED <<row, late, shared>>
      BY <1>t, <1>u, <2>0, <2>1, MoreRuns, StartAtType DEF StartAt, StartTypeOK, MarksOK, ctxvars
   <2>2. ASSUME NEW i \in Inst, Inserted(i, s), start' = [start EXCEPT ![s].pc = "launch", ![s].inst = i],
                late' \in {late, late \cup {i}}, shared' \in {shared, shared \cup {i}}
         PROVE  StartTypeOK'
     <3>1. RowOK'
        BY <1>t, <2>0, <2>2 DEF Inserted, StartOK, StartRecord, RowOK, RowRecord, RunIds, NonTerminal
     <3>2. StartOK'
       <4>1. start[s] \in StartRecord /\ StartRecord' = StartRecord
          BY <1>t, <1>u, <2>0 DEF StartOK, StartRecord
       <4>2. [start[s] EXCEPT !.pc = "launch", !.inst = i] \in StartRecord
          BY <4>1 DEF StartRecord
       <4>3. start' = [start EXCEPT ![s] = [start[s] EXCEPT !.pc = "launch", !.inst = i]]
          BY <2>2, Zenon
       <4> QED
          BY <1>t, <4>1, <4>2, <4>3 DEF StartOK
     <3>3. MarksOK'
        BY <1>t, <2>0, <2>2 DEF MarksOK, ctxvars
     <3> QED
        BY <1>t, <1>u, <2>0, <3>1, <3>2, <3>3, MoreRuns DEF StartTypeOK
   <2> QED
      BY <1>3, <2>1, <2>2 DEF Create
 <1>4. ASSUME NEW s \in Starter, Launch(s) PROVE StartTypeOK'
   <2>0. UNCHANGED <<row, close, ctxvars, late, shared>>
      BY <1>4 DEF Launch
   <2>1. start[s].inst \in Inst /\ row[start[s].inst].key \in Key
      BY <1>4 DEF Launch, Launching, KeysAgree, StartsNamed, ClosesNamed, ExecutionsNamed, Named
   <2>2. runs' \in {runs, StartWorkflow(start[s].inst)}
      BY <1>4 DEF Launch, Launched
   <2>3. RunsOK' /\ DOMAIN runs \subseteq DOMAIN runs'
     <3> DEFINE rs == StartWorkflow(start[s].inst)
     <3>2. rs \in Seq(RunRecord) /\ DOMAIN runs \subseteq DOMAIN rs
        BY <1>t, <2>1, StartedRuns
     <3>3. RunRecord' = RunRecord
        BY DEF RunRecord
     <3> QED
        BY <1>t, <2>2, <3>2, <3>3 DEF RunsOK
   <2>4. RowOK' /\ CloseOK'
      BY <2>0, <2>3, MoreRuns
   <2>5. StartOK'
     <3>1. CASE Launched(s)
       <4>1. CurrentRun(runs', row[start[s].inst].key) \in DOMAIN runs'
          BY <1>t, <2>1, <3>1, StartedRuns DEF Launched, OpenOf
       <4>2. PICK r \in DOMAIN runs' : start' = [start EXCEPT ![s].pc = "record", ![s].run = r]
          BY <3>1, <4>1 DEF Launched
       <4>3. start[s] \in StartRecord /\ StartRecord \subseteq StartRecord'
          BY <1>t, <2>3 DEF StartOK, StartRecord, RunIds
       <4>4. [start[s] EXCEPT !.pc = "record", !.run = r] \in StartRecord'
          BY <4>3 DEF StartRecord, RunIds
       <4>5. start' = [start EXCEPT ![s] = [start[s] EXCEPT !.pc = "record", !.run = r]]
          BY <4>2, Zenon
       <4> QED
          BY <1>t, <4>3, <4>4, <4>5 DEF StartOK
     <3>2. CASE start' = [start EXCEPT ![s] = [NoStart EXCEPT !.pc = "failed"]]
        BY <1>t, <2>3, <3>2 DEF NoStart, StartOK, StartRecord, RunIds
     <3>3. CASE start' = [start EXCEPT ![s].attempt = @ + 1] /\ start[s].attempt + 1 < startWorkflowMaxAttempts
        BY <1>t, <2>3, <3>3 DEF StartOK, StartRecord, RunIds
     <3> QED
        BY <1>4, <3>1, <3>2, <3>3 DEF Launch
   <2>6. MarksOK'
      BY <1>4, <1>t, <1>f, <2>0, <2>1 DEF Launch, MarksOK, ctxvars
   <2> QED
      BY <2>3, <2>4, <2>5, <2>6 DEF StartTypeOK
 <1>5. ASSUME NEW s \in Starter, RecordRunID(s) PROVE StartTypeOK'
   <2>0. UNCHANGED <<runs, close, ctxvars, late, shared>> /\ start[s].inst \in Inst
      BY <1>5 DEF RecordRunID, KeysAgree, StartsNamed, ClosesNamed, ExecutionsNamed, Launching, Named
   <2>1. StartOK'
      BY <1>5, <2>0, StartAtType DEF RecordRunID, StartAt
   <2>2. RowOK'
     <3>1. start[s].run \in RunIds
        BY <1>t DEF StartOK, StartRecord
     <3>2. CASE row' = [row EXCEPT ![start[s].inst].run = start[s].run]
        BY <1>t, <1>u, <2>0, <3>1, <3>2 DEF RowOK, RowRecord
     <3> QED
        BY <1>5, <2>0, <3>2, MoreRuns DEF RecordRunID
   <2>3. MarksOK'
      BY <1>5, <1>t, <1>f, <2>0 DEF RecordRunID, MarksOK, ctxvars
   <2> QED
      BY <1>u, <1>t, <2>0, <2>1, <2>2, <2>3, MoreRuns DEF StartTypeOK
 <1>6. ASSUME NEW s \in Starter, AfterWorkflowStarted(s) PROVE StartTypeOK'
   <2>0. UNCHANGED <<row, close, ctxvars, late, shared>> /\ start[s].inst \in Inst
      BY <1>6 DEF AfterWorkflowStarted, KeysAgree, StartsNamed, ClosesNamed, ExecutionsNamed, Launching,
         Named
   <2>1. runs' \in {runs, TerminateWorkflow(start[s].inst, start[s].run)}
      BY <1>6 DEF AfterWorkflowStarted
   <2>2. RunsOK' /\ DOMAIN runs' = DOMAIN runs
      BY <1>t, <2>1, TerminatedRuns DEF RunsOK, RunRecord
   <2>3. StartOK'
      BY <1>6, <1>t, <2>2 DEF AfterWorkflowStarted, StartAt, StartOK, StartRecord, RunIds
   <2>4. MarksOK'
      BY <1>6, <1>t, <1>f, <2>0 DEF AfterWorkflowStarted, MarksOK, ctxvars
   <2> QED
      BY <2>0, <2>2, <2>3, <2>4, MoreRuns DEF StartTypeOK
 <1>7. ASSUME NEW s \in Starter, StartDies(s) \/ Retry(s) PROVE StartTypeOK'
   <2>0. UNCHANGED <<row, runs, close, ctxvars, late, shared>>
      BY <1>7 DEF StartDies, Retry, history
   <2>1. StartOK'
      BY <1>7, <1>t, <2>0 DEF StartDies, Retry, NoStart, StartOK, StartRecord, RunIds
   <2>2. MarksOK'
      BY <1>7, <1>t, <1>f, <2>0 DEF StartDies, Retry, MarksOK, KeysAgree, StartsNamed, ClosesNamed,
         ExecutionsNamed, Named, ctxvars, history
   <2> QED
      BY <1>t, <1>u, <2>0, <2>1, <2>2, MoreRuns DEF StartTypeOK
 <1>8. ASSUME NEW c \in Closer, Terminate(c) PROVE StartTypeOK'
   <2>0. UNCHANGED <<row, runs, start, ctxvars, faults, history>>
      BY <1>8 DEF Terminate
   <2>1. CloseOK'
      BY <1>8, <1>t, <2>0 DEF Terminate, CloseOK, CloseRecord, RowOK, RowRecord, RunIds
   <2> QED
      BY <1>t, <1>u, <2>0, <2>1, MoreRuns DEF StartTypeOK, MarksOK, ctxvars, history
 <1>9. ASSUME NEW c \in Closer, CloseExecution(c) \/ ConfirmClosed(c) PROVE StartTypeOK'
   <2>0. UNCHANGED <<row, start, ctxvars, late, shared>> /\ close[c].inst \in Inst
      BY <1>9 DEF CloseExecution, ConfirmClosed, KeysAgree, StartsNamed, ClosesNamed, ExecutionsNamed,
         Closing, Named, history
   <2>1. runs' \in {runs, TerminateWorkflow(close[c].inst, close[c].run)}
      BY <1>9 DEF CloseExecution, ConfirmClosed
   <2>2. RunsOK' /\ DOMAIN runs' = DOMAIN runs
      BY <1>t, <2>1, TerminatedRuns DEF RunsOK, RunRecord
   <2>3. CloseOK'
      BY <1>9, <2>2, CloseAtType DEF CloseExecution, ConfirmClosed, CloseAt
   <2>4. MarksOK'
      BY <1>9, <1>t, <1>f, <2>0 DEF CloseExecution, ConfirmClosed, MarksOK, ctxvars, history
   <2> QED
      BY <2>0, <2>2, <2>3, <2>4, MoreRuns DEF StartTypeOK
 <1>10. ASSUME NEW c \in Closer, MarkTerminated(c) PROVE StartTypeOK'
   <2>0. UNCHANGED <<runs, start, ctxvars, faults, history>> /\ close[c].inst \in Inst
      BY <1>10 DEF MarkTerminated, KeysAgree, StartsNamed, ClosesNamed, ExecutionsNamed, Closing, Named
   <2>1. RowOK'
      BY <1>10, <1>t, <2>0 DEF MarkTerminated, RowOK, RowRecord, RunIds, Terminal
   <2>2. CloseOK'
     <3>1. row[close[c].inst].run \in RunIds
        BY <1>t, <2>0 DEF RowOK, RowRecord
     <3>2. CASE close' = [close EXCEPT ![c].pc = "confirm", ![c].run = row[close[c].inst].run]
        BY <1>t, <1>u, <2>0, <3>1, <3>2 DEF CloseOK, CloseRecord
     <3> QED
        BY <1>10, <2>0, <3>2, CloseAtType DEF MarkTerminated, CloseAt
   <2> QED
      BY <1>t, <1>u, <2>0, <2>1, <2>2, MoreRuns DEF StartTypeOK, MarksOK, ctxvars, history
 <1>11. ASSUME NEW c \in Closer, CloseAgain(c) \/ CloseDies(c) PROVE StartTypeOK'
   <2>0. UNCHANGED <<row, runs, start, ctxvars, late, shared>>
      BY <1>11 DEF CloseAgain, CloseDies, history
   <2>1. CloseOK'
      BY <1>11, <2>0, CloseAtType DEF CloseAgain, CloseDies, CloseAt
   <2>2. MarksOK'
      BY <1>11, <1>t, <1>f, <2>0 DEF CloseAgain, CloseDies, MarksOK, KeysAgree, StartsNamed, ClosesNamed,
         ExecutionsNamed, Named, ctxvars, history
   <2> QED
      BY <1>t, <1>u, <2>0, <2>1, <2>2, MoreRuns DEF StartTypeOK
 <1>12. ASSUME NEW r \in DOMAIN runs, Complete(r) PROVE StartTypeOK'
   <2>0. UNCHANGED <<runs, start, close, ctxvars, faults, history>>
      BY <1>12 DEF Complete
   <2>1. RowOK'
     <3>1. runs[r].inst \in Inst
        BY <1>12 DEF KeysAgree, StartsNamed, ClosesNamed, ExecutionsNamed, Named
     <3> QED
        BY <1>12, <1>t, <1>u, <2>0, <3>1 DEF Complete, RowOK, RowRecord, Terminal
   <2> QED
      BY <1>t, <1>u, <2>0, <2>1, MoreRuns DEF StartTypeOK, MarksOK, ctxvars, history
 <1>13. ASSUME NEW r \in DOMAIN runs, Return(r) PROVE StartTypeOK'
   <2>0. UNCHANGED <<row, start, close, ctxvars, faults, history>>
      BY <1>13 DEF Return
   <2>1. RunsOK' /\ DOMAIN runs' = DOMAIN runs
     <3>1. runs \in Seq(RunRecord) /\ DOMAIN runs = 1..Len(runs) /\ Len(runs) \in Nat /\ RunRecord' = RunRecord
        BY <1>t DEF RunsOK, RunRecord
     <3>2. runs[r] \in RunRecord
        BY <3>1
     <3>3. [runs[r] EXCEPT !.open = FALSE] \in RunRecord
        BY <3>2 DEF RunRecord
     <3>4. runs' = [runs EXCEPT ![r] = [runs[r] EXCEPT !.open = FALSE]]
        BY <1>13 DEF Return
     <3>5. runs' \in [1..Len(runs) -> RunRecord]
        BY <3>1, <3>3, <3>4
     <3> QED
        BY <3>1, <3>5 DEF RunsOK
   <2> QED
      BY <1>t, <2>0, <2>1, MoreRuns DEF StartTypeOK, MarksOK, ctxvars, history
 <1>14. CASE UNCHANGED startvars
    BY <1>14, <1>t, <1>u, MoreRuns DEF startvars, StartTypeOK, MarksOK, ctxvars, history
 <1> QED
    BY <1>1, <1>2, <1>3, <1>4, <1>5, <1>6, <1>7, <1>8, <1>9, <1>10, <1>11, <1>12, <1>13, <1>14, <1>q
       DEF StartNext, StartHandler, CloseStep

\* What no step undoes: executions keep their number, instance and key and stay
\* closed, a row that was written keeps its key, and one that is over stays over.
Kept ==
    /\ DOMAIN runs \subseteq DOMAIN runs'
    /\ \A r \in DOMAIN runs :
         runs'[r].inst = runs[r].inst /\ runs'[r].key = runs[r].key /\ (runs'[r].open => runs[r].open)
    /\ \A i \in Inst : row[i].status # "none" =>
         row'[i].status # "none" /\ row'[i].key = row[i].key /\ (i \notin Live => row'[i].status = row[i].status)

\* No step undoes any of it.
LEMMA StartKeeps == StartTypeOK /\ KeysAgree /\ [StartNext]_startvars => Kept
 <1> SUFFICES ASSUME StartTypeOK, KeysAgree, [StartNext]_startvars
              PROVE  Kept
    OBVIOUS
 <1>t. RunsOK /\ RowOK /\ StartOK /\ CloseOK
    BY DEF StartTypeOK
 <1> DEFINE RunsKept == /\ DOMAIN runs \subseteq DOMAIN runs'
                        /\ \A r \in DOMAIN runs :
                             runs'[r].inst = runs[r].inst /\ runs'[r].key = runs[r].key /\ (runs'[r].open => runs[r].open)
            RowsKept == \A i \in Inst : row[i].status # "none" =>
                          /\ row'[i].status # "none" /\ row'[i].key = row[i].key
                          /\ i \notin Live => row'[i].status = row[i].status
 <1>a. UNCHANGED runs => RunsKept
    OBVIOUS
 <1>b. UNCHANGED row => RowsKept
    OBVIOUS
 <1>c. ASSUME NEW i, NEW r, runs' = TerminateWorkflow(i, r) PROVE RunsKept
    BY <1>c, <1>t, TerminatedRuns
 <1>d. ASSUME NEW i \in Inst, row[i].key \in Key, runs' = StartWorkflow(i) PROVE RunsKept
    BY <1>d, <1>t, StartedRuns
 <1>e. ASSUME NEW i \in Live, NEW st \in Terminal, row' = [row EXCEPT ![i].status = st] PROVE RowsKept
    BY <1>e, <1>t DEF RowOK, RowRecord, Live, NonTerminal, Terminal
 <1> SUFFICES RunsKept /\ RowsKept
    BY DEF Kept
 <1>1. ASSUME NEW s \in Starter, Gate(s) \/ Refuse(s) \/ MatchingStart(s) \/ Duplicate(s) \/ StartDies(s) \/ Retry(s)
       PROVE  RunsKept /\ RowsKept
    BY <1>1, <1>a, <1>b DEF Gate, Refuse, MatchingStart, Duplicate, StartDies, Retry
 <1>q. ASSUME NEW s \in Starter, ResolveTaskQueue(s) PROVE RunsKept /\ RowsKept
    BY <1>q, <1>a, <1>b DEF ResolveTaskQueue
 <1>2. ASSUME NEW s \in Starter, Create(s) PROVE RunsKept /\ RowsKept
   <2>1. CASE UNCHANGED row
      BY <1>2, <1>a, <1>b, <2>1 DEF Create
   <2>2. ASSUME NEW i \in Inst, row[i].status = "none", Inserted(i, s) PROVE RowsKept
      BY <1>t, <2>2 DEF Inserted, RowOK, RowRecord
   <2> QED
      BY <1>2, <1>a, <2>1, <2>2 DEF Create
 <1>3. ASSUME NEW s \in Starter, Launch(s) PROVE RunsKept /\ RowsKept
   <2>1. start[s].inst \in Inst /\ row[start[s].inst].key \in Key
      BY <1>3 DEF Launch, Launching, KeysAgree, StartsNamed, ClosesNamed, ExecutionsNamed, Named
   <2> QED
      BY <1>3, <1>a, <1>b, <1>d, <2>1 DEF Launch, Launched
 <1>4. ASSUME NEW s \in Starter, RecordRunID(s) PROVE RunsKept /\ RowsKept
    BY <1>4, <1>t, <1>a, <1>b DEF RecordRunID, RowOK, RowRecord
 <1>5. ASSUME NEW s \in Starter, AfterWorkflowStarted(s) PROVE RunsKept /\ RowsKept
    BY <1>5, <1>a, <1>b, <1>c DEF AfterWorkflowStarted
 <1>6. ASSUME NEW c \in Closer, Terminate(c) \/ CloseAgain(c) \/ CloseDies(c) PROVE RunsKept /\ RowsKept
    BY <1>6, <1>a, <1>b DEF Terminate, CloseAgain, CloseDies
 <1>7. ASSUME NEW c \in Closer, CloseExecution(c) \/ ConfirmClosed(c) PROVE RunsKept /\ RowsKept
    BY <1>7, <1>a, <1>b, <1>c DEF CloseExecution, ConfirmClosed
 <1>8. ASSUME NEW c \in Closer, MarkTerminated(c) PROVE RunsKept /\ RowsKept
    BY <1>8, <1>a, <1>b, <1>e DEF MarkTerminated, Terminal
 <1>9. ASSUME NEW r \in DOMAIN runs, Complete(r) PROVE RunsKept /\ RowsKept
   <2>1. runs[r].inst \in Live
      BY <1>9 DEF Complete, Live, NonTerminal, KeysAgree, StartsNamed, ClosesNamed, ExecutionsNamed, Named
   <2> QED
      BY <1>9, <1>a, <1>e, <2>1 DEF Complete, Terminal
 <1>10. ASSUME NEW r \in DOMAIN runs, Return(r) PROVE RunsKept /\ RowsKept
   <2>1. \A q \in DOMAIN runs : runs[q] \in RunRecord
      BY <1>t DEF RunsOK
   <2> QED
      BY <1>10, <1>b, <2>1 DEF Return, RunRecord
 <1>11. CASE UNCHANGED startvars
    BY <1>11, <1>a, <1>b DEF startvars
 <1> QED
    BY <1>1, <1>2, <1>3, <1>4, <1>5, <1>6, <1>7, <1>8, <1>9, <1>10, <1>11, <1>q
       DEF StartNext, StartHandler, CloseStep

\* A step that starts, closes and writes nothing new keeps what is named.
LEMMA KeysKept ==
    ASSUME StartTypeOK, StartTypeOK', KeysAgree, Kept
    PROVE  /\ (\A s \in Starter : Launching(s)' => Launching(s) /\ start'[s].inst = start[s].inst)
              => StartsNamed'
           /\ (\A s \in Starter : AtRun(s)' => AtRun(s) /\ start'[s].run = start[s].run) => RunsNamed'
           /\ (\A c \in Closer : Closing(c)' => Closing(c) /\ close'[c].inst = close[c].inst /\ close'[c].run = close[c].run)
              => ClosesNamed'
           /\ (\A i \in Inst : row'[i].run \in {NoRun, row[i].run} /\ row'[i].key = row[i].key
                               /\ (row'[i].status = "none" <=> row[i].status = "none"))
              => RowsNamed'
           /\ DOMAIN runs' = DOMAIN runs => ExecutionsNamed'
 <1>k. StartsNamed /\ RunsNamed /\ ClosesNamed /\ RowsNamed /\ ExecutionsNamed
    BY DEF KeysAgree
 <1>n. \A i : Named(i) => Named(i)' /\ row'[i].key = row[i].key
    BY DEF Named, Kept
 <1>1. (\A s \in Starter : Launching(s)' => Launching(s) /\ start'[s].inst = start[s].inst) => StartsNamed'
    BY <1>k, <1>n DEF StartsNamed
 <1>2. (\A s \in Starter : AtRun(s)' => AtRun(s) /\ start'[s].run = start[s].run) => RunsNamed'
    BY <1>k DEF RunsNamed, Kept
 <1>3. ASSUME NEW c \in Closer, Closing(c), close'[c].inst = close[c].inst, close'[c].run = close[c].run
       PROVE  Named(close[c].inst)' /\ (close'[c].run # NoRun => runs'[close'[c].run].key = row'[close'[c].inst].key)
   <2>1. close[c].run \in RunIds
      BY DEF StartTypeOK, CloseOK, CloseRecord
   <2> QED
      BY <1>3, <1>k, <1>n, <2>1 DEF ClosesNamed, Kept, RunIds
 <1>4. (\A i \in Inst : row'[i].run \in {NoRun, row[i].run} /\ row'[i].key = row[i].key
                        /\ (row'[i].status = "none" <=> row[i].status = "none")) => RowsNamed'
   <2>1. \A i \in Inst : row[i].run \in RunIds
      BY DEF StartTypeOK, RowOK, RowRecord
   <2> QED
      BY <1>k, <2>1 DEF RowsNamed, Kept, RunIds
 <1>5. DOMAIN runs' = DOMAIN runs => ExecutionsNamed'
    BY <1>k, <1>n DEF ExecutionsNamed, Kept
 <1> QED
    BY <1>1, <1>2, <1>3, <1>4, <1>5 DEF ClosesNamed

\* What a start, a terminate, a row and an execution name agrees on its key.
LEMMA KeysStep == StartTypeOK /\ KeysAgree /\ [StartNext]_startvars => KeysAgree'
 <1> SUFFICES ASSUME StartTypeOK, KeysAgree, [StartNext]_startvars
              PROVE  KeysAgree'
    OBVIOUS
 <1> USE StartAssumption
 <1>t. RunsOK /\ RowOK /\ StartOK /\ CloseOK
    BY DEF StartTypeOK
 <1>v. StartTypeOK' /\ Kept
    BY TypeStep, StartKeeps
 <1>k. StartsNamed /\ RunsNamed /\ ClosesNamed /\ RowsNamed /\ ExecutionsNamed
    BY DEF KeysAgree
 <1>n. \A i : Named(i) => Named(i)' /\ row'[i].key = row[i].key
    BY <1>v DEF Named, Kept
 <1>a. UNCHANGED start => StartsNamed' /\ RunsNamed'
    BY <1>v, KeysKept DEF Launching, AtRun
 <1>b. UNCHANGED close => ClosesNamed'
    BY <1>v, KeysKept DEF Closing
 <1>c. UNCHANGED row => RowsNamed'
    BY <1>v, KeysKept
 <1>d. UNCHANGED runs => ExecutionsNamed'
    BY <1>v, KeysKept
 <1>e. ASSUME NEW i, NEW r, runs' = TerminateWorkflow(i, r) PROVE ExecutionsNamed'
    BY <1>e, <1>t, <1>v, TerminatedRuns, KeysKept
 <1>f. ASSUME NEW s \in Starter, NEW p, StartAt(s, p), p \notin {"launch", "record"},
              p = "check" => start[s].pc = "record"
       PROVE  StartsNamed' /\ RunsNamed'
    BY <1>f, <1>t, <1>v, KeysKept DEF StartAt, StartOK, StartRecord, Launching, AtRun
 <1>g. ASSUME NEW s \in Starter, NEW x \in {NoStart, [NoStart EXCEPT !.pc = "failed"]}, start' = [start EXCEPT ![s] = x]
       PROVE  StartsNamed' /\ RunsNamed'
    BY <1>g, <1>t, <1>v, KeysKept DEF StartOK, StartRecord, Launching, AtRun, NoStart
 <1>h. ASSUME NEW c \in Closer, NEW p, CloseAt(c, p), p # "close", Closing(c) \/ p \in {"new", "over", "failed"} PROVE ClosesNamed'
    BY <1>h, <1>t, <1>v, KeysKept DEF CloseAt, CloseOK, CloseRecord, Closing

 <1>1. ASSUME NEW s \in Starter, Gate(s) \/ Refuse(s) PROVE KeysAgree'
    BY <1>1, <1>b, <1>c, <1>d, <1>f DEF Gate, Refuse, KeysAgree
 <1>q. ASSUME NEW s \in Starter, ResolveTaskQueue(s) PROVE KeysAgree'
   <2>1. /\ UNCHANGED <<row, runs, close>> /\ start'[s].pc = "insert"
         /\ \A q \in Starter \ {s} : start'[q] = start[q]
      BY <1>q, <1>t, QueueResolved
   <2>2. StartsNamed' /\ RunsNamed'
      BY <1>k, <2>1 DEF StartsNamed, RunsNamed, Launching, AtRun, Named
   <2> QED
      BY <1>b, <1>c, <1>d, <2>1, <2>2 DEF KeysAgree
 <1>2. ASSUME NEW s \in Starter, MatchingStart(s) \/ Duplicate(s) PROVE KeysAgree'
   <2>0. UNCHANGED <<row, runs, close>>
      BY <1>2 DEF MatchingStart, Duplicate
   <2>1. CASE \E p \in {"create", "refused"} : StartAt(s, p)
      BY <1>b, <1>c, <1>d, <1>f, <2>0, <2>1 DEF KeysAgree
   <2>2. ASSUME NEW i \in Matching(s), ResumeStart(s, i) PROVE KeysAgree'
     <3>1. Named(i) /\ row[i].key = KeyOf[s]
        BY DEF Matching, LiveOf, Live, Named, NonTerminal
     <3>2. \A q \in Starter : q # s => start'[q] = start[q]
        BY <2>2, <1>t DEF ResumeStart, StartOK
     <3>3. start'[s].inst = i /\ start'[s].pc \in {"launch", "done"}
        BY <2>2, <1>t DEF ResumeStart, StartOK, StartRecord
     <3>4. StartsNamed'
        BY <1>k, <2>0, <3>1, <3>2, <3>3 DEF StartsNamed, Launching, Named
     <3>5. RunsNamed'
        BY <1>k, <2>0, <3>2, <3>3 DEF RunsNamed, AtRun
     <3> QED
        BY <1>b, <1>c, <1>d, <2>0, <3>4, <3>5 DEF KeysAgree
   <2> QED
      BY <1>2, <2>1, <2>2 DEF MatchingStart, Duplicate
 <1>3. ASSUME NEW s \in Starter, Create(s) PROVE KeysAgree'
   <2>0. UNCHANGED <<runs, close>>
      BY <1>3 DEF Create
   <2>1. CASE StartAt(s, "duplicate") /\ UNCHANGED row
     <3>1. StartsNamed' /\ RunsNamed'
        BY <1>f, <2>1
     <3> QED
        BY <1>b, <1>c, <1>d, <2>0, <2>1, <3>1 DEF KeysAgree
   <2>2. ASSUME NEW i \in Inst, row[i].status = "none", Inserted(i, s),
                start' = [start EXCEPT ![s].pc = "launch", ![s].inst = i]
         PROVE  KeysAgree'
     <3>1. /\ row'[i].key = KeyOf[s] /\ row'[i].status = "RUNNING" /\ row'[i].run = NoRun
           /\ \A j \in Inst : j # i => row'[j] = row[j]
        BY <1>t, <2>2 DEF Inserted, RowOK
     <3>2. KeyOf[s] \in Key
        OBVIOUS
     <3>3. \A q \in Starter : q # s => start'[q] = start[q]
        BY <2>2, <1>t DEF StartOK
     <3>4. start'[s].inst = i /\ start'[s].pc = "launch"
        BY <2>2, <1>t DEF StartOK, StartRecord
     <3>5. StartsNamed'
        BY <1>k, <1>n, <3>1, <3>2, <3>3, <3>4 DEF StartsNamed, Launching, Named
     <3>6. RunsNamed'
        BY <1>k, <2>0, <3>3, <3>4 DEF RunsNamed, AtRun
     <3>7. RowsNamed'
        BY <1>k, <2>0, <3>1, <3>2 DEF RowsNamed
     <3> QED
        BY <1>b, <1>d, <2>0, <3>5, <3>6, <3>7 DEF KeysAgree
   <2> QED
      BY <1>3, <2>1, <2>2 DEF Create
 <1>4. ASSUME NEW s \in Starter, Launch(s) PROVE KeysAgree'
   <2> DEFINE i == start[s].inst
   <2>0. UNCHANGED <<row, close>> /\ runs' \in {runs, StartWorkflow(i)} /\ Launching(s)
      BY <1>4 DEF Launch, Launched, Launching
   <2>1. Named(i) /\ row[i].key = KeyOf[s]
      BY <1>k, <2>0 DEF StartsNamed
   <2>2. ExecutionsNamed'
     <3>1. CASE runs' = runs
        BY <1>d, <3>1
     <3>2. CASE runs' = StartWorkflow(i)
        BY <1>k, <1>t, <2>0, <2>1, <3>2, StartedRuns DEF ExecutionsNamed, Named
     <3> QED
        BY <2>0, <3>1, <3>2
   <2>3. StartsNamed' /\ RunsNamed'
     <3>1. CASE Launched(s)
       <4>1. CurrentRun(runs', KeyOf[s]) \in OpenOf(runs', KeyOf[s])
          BY <1>t, <2>1, <3>1, StartedRuns DEF Launched, Named
       <4>2. \A q \in Starter : q # s => start'[q] = start[q]
          BY <3>1, <1>t DEF Launched, StartOK
       <4>3. start'[s].inst = i /\ start'[s].pc = "record" /\ start'[s].run = CurrentRun(runs', KeyOf[s])
          BY <2>1, <3>1, <1>t DEF Launched, StartOK, StartRecord
       <4>4. StartsNamed'
          BY <1>k, <2>0, <2>1, <4>2, <4>3 DEF StartsNamed, Launching, Named
       <4>5. RunsNamed'
          BY <1>k, <1>v, <4>1, <4>2, <4>3 DEF RunsNamed, AtRun, OpenOf, Kept
       <4> QED
          BY <4>4, <4>5
     <3>2. CASE start' = [start EXCEPT ![s].attempt = @ + 1]
        BY <1>t, <1>v, <3>2, KeysKept DEF StartOK, StartRecord, Launching, AtRun
     <3> QED
        BY <1>4, <1>g, <3>1, <3>2 DEF Launch
   <2> QED
      BY <1>b, <1>c, <2>0, <2>2, <2>3 DEF KeysAgree
 <1>5. ASSUME NEW s \in Starter, RecordRunID(s) PROVE KeysAgree'
   <2>0. UNCHANGED <<runs, close>> /\ start[s].pc = "record"
      BY <1>5 DEF RecordRunID
   <2>1. StartsNamed' /\ RunsNamed'
     <3>1. StartAt(s, "check")
        BY <1>5 DEF RecordRunID
     <3> QED
        BY <1>f, <2>0, <3>1
   <2>2. ASSUME row' = [row EXCEPT ![start[s].inst].run = start[s].run] PROVE RowsNamed'
     <3>1. runs[start[s].run].key = row[start[s].inst].key
        BY <1>k, <2>0 DEF StartsNamed, RunsNamed, AtRun, Launching
     <3>2. \A i \in Inst : row'[i].key = row[i].key /\ row'[i].status = row[i].status
                            /\ row'[i].run = IF i = start[s].inst THEN start[s].run ELSE row[i].run
        BY <1>t, <2>2 DEF RowOK, RowRecord
     <3>3. \A i \in Inst \ {start[s].inst} : row'[i].run = row[i].run
        BY <3>2
     <3>4. start[s].inst \in Inst => row'[start[s].inst].run = start[s].run
        BY <3>2
     <3> QED
        BY <1>k, <2>0, <3>1, <3>2, <3>3, <3>4 DEF RowsNamed
   <2> QED
      BY <1>5, <1>b, <1>c, <1>d, <2>0, <2>1, <2>2 DEF RecordRunID, KeysAgree
 <1>6. ASSUME NEW s \in Starter, AfterWorkflowStarted(s) PROVE KeysAgree'
   <2>1. StartAt(s, "done")
      BY <1>6 DEF AfterWorkflowStarted
   <2>2. StartsNamed' /\ RunsNamed'
      BY <1>f, <2>1
   <2> QED
      BY <1>6, <1>b, <1>c, <1>d, <1>e, <2>2 DEF AfterWorkflowStarted, KeysAgree
 <1>7. ASSUME NEW s \in Starter, StartDies(s) \/ Retry(s) PROVE KeysAgree'
    BY <1>7, <1>b, <1>c, <1>d, <1>g DEF StartDies, Retry, KeysAgree
 <1>8. ASSUME NEW c \in Closer, Terminate(c) PROVE KeysAgree'
   <2>0. UNCHANGED <<row, runs, start>>
      BY <1>8 DEF Terminate
   <2>1. PICK i \in Inst : /\ row[i].status # "none"
                           /\ close' = [close EXCEPT ![c] = [pc |-> IF i \in Live THEN "close" ELSE "over",
                                                             inst |-> i, run |-> row[i].run]]
      BY <1>8 DEF Terminate
   <2>2. Named(i) /\ (row[i].run # NoRun => runs[row[i].run].key = row[i].key)
      BY <1>k, <2>1 DEF RowsNamed, Named
   <2>3. \A d \in Closer : d # c => close'[d] = close[d]
      BY <1>t, <2>1 DEF CloseOK
   <2>4. close'[c].inst = i /\ close'[c].run = row[i].run
      BY <1>t, <2>1 DEF CloseOK
   <2>5. ClosesNamed'
      BY <1>k, <2>0, <2>2, <2>3, <2>4 DEF ClosesNamed, Closing, Named
   <2> QED
      BY <1>a, <1>c, <1>d, <2>0, <2>5 DEF KeysAgree
 <1>9. ASSUME NEW c \in Closer, CloseExecution(c) \/ ConfirmClosed(c) PROVE KeysAgree'
    BY <1>9, <1>a, <1>c, <1>d, <1>e, <1>h DEF CloseExecution, ConfirmClosed, Closing, KeysAgree
 <1>10. ASSUME NEW c \in Closer, MarkTerminated(c) PROVE KeysAgree'
   <2>0. UNCHANGED <<runs, start>> /\ Closing(c)
      BY <1>10 DEF MarkTerminated, Closing
   <2>1. CASE CloseAt(c, "over") /\ UNCHANGED row
      BY <1>a, <1>c, <1>d, <1>h, <2>0, <2>1 DEF KeysAgree
   <2>2. ASSUME NEW i \in Live, i = close[c].inst, row' = [row EXCEPT ![i].status = "TERMINATED"],
                close' = [close EXCEPT ![c].pc = "confirm", ![c].run = row[i].run]
         PROVE  KeysAgree'
     <3>1. \A j \in Inst : row'[j].run = row[j].run /\ row'[j].key = row[j].key
                            /\ (row'[j].status = "none" <=> row[j].status = "none")
        BY <1>t, <2>2 DEF RowOK, RowRecord, Live, NonTerminal
     <3>2. RowsNamed'
        BY <1>k, <2>0, <3>1 DEF RowsNamed
     <3>3. /\ \A d \in Closer : d # c => close'[d] = close[d]
           /\ close'[c].inst = i /\ close'[c].run = row[i].run
        BY <1>t, <2>2 DEF CloseOK, CloseRecord
     <3>4. ClosesNamed'
       <4>1. Named(i) /\ row'[i].key = row[i].key
          BY <1>k, <1>n, <2>0, <2>2 DEF ClosesNamed
       <4>2. Named(i)' /\ (row[i].run # NoRun => runs[row[i].run].key = row[i].key)
          BY <1>k, <1>n, <4>1 DEF RowsNamed, Live
       <4>3. ASSUME NEW d \in Closer, d # c, Closing(d)'
             PROVE  /\ Named(close[d].inst)'
                    /\ close'[d].run # NoRun => runs'[close'[d].run].key = row'[close'[d].inst].key
          BY <1>k, <1>n, <2>0, <3>3, <4>3 DEF ClosesNamed, Closing
       <4> QED
          BY <2>0, <3>3, <4>1, <4>2, <4>3 DEF ClosesNamed
     <3> QED
        BY <1>a, <1>d, <2>0, <3>2, <3>4 DEF KeysAgree
   <2> QED
      BY <1>10, <2>1, <2>2 DEF MarkTerminated
 <1>11. ASSUME NEW c \in Closer, CloseAgain(c) \/ CloseDies(c) PROVE KeysAgree'
    BY <1>11, <1>a, <1>c, <1>d, <1>h DEF CloseAgain, CloseDies, KeysAgree
 <1>12. ASSUME NEW r \in DOMAIN runs, Complete(r) PROVE KeysAgree'
   <2>1. \A j \in Inst : /\ row'[j].run = row[j].run /\ row'[j].key = row[j].key
                          /\ row'[j].status = "none" <=> row[j].status = "none"
      BY <1>12, <1>t DEF Complete, RowOK, RowRecord
   <2> QED
      BY <1>12, <1>a, <1>b, <1>d, <1>v, <2>1, KeysKept DEF Complete, KeysAgree
 <1>13. ASSUME NEW r \in DOMAIN runs, Return(r) PROVE KeysAgree'
   <2>1. DOMAIN runs' = DOMAIN runs
      BY <1>13 DEF Return
   <2> QED
      BY <1>13, <1>a, <1>b, <1>c, <1>v, <2>1, KeysKept DEF Return, KeysAgree
 <1>14. CASE UNCHANGED startvars
    BY <1>14, <1>a, <1>b, <1>c, <1>d DEF startvars, KeysAgree
 <1> QED
    BY <1>1, <1>2, <1>3, <1>4, <1>5, <1>6, <1>7, <1>8, <1>9, <1>10, <1>11, <1>12, <1>13, <1>14, <1>q
       DEF StartNext, StartHandler, CloseStep

(***************************************************************************)
(* What a step does, apart from what it keeps.                             *)
(***************************************************************************)
\* A start gets under way with a live instance of its key, and to a run that is
\* open under its key.
StartsMove ==
    \A s \in Starter :
        /\ Launching(s)' => \/ Launching(s) /\ start'[s].inst = start[s].inst
                            \/ /\ start'[s].pc = "launch" /\ start'[s].inst \in Live'
                               /\ row'[start'[s].inst].key = KeyOf[s]
        /\ AtRun(s)' => \/ AtRun(s) /\ start'[s].inst = start[s].inst /\ start'[s].run = start[s].run
                        \/ /\ Launching(s) /\ start'[s].inst = start[s].inst
                           /\ start'[s].run \in OpenOf(runs', KeyOf[s])

\* A terminate gets under way with a live instance, which it goes on naming.
ClosesMove ==
    \A c \in Closer :
        /\ Closing(c)' => \/ Closing(c) /\ close'[c].inst = close[c].inst
                          \/ close'[c].inst \in Live' /\ close'[c].inst \in Live
        /\ close[c].inst \in Inst => close'[c].inst = close[c].inst

\* A new execution is one of a start under way whose key has none.
RunsAppear ==
    /\ \A r \in DOMAIN runs' \ DOMAIN runs :
         /\ \E s \in Starter : /\ Launching(s) /\ runs'[r].inst = start[s].inst /\ runs'[r].key = KeyOf[s]
                               /\ OpenOf(runs, KeyOf[s]) = {}
         /\ runs'[r].open /\ UNCHANGED row
    /\ \A q, r \in DOMAIN runs' \ DOMAIN runs : q = r

\* A new row: no other is live under its key, and if its key is not free of
\* older requests and executions, it is marked.
RowsAppear ==
    \A i \in Inst : row[i].status = "none" /\ row'[i].status # "none" =>
        /\ i \in Live' /\ row'[i].run = NoRun /\ UNCHANGED <<runs, close>>
        /\ \A j \in Inst \ {i} : row'[j] = row[j]
        /\ LiveOf(row'[i].key) = {}
        /\ i \notin shared' =>
             /\ OpenOf(runs, row'[i].key) = {}
             /\ \A s \in Starter : Launching(s) => KeyOf[s] # row'[i].key
             /\ \A c \in Closer : Closing(c) => row[close[c].inst].key # row'[i].key

\* A row names another run only because a start recorded it.
RunsRecorded ==
    \A i \in Inst : row[i].status # "none" =>
        \/ row'[i].run = row[i].run
        \/ \E s \in Starter : AtRun(s) /\ start[s].inst = i /\ row'[i].run = start[s].run

Marks == shared \subseteq shared' /\ missed \subseteq missed'

\* What every step does to the starts, terminates, executions and rows.
LEMMA StepEffects ==
    StartTypeOK /\ KeysAgree /\ [StartNext]_startvars
      => StartsMove /\ ClosesMove /\ RunsAppear /\ RowsAppear /\ RunsRecorded /\ Marks
 <1> SUFFICES ASSUME StartTypeOK, KeysAgree, [StartNext]_startvars
              PROVE  StartsMove /\ ClosesMove /\ RunsAppear /\ RowsAppear /\ RunsRecorded /\ Marks
    OBVIOUS
 <1> USE StartAssumption
 <1>t. RunsOK /\ RowOK /\ StartOK /\ CloseOK
    BY DEF StartTypeOK
 <1>k. StartsNamed /\ RunsNamed /\ ClosesNamed /\ RowsNamed /\ ExecutionsNamed
    BY DEF KeysAgree
 <1>a. UNCHANGED start => StartsMove
    BY DEF StartsMove, Launching, AtRun
 <1>b. UNCHANGED close => ClosesMove
    BY DEF ClosesMove, Closing
 <1>c. DOMAIN runs' = DOMAIN runs => RunsAppear
    BY DEF RunsAppear
 <1>d. UNCHANGED row => RowsAppear /\ RunsRecorded
    BY DEF RowsAppear, RunsRecorded
 <1>e. ASSUME NEW i, NEW r, runs' = TerminateWorkflow(i, r) PROVE RunsAppear
    BY <1>c, <1>e DEF TerminateWorkflow
 <1>f. ASSUME NEW s \in Starter, NEW p, StartAt(s, p), p \notin {"launch", "record"}, p = "check" => start[s].pc = "record"
       PROVE  StartsMove
    BY <1>f, <1>t DEF StartAt, StartOK, StartRecord, Launching, AtRun, StartsMove
 <1>g. ASSUME NEW s \in Starter, NEW x \in {NoStart, [NoStart EXCEPT !.pc = "failed"]}, start' = [start EXCEPT ![s] = x]
       PROVE  StartsMove
    BY <1>g, <1>t DEF StartOK, StartRecord, Launching, AtRun, NoStart, StartsMove
 <1>h. ASSUME NEW c \in Closer, NEW p, CloseAt(c, p), p # "close", Closing(c) \/ p \in {"new", "over", "failed"} PROVE ClosesMove
    BY <1>h, <1>t DEF CloseAt, CloseOK, CloseRecord, Closing, ClosesMove
 <1>i. ASSUME NEW i \in Live, NEW st \in Terminal, row' = [row EXCEPT ![i].status = st] PROVE RowsAppear /\ RunsRecorded
   <2>1. \A j \in Inst : row'[j].run = row[j].run /\ (row'[j].status = "none" <=> row[j].status = "none")
      BY <1>i, <1>t DEF RowOK, RowRecord, Live, NonTerminal, Terminal
   <2> QED
      BY <2>1 DEF RowsAppear, RunsRecorded
 <1> DEFINE Goal == StartsMove /\ ClosesMove /\ RunsAppear /\ RowsAppear /\ RunsRecorded /\ Marks
 <1>1. ASSUME NEW s \in Starter, Gate(s) \/ Refuse(s) PROVE Goal
    BY <1>1, <1>b, <1>c, <1>d, <1>f DEF Gate, Refuse, Marks, history
 <1>q. ASSUME NEW s \in Starter, ResolveTaskQueue(s) PROVE Goal
   <2>1. /\ UNCHANGED <<row, runs, close, history>> /\ start'[s].pc = "insert"
         /\ \A q \in Starter \ {s} : start'[q] = start[q]
      BY <1>q, <1>t, QueueResolved
   <2>2. StartsMove
      BY <2>1 DEF StartsMove, Launching, AtRun
   <2> QED
      BY <1>b, <1>c, <1>d, <2>1, <2>2 DEF Marks, history
 <1>2. ASSUME NEW s \in Starter, MatchingStart(s) \/ Duplicate(s) PROVE Goal
   <2>0. UNCHANGED <<row, runs, close, shared, missed>>
      BY <1>2 DEF MatchingStart, Duplicate, history
   <2>1. CASE \E p \in {"create", "refused"} : StartAt(s, p)
      BY <1>b, <1>c, <1>d, <1>f, <2>0, <2>1 DEF Marks
   <2>2. ASSUME NEW i \in Matching(s), ResumeStart(s, i) PROVE StartsMove
     <3>1. i \in Live' /\ row'[i].key = KeyOf[s]
        BY <2>0 DEF Matching, LiveOf, Live
     <3>2. \A q \in Starter : q # s => start'[q] = start[q]
        BY <2>2, <1>t DEF ResumeStart, StartOK
     <3>3. start'[s].inst = i /\ start'[s].pc \in {"launch", "done"}
        BY <2>2, <1>t DEF ResumeStart, StartOK, StartRecord
     <3> QED
        BY <3>1, <3>2, <3>3 DEF StartsMove, Launching, AtRun
   <2> QED
      BY <1>2, <1>b, <1>c, <1>d, <2>0, <2>1, <2>2 DEF MatchingStart, Duplicate, Marks
 <1>3. ASSUME NEW s \in Starter, Create(s) PROVE Goal
   <2>0. UNCHANGED <<runs, close, missed>>
      BY <1>3 DEF Create
   <2>1. CASE StartAt(s, "duplicate") /\ UNCHANGED <<row, late, shared>>
      BY <1>b, <1>c, <1>d, <1>f, <2>0, <2>1 DEF Marks
   <2>2. CASE ~(StartAt(s, "duplicate") /\ UNCHANGED <<row, late, shared>>)
     <3> DEFINE busy == \/ OpenOf(runs, KeyOf[s]) # {}
                        \/ \E q \in Starter : Launching(q) /\ KeyOf[q] = KeyOf[s]
                        \/ \E c \in Closer : Closing(c) /\ row[close[c].inst].key = KeyOf[s]
     <3>1. PICK i \in Inst : /\ row[i].status = "none" /\ LiveOf(KeyOf[s]) = {} /\ Inserted(i, s)
                             /\ start' = [start EXCEPT ![s].pc = "launch", ![s].inst = i]
                             /\ shared' = IF busy THEN shared \cup {i} ELSE shared
        BY <1>3, <2>2 DEF Create
     <3>2. /\ row'[i].key = KeyOf[s] /\ row'[i].status = "RUNNING" /\ row'[i].run = NoRun
           /\ \A j \in Inst : j # i => row'[j] = row[j]
        BY <1>t, <3>1 DEF Inserted, RowOK
     <3>3. \A q \in Starter : q # s => start'[q] = start[q]
        BY <1>t, <3>1 DEF StartOK
     <3>4. start'[s].inst = i /\ start'[s].pc = "launch"
        BY <1>t, <3>1 DEF StartOK, StartRecord
     <3>5. i \in Live'
        BY <3>2 DEF Live, NonTerminal
     <3>6. StartsMove
        BY <3>2, <3>3, <3>4, <3>5 DEF StartsMove, Launching, AtRun
     <3>7. RunsRecorded
        BY <3>1, <3>2 DEF RunsRecorded
     <3>8. i \notin shared' => ~busy
        BY <3>1
     <3>9. RowsAppear
        BY <2>0, <3>1, <3>2, <3>5, <3>8 DEF RowsAppear
     <3> QED
        BY <1>b, <1>c, <2>0, <3>1, <3>6, <3>7, <3>9 DEF Marks
   <2> QED
      BY <2>1, <2>2
 <1>4. ASSUME NEW s \in Starter, Launch(s) PROVE Goal
   <2> DEFINE i == start[s].inst
   <2>0. UNCHANGED <<row, close, shared>> /\ runs' \in {runs, StartWorkflow(i)} /\ Launching(s) /\ missed \subseteq missed'
      BY <1>4 DEF Launch, Launched, Launching
   <2>1. Named(i) /\ row[i].key = KeyOf[s]
      BY <1>k, <2>0 DEF StartsNamed
   <2>2. RunsAppear
     <3>1. CASE runs' = StartWorkflow(i)
       <4>1. /\ \A q \in DOMAIN runs' \ DOMAIN runs :
                    /\ runs'[q].inst = i /\ runs'[q].key = row[i].key /\ runs'[q].open
                    /\ OpenOf(runs, row[i].key) = {}
             /\ \A p, q \in DOMAIN runs' \ DOMAIN runs : p = q
         <5>1. i \in Inst /\ row[i].key \in Key
            BY <2>1 DEF Named
         <5> HIDE DEF i
         <5>2. \A q \in DOMAIN StartWorkflow(i) \ DOMAIN runs :
                    /\ StartWorkflow(i)[q].inst = i /\ StartWorkflow(i)[q].key = row[i].key /\ StartWorkflow(i)[q].open
                    /\ OpenOf(runs, row[i].key) = {}
            BY <1>t, <5>1, StartedRuns, Zenon
         <5>3. \A p, q \in DOMAIN StartWorkflow(i) \ DOMAIN runs : p = q
            BY <1>t, <5>1, StartedRuns
         <5> QED
            BY <3>1, <5>2, <5>3
       <4> QED
          BY <2>0, <2>1, <4>1 DEF RunsAppear
     <3> QED
        BY <1>c, <2>0, <3>1
   <2>3. StartsMove
     <3>1. CASE Launched(s)
       <4>1. CurrentRun(runs', KeyOf[s]) \in OpenOf(runs', KeyOf[s])
          BY <1>t, <2>1, <3>1, StartedRuns DEF Launched, Named
       <4>2. \A q \in Starter : q # s => start'[q] = start[q]
          BY <3>1, <1>t DEF Launched, StartOK
       <4>3. start'[s].inst = i /\ start'[s].pc = "record" /\ start'[s].run = CurrentRun(runs', KeyOf[s])
          BY <2>1, <3>1, <1>t DEF Launched, StartOK, StartRecord
       <4> QED
          BY <2>0, <4>1, <4>2, <4>3 DEF StartsMove, Launching, AtRun
     <3>2. CASE start' = [start EXCEPT ![s].attempt = @ + 1]
        BY <1>t, <3>2 DEF StartsMove, StartOK, StartRecord, Launching, AtRun
     <3> QED
        BY <1>4, <1>g, <3>1, <3>2 DEF Launch
   <2> QED
      BY <1>b, <1>d, <2>0, <2>2, <2>3 DEF Marks
 <1>5. ASSUME NEW s \in Starter, RecordRunID(s) PROVE Goal
   <2>0. UNCHANGED <<runs, close, shared>> /\ start[s].pc = "record" /\ StartAt(s, "check") /\ missed \subseteq missed'
      BY <1>5 DEF RecordRunID
   <2>1. StartsMove
      BY <1>f, <2>0
   <2>2. ASSUME row' = [row EXCEPT ![start[s].inst].run = start[s].run] PROVE RowsAppear /\ RunsRecorded
     <3>2. \A i \in Inst : /\ row'[i].status = row[i].status
                           /\ row'[i].run = IF i = start[s].inst THEN start[s].run ELSE row[i].run
        BY <1>t, <2>2 DEF RowOK, RowRecord
     <3> QED
        BY <2>0, <3>2 DEF RowsAppear, RunsRecorded, AtRun
   <2> QED
      BY <1>5, <1>b, <1>c, <1>d, <2>0, <2>1, <2>2 DEF RecordRunID, Marks
 <1>6. ASSUME NEW s \in Starter, AfterWorkflowStarted(s) PROVE Goal
   <2>1. StartAt(s, "done") /\ UNCHANGED <<row, close, shared>> /\ missed \subseteq missed'
      BY <1>6 DEF AfterWorkflowStarted
   <2>2. StartsMove
      BY <1>f, <2>1
   <2>3. RunsAppear
      BY <1>6, <1>c, <1>e DEF AfterWorkflowStarted
   <2> QED
      BY <1>b, <1>d, <2>1, <2>2, <2>3 DEF Marks
 <1>7. ASSUME NEW s \in Starter, StartDies(s) \/ Retry(s) PROVE Goal
    BY <1>7, <1>b, <1>c, <1>d, <1>g DEF StartDies, Retry, Marks, history
 <1>8. ASSUME NEW c \in Closer, Terminate(c) PROVE Goal
   <2>0. UNCHANGED <<row, runs, start, shared, missed>>
      BY <1>8 DEF Terminate, history
   <2>1. PICK i \in Inst : /\ row[i].status # "none" /\ close[c].inst \in {None, i}
                           /\ close' = [close EXCEPT ![c] = [pc |-> IF i \in Live THEN "close" ELSE "over",
                                                             inst |-> i, run |-> row[i].run]]
      BY <1>8 DEF Terminate
   <2>2. \A d \in Closer : d # c => close'[d] = close[d]
      BY <1>t, <2>1 DEF CloseOK
   <2>3. close'[c].inst = i /\ (close'[c].pc = IF i \in Live THEN "close" ELSE "over")
      BY <1>t, <2>1 DEF CloseOK
   <2>4. Live' = Live /\ None \notin Inst
      BY <2>0 DEF Live
   <2>5. ClosesMove
      BY <2>1, <2>2, <2>3, <2>4 DEF ClosesMove, Closing
   <2> QED
      BY <1>a, <1>c, <1>d, <2>0, <2>5 DEF Marks
 <1>9. ASSUME NEW c \in Closer, CloseExecution(c) \/ ConfirmClosed(c) PROVE Goal
    BY <1>9, <1>a, <1>c, <1>d, <1>e, <1>h DEF CloseExecution, ConfirmClosed, Closing, Marks, history
 <1>10. ASSUME NEW c \in Closer, MarkTerminated(c) PROVE Goal
   <2>0. UNCHANGED <<runs, start, shared, missed>> /\ Closing(c)
      BY <1>10 DEF MarkTerminated, Closing, history
   <2>1. CASE CloseAt(c, "over") /\ UNCHANGED row
      BY <1>a, <1>c, <1>d, <1>h, <2>0, <2>1 DEF Marks
   <2>2. ASSUME NEW i \in Live, i = close[c].inst, row' = [row EXCEPT ![i].status = "TERMINATED"],
                close' = [close EXCEPT ![c].pc = "confirm", ![c].run = row[i].run]
         PROVE  Goal
     <3>1. \A d \in Closer : close'[d].inst = close[d].inst /\ (d # c => close'[d] = close[d])
        BY <1>t, <2>2 DEF CloseOK, CloseRecord
     <3>2. ClosesMove
        BY <2>0, <3>1 DEF ClosesMove, Closing
     <3>3. RowsAppear /\ RunsRecorded
        BY <1>i, <2>2 DEF Terminal
     <3> QED
        BY <1>a, <1>c, <2>0, <3>2, <3>3 DEF Marks
   <2> QED
      BY <1>10, <2>1, <2>2 DEF MarkTerminated
 <1>11. ASSUME NEW c \in Closer, CloseAgain(c) \/ CloseDies(c) PROVE Goal
    BY <1>11, <1>a, <1>c, <1>d, <1>h DEF CloseAgain, CloseDies, Marks, history
 <1>12. ASSUME NEW r \in DOMAIN runs, Complete(r) PROVE Goal
   <2>1. runs[r].inst \in Live
      BY <1>12, <1>k DEF Complete, Live, NonTerminal, ExecutionsNamed, Named
   <2>2. RowsAppear /\ RunsRecorded
      BY <1>12, <1>i, <2>1 DEF Complete, Terminal
   <2> QED
      BY <1>12, <1>a, <1>b, <1>c, <2>2 DEF Complete, Marks, history
 <1>13. ASSUME NEW r \in DOMAIN runs, Return(r) PROVE Goal
   <2>1. DOMAIN runs' = DOMAIN runs
      BY <1>13 DEF Return
   <2> QED
      BY <1>13, <1>a, <1>b, <1>c, <1>d, <2>1 DEF Return, Marks, history
 <1>14. CASE UNCHANGED startvars
    BY <1>14, <1>a, <1>b, <1>c, <1>d DEF startvars, Marks, history
 <1> QED
    BY <1>1, <1>2, <1>3, <1>4, <1>5, <1>6, <1>7, <1>8, <1>9, <1>10, <1>11, <1>12, <1>13, <1>14, <1>q
       DEF StartNext, StartHandler, CloseStep

\* A start at its run stays there until it has closed the run of a TERMINATED row,
\* unless the close is missed.
StartsStay ==
    \A s \in Starter : AtRun(s) =>
        \/ AtRun(s)' /\ start'[s].inst = start[s].inst /\ start'[s].run = start[s].run
        \/ start[s].inst \in missed'
        \/ row[start[s].inst].status # "TERMINATED"
        \/ start[s].run \notin Open'

\* A terminate stays before its second close until it has closed what it names,
\* unless the close is missed.
ClosesStay ==
    \A c \in Closer : close[c].pc = "confirm" =>
        \/ close'[c].pc = "confirm" /\ close'[c].inst = close[c].inst /\ close'[c].run = close[c].run
        \/ close[c].inst \in missed'
        \/ \A r \in DOMAIN runs :
             r = close[c].run \/ (close[c].run = NoRun /\ runs[r].key = row[close[c].inst].key) => ~runs'[r].open

\* A row becomes TERMINATED by a terminate that goes on to its second close.
RowsTerminate ==
    \A i \in Inst : row'[i].status = "TERMINATED" /\ row[i].status # "TERMINATED" =>
        /\ i \in Live /\ UNCHANGED runs
        /\ \E c \in Closer : close'[c].pc = "confirm" /\ close'[c].inst = i /\ close'[c].run = row[i].run

\* A start that gave the instance a new execution knows of it, or it is missed.
RunsKnown ==
    \A r \in DOMAIN runs' \ DOMAIN runs :
        \/ runs'[r].inst \in missed'
        \/ \E s \in Starter : /\ AtRun(s)' /\ start'[s].inst = runs'[r].inst
                              /\ start'[s].run \in OpenOf(runs', runs'[r].key)

\* An execution is closed by a terminate, by a start that crossed one, or at its
\* own end.
RunsClose ==
    \A r \in Open : ~runs'[r].open =>
        \/ \E c \in Closer : /\ Closing(c)
                             /\ close[c].run = r \/ (close[c].run = NoRun /\ runs[r].key = row[close[c].inst].key)
        \/ \E s \in Starter : AtRun(s) /\ row[start[s].inst].status = "TERMINATED" /\ start[s].run = r
        \/ row[runs[r].inst].status = "COMPLETED"

\* What every step does to the executions that have to be closed.
LEMMA CloseEffects ==
    StartTypeOK /\ KeysAgree /\ [StartNext]_startvars
      => StartsStay /\ ClosesStay /\ RowsTerminate /\ RunsKnown /\ RunsClose
 <1> SUFFICES ASSUME StartTypeOK, KeysAgree, [StartNext]_startvars
              PROVE  StartsStay /\ ClosesStay /\ RowsTerminate /\ RunsKnown /\ RunsClose
    OBVIOUS
 <1> USE StartAssumption
 <1>t. RunsOK /\ RowOK /\ StartOK /\ CloseOK
    BY DEF StartTypeOK
 <1>k. StartsNamed /\ RunsNamed /\ ClosesNamed /\ RowsNamed /\ ExecutionsNamed
    BY DEF KeysAgree
 <1>a. UNCHANGED start => StartsStay
    BY DEF StartsStay, AtRun
 <1>b. UNCHANGED close => ClosesStay
    BY DEF ClosesStay
 <1>c. UNCHANGED runs => RunsKnown /\ RunsClose
    BY DEF RunsKnown, RunsClose, Open
 <1>d. UNCHANGED row => RowsTerminate
    BY DEF RowsTerminate
 <1>e. ASSUME NEW i, NEW r, runs' = TerminateWorkflow(i, r)
       PROVE  /\ RunsKnown
              /\ r \notin Open'
              /\ \A q \in DOMAIN runs : q = r \/ (r = NoRun /\ runs[q].key = row[i].key) => ~runs'[q].open
              /\ \A q \in Open : ~runs'[q].open => q = r \/ (r = NoRun /\ runs[q].key = row[i].key)
    BY <1>e, <1>t, TerminatedRuns DEF RunsKnown, Open
 <1>f. ASSUME NEW s \in Starter, NEW p, StartAt(s, p), ~AtRun(s) \/ p = "check"
       PROVE  StartsStay
    BY <1>f, <1>t DEF StartAt, StartOK, StartRecord, AtRun, StartsStay
 <1>h. ASSUME NEW c \in Closer, NEW p, CloseAt(c, p), close[c].pc # "confirm" PROVE ClosesStay
    BY <1>h, <1>t DEF CloseAt, CloseOK, CloseRecord, ClosesStay
 <1> DEFINE Goal == StartsStay /\ ClosesStay /\ RowsTerminate /\ RunsKnown /\ RunsClose
 <1>1. ASSUME NEW s \in Starter, Gate(s) \/ Refuse(s) PROVE Goal
    BY <1>1, <1>b, <1>c, <1>d, <1>f DEF Gate, Refuse, AtRun
 <1>q. ASSUME NEW s \in Starter, ResolveTaskQueue(s) PROVE Goal
   <2>1. /\ UNCHANGED <<row, runs, close>> /\ start[s].pc = "create"
         /\ \A q \in Starter \ {s} : start'[q] = start[q]
      BY <1>q, <1>t, QueueResolved
   <2>2. StartsStay
      BY <2>1 DEF StartsStay, AtRun
   <2> QED
      BY <1>b, <1>c, <1>d, <2>1, <2>2
 <1>2. ASSUME NEW s \in Starter, MatchingStart(s) \/ Duplicate(s) PROVE Goal
   <2>0. UNCHANGED <<row, runs, close>> /\ ~AtRun(s)
      BY <1>2 DEF MatchingStart, Duplicate, AtRun
   <2>1. \A q \in Starter : q # s => start'[q] = start[q]
      BY <1>2, <1>t DEF MatchingStart, Duplicate, StartAt, ResumeStart, StartOK
   <2>2. StartsStay
      BY <2>0, <2>1 DEF StartsStay, AtRun
   <2> QED
      BY <1>b, <1>c, <1>d, <2>0, <2>2
 <1>3. ASSUME NEW s \in Starter, Create(s) PROVE Goal
   <2>0. UNCHANGED <<runs, close>> /\ ~AtRun(s)
      BY <1>3 DEF Create, AtRun
   <2>1. \A q \in Starter : q # s => start'[q] = start[q]
      BY <1>3, <1>t DEF Create, StartAt, StartOK
   <2>2. StartsStay
      BY <2>0, <2>1 DEF StartsStay, AtRun
   <2>3. RowsTerminate
     <3>1. CASE UNCHANGED row
        BY <1>d, <3>1
     <3>2. CASE \E i \in Inst : Inserted(i, s)
       <4>1. PICK i \in Inst : Inserted(i, s)
          BY <3>2
       <4>2. row'[i].status = "RUNNING" /\ \A j \in Inst : j # i => row'[j] = row[j]
          BY <1>t, <4>1 DEF Inserted, RowOK
       <4> QED
          BY <4>2 DEF RowsTerminate
     <3> QED
        BY <1>3, <3>1, <3>2 DEF Create
   <2> QED
      BY <1>b, <1>c, <2>0, <2>2, <2>3
 <1>4. ASSUME NEW s \in Starter, Launch(s) PROVE Goal
   <2> DEFINE i == start[s].inst
   <2>0. UNCHANGED <<row, close>> /\ runs' \in {runs, StartWorkflow(i)} /\ Launching(s) /\ ~AtRun(s)
      BY <1>4 DEF Launch, Launched, Launching, AtRun
   <2>1. Named(i) /\ row[i].key = KeyOf[s]
      BY <1>k, <2>0 DEF StartsNamed
   <2>2. \A q \in Starter : q # s => start'[q] = start[q]
      BY <1>4, <1>t DEF Launch, Launched, StartOK
   <2>3. StartsStay
      BY <2>0, <2>2 DEF StartsStay, AtRun
   <2>4. CASE UNCHANGED runs
      BY <1>b, <1>c, <1>d, <2>0, <2>3, <2>4
   <2>5. CASE runs' = StartWorkflow(i)
     <3>1. i \in Inst /\ row[i].key \in Key
        BY <2>1 DEF Named
     <3> HIDE DEF i
     <3>2. \A q \in DOMAIN runs : StartWorkflow(i)[q] = runs[q]
        BY <1>t, <3>1, StartedRuns, Zenon
     <3>3. \A q \in DOMAIN StartWorkflow(i) \ DOMAIN runs :
              /\ StartWorkflow(i)[q].inst = i /\ StartWorkflow(i)[q].key = row[i].key /\ StartWorkflow(i)[q].open
              /\ OpenOf(runs, row[i].key) = {}
        BY <1>t, <3>1, StartedRuns, Zenon
     <3>4. CurrentRun(StartWorkflow(i), row[i].key) \in OpenOf(StartWorkflow(i), row[i].key)
        BY <1>t, <3>1, StartedRuns, Zenon
     <3>5. RunsClose
        BY <2>5, <3>2 DEF RunsClose, Open
     <3>6. RunsKnown
       <4>1. CASE i \in missed'
          BY <2>5, <3>3, <4>1 DEF RunsKnown
       <4>2. CASE Launched(s)
         <5>1. /\ start'[s].pc = "record" /\ start'[s].inst = i
               /\ start'[s].run = CurrentRun(runs', row[i].key)
            BY <1>t, <4>2 DEF Launched, StartOK, StartRecord, i
         <5>2. AtRun(s)'
            BY <5>1 DEF AtRun
         <5> QED
            BY <2>5, <3>3, <3>4, <5>1, <5>2 DEF RunsKnown
       <4> QED
          BY <1>4, <4>1, <4>2 DEF Launch, i
     <3> QED
        BY <1>b, <1>d, <2>0, <2>3, <3>5, <3>6
   <2> QED
      BY <2>0, <2>4, <2>5
 <1>5. ASSUME NEW s \in Starter, RecordRunID(s) PROVE Goal
   <2>0. UNCHANGED <<runs, close>> /\ StartAt(s, "check")
      BY <1>5 DEF RecordRunID
   <2>1. StartsStay
      BY <1>f, <2>0
   <2>2. \A i \in Inst : row'[i].status = row[i].status
      BY <1>5, <1>t DEF RecordRunID, RowOK, RowRecord
   <2>3. RowsTerminate
      BY <2>2 DEF RowsTerminate
   <2> QED
      BY <1>b, <1>c, <2>0, <2>1, <2>3
 <1>6. ASSUME NEW s \in Starter, AfterWorkflowStarted(s) PROVE Goal
   <2> DEFINE i == start[s].inst
   <2>0. /\ UNCHANGED <<row, close>> /\ start[s].pc = "check" /\ StartAt(s, "done")
         /\ \/ row[i].status # "TERMINATED" /\ UNCHANGED runs
            \/ row[i].status = "TERMINATED" /\ runs' = TerminateWorkflow(i, start[s].run)
            \/ i \in missed' /\ UNCHANGED runs
      BY <1>6 DEF AfterWorkflowStarted
   <2>1. \A q \in Starter : q # s => start'[q] = start[q]
      BY <2>0, <1>t DEF StartAt, StartOK
   <2>2. row[i].status # "TERMINATED" \/ i \in missed' \/ start[s].run \notin Open'
      BY <2>0, <1>e
   <2>3. StartsStay
      BY <2>1, <2>2 DEF StartsStay, AtRun
   <2>4. RunsKnown /\ RunsClose
     <3>1. CASE row[i].status = "TERMINATED" /\ runs' = TerminateWorkflow(i, start[s].run)
       <4>1. AtRun(s) /\ start[s].run # NoRun
          BY <1>k, <1>t, <2>0 DEF AtRun, RunsNamed, NoRun, RunsOK
       <4> QED
          BY <1>e, <3>1, <4>1 DEF RunsClose
     <3> QED
        BY <1>c, <2>0, <3>1
   <2> QED
      BY <1>b, <1>d, <2>0, <2>3, <2>4
 <1>7. ASSUME NEW s \in Starter, StartDies(s) \/ Retry(s) PROVE Goal
   <2>0. UNCHANGED <<row, runs, close>> /\ (AtRun(s) => start[s].inst \in missed')
      BY <1>7 DEF StartDies, Retry, AtRun
   <2>1. \A q \in Starter : q # s => start'[q] = start[q]
      BY <1>7, <1>t DEF StartDies, Retry, StartOK
   <2>2. StartsStay
      BY <2>0, <2>1 DEF StartsStay, AtRun
   <2> QED
      BY <1>b, <1>c, <1>d, <2>0, <2>2
 <1>8. ASSUME NEW c \in Closer, Terminate(c) PROVE Goal
   <2>0. UNCHANGED <<row, runs, start>> /\ close[c].pc # "confirm"
      BY <1>8 DEF Terminate
   <2>1. \A d \in Closer : d # c => close'[d] = close[d]
      BY <1>8, <1>t DEF Terminate, CloseOK
   <2>2. ClosesStay
      BY <2>0, <2>1 DEF ClosesStay
   <2> QED
      BY <1>a, <1>c, <1>d, <2>0, <2>2
 <1>9. ASSUME NEW c \in Closer, CloseExecution(c) \/ ConfirmClosed(c) PROVE Goal
   <2>0. /\ UNCHANGED <<row, start>> /\ Closing(c)
         /\ \/ runs' = TerminateWorkflow(close[c].inst, close[c].run)
            \/ UNCHANGED runs /\ (close[c].pc = "confirm" => close[c].inst \in missed')
      BY <1>9 DEF CloseExecution, ConfirmClosed, Closing
   <2>1. \A d \in Closer : d # c => close'[d] = close[d]
      BY <1>9, <1>t DEF CloseExecution, ConfirmClosed, CloseAt, CloseOK
   <2>2. ClosesStay
      BY <1>e, <2>0, <2>1 DEF ClosesStay
   <2>3. RunsKnown /\ RunsClose
      BY <1>c, <1>e, <2>0 DEF RunsClose
   <2> QED
      BY <1>a, <1>d, <2>0, <2>2, <2>3
 <1>10. ASSUME NEW c \in Closer, MarkTerminated(c) PROVE Goal
   <2>0. UNCHANGED <<runs, start>> /\ close[c].pc = "mark"
      BY <1>10 DEF MarkTerminated
   <2>1. \A d \in Closer : d # c => close'[d] = close[d]
      BY <1>10, <1>t DEF MarkTerminated, CloseAt, CloseOK
   <2>2. ClosesStay
      BY <2>0, <2>1 DEF ClosesStay
   <2>3. RowsTerminate
     <3>1. CASE UNCHANGED row
        BY <1>d, <3>1
     <3>2. ASSUME NEW i \in Live, i = close[c].inst, row' = [row EXCEPT ![i].status = "TERMINATED"],
                  close' = [close EXCEPT ![c].pc = "confirm", ![c].run = row[i].run]
           PROVE  RowsTerminate
       <4>1. \A j \in Inst : j # i => row'[j] = row[j]
          BY <1>t, <3>2 DEF RowOK
       <4>2. close'[c].pc = "confirm" /\ close'[c].inst = i /\ close'[c].run = row[i].run
          BY <1>t, <3>2 DEF CloseOK, CloseRecord
       <4> QED
          BY <2>0, <3>2, <4>1, <4>2 DEF RowsTerminate
     <3> QED
        BY <1>10, <3>1, <3>2 DEF MarkTerminated
   <2> QED
      BY <1>a, <1>c, <2>0, <2>2, <2>3
 <1>11. ASSUME NEW c \in Closer, CloseAgain(c) \/ CloseDies(c) PROVE Goal
   <2>0. UNCHANGED <<row, runs, start>> /\ (close[c].pc = "confirm" => close[c].inst \in missed')
      BY <1>11 DEF CloseAgain, CloseDies
   <2>1. \A d \in Closer : d # c => close'[d] = close[d]
      BY <1>11, <1>t DEF CloseAgain, CloseDies, CloseAt, CloseOK
   <2>2. ClosesStay
      BY <2>0, <2>1 DEF ClosesStay
   <2> QED
      BY <1>a, <1>c, <1>d, <2>0, <2>2
 <1>12. ASSUME NEW r \in DOMAIN runs, Complete(r) PROVE Goal
   <2>1. \A i \in Inst : row'[i].status \in {row[i].status, "COMPLETED"}
      BY <1>12, <1>t DEF Complete, RowOK, RowRecord
   <2>2. RowsTerminate
      BY <2>1 DEF RowsTerminate
   <2> QED
      BY <1>12, <1>a, <1>b, <1>c, <2>2 DEF Complete
 <1>13. ASSUME NEW r \in DOMAIN runs, Return(r) PROVE Goal
   <2>1. DOMAIN runs' = DOMAIN runs /\ \A q \in DOMAIN runs : q # r => runs'[q] = runs[q]
      BY <1>13 DEF Return
   <2>2. RunsKnown
      BY <2>1 DEF RunsKnown
   <2>3. RunsClose
      BY <1>13, <2>1 DEF Return, RunsClose, Open
   <2> QED
      BY <1>13, <1>a, <1>b, <1>d, <2>2, <2>3 DEF Return
 <1>14. CASE UNCHANGED startvars
    BY <1>14, <1>a, <1>b, <1>c, <1>d DEF startvars
 <1> QED
    BY <1>1, <1>2, <1>3, <1>4, <1>5, <1>6, <1>7, <1>8, <1>9, <1>10, <1>11, <1>12, <1>13, <1>14, <1>q
       DEF StartNext, StartHandler, CloseStep

(***************************************************************************)
(* The invariants.                                                         *)
(***************************************************************************)
\* An instance that was live after a step was so before, or is new.
LEMMA LiveBefore ==
    ASSUME Kept, NEW i \in Live'
    PROVE  i \in Inst /\ (row[i].status = "none" \/ (i \in Live /\ row'[i].key = row[i].key))
    BY DEF Kept, Live

\* The partial unique index: no second live row under a key.
LEMMA LiveStep ==
    ASSUME StartTypeOK, Kept, RowsAppear, OneLivePerKey
    PROVE  OneLivePerKey'
 <1>1. ASSUME NEW i \in Live', NEW j \in Live', row'[i].key = row'[j].key, i # j, row[i].status = "none"
       PROVE  FALSE
   <2>1. row'[i].status # "none" /\ i \in Inst /\ j \in Inst
      BY DEF Live, NonTerminal
   <2>2. row'[j] = row[j] /\ LiveOf(row'[i].key) = {}
      BY <1>1, <2>1 DEF RowsAppear
   <2>3. j \in LiveOf(row'[i].key)
      BY <1>1, <2>1, <2>2 DEF LiveOf, Live
   <2> QED
      BY <2>2, <2>3
 <1>2. ASSUME NEW i \in Live', NEW j \in Live', row'[i].key = row'[j].key PROVE i = j
    BY <1>1, <1>2, LiveBefore DEF OneLivePerKey
 <1> QED
    BY <1>2 DEF OneLivePerKey

\* No second execution open under a workflow id.
LEMMA OpenStep ==
    ASSUME StartTypeOK, Kept, RunsAppear, OneOpenPerKey
    PROVE  OneOpenPerKey'
 <1>1. \A r \in Open' : r \in DOMAIN runs => r \in Open /\ runs'[r].key = runs[r].key
    BY DEF Kept, Open
 <1>2. ASSUME NEW q \in Open', NEW r \in Open', runs'[q].key = runs'[r].key, q \notin DOMAIN runs, r \in DOMAIN runs
       PROVE  FALSE
   <2>1. q \in DOMAIN runs' \ DOMAIN runs
      BY <1>2 DEF Open
   <2>2. OpenOf(runs, runs'[q].key) = {}
      BY <2>1 DEF RunsAppear
   <2>3. r \in OpenOf(runs, runs'[q].key)
      BY <1>1, <1>2 DEF OpenOf, Open
   <2> QED
      BY <2>2, <2>3
 <1>3. ASSUME NEW q \in Open', NEW r \in Open', q \notin DOMAIN runs, r \notin DOMAIN runs PROVE q = r
    BY <1>3 DEF RunsAppear, Open
 <1> QED
    BY <1>1, <1>2, <1>3 DEF OneOpenPerKey

\* All that is under way for the key of a live instance whose key was free belongs
\* to it: starts, terminates, the open execution and the run on its row.
OwnKey(i) ==
    /\ \A s \in Starter : Launching(s) /\ KeyOf[s] = row[i].key => start[s].inst = i
    /\ \A c \in Closer : Closing(c) /\ row[close[c].inst].key = row[i].key => close[c].inst = i
    /\ \A r \in Open : runs[r].key = row[i].key => runs[r].inst = i
    /\ \A s \in Starter : AtRun(s) /\ start[s].inst = i => runs[start[s].run].inst = i
    /\ row[i].run # NoRun => runs[row[i].run].inst = i
    /\ (\A c \in Closer : close[c].inst # i) => RunsOf(i) \subseteq Open
OwnKeys == \A i \in Live \ shared : OwnKey(i)

\* What is under way for the key of a live instance stays its own.
LEMMA OwnStep ==
    ASSUME StartTypeOK, StartTypeOK', KeysAgree, KeysAgree', OneLivePerKey', OwnKeys,
           Kept, StartsMove, ClosesMove, RunsAppear, RowsAppear, RunsRecorded, Marks, RunsClose
    PROVE  OwnKeys'
 <1> SUFFICES ASSUME NEW i \in Live', i \notin shared' PROVE OwnKey(i)'
    BY DEF OwnKeys
 <1>k. StartsNamed /\ RunsNamed /\ ClosesNamed /\ RowsNamed /\ ExecutionsNamed
    BY DEF KeysAgree
 <1>t. RunsOK /\ RowOK /\ StartOK /\ CloseOK
    BY DEF StartTypeOK
 <1>i. i \in Inst /\ i \notin shared
    BY DEF Live, Marks
 <1>1. CASE row[i].status = "none"
   <2>0. /\ row'[i].run = NoRun /\ UNCHANGED <<runs, close>>
         /\ OpenOf(runs, row'[i].key) = {}
         /\ \A s \in Starter : Launching(s) => KeyOf[s] # row'[i].key
         /\ \A c \in Closer : Closing(c) => row[close[c].inst].key # row'[i].key
     <3>1. row'[i].status # "none"
        BY DEF Live, NonTerminal
     <3> QED
        BY <1>1, <1>i, <3>1 DEF RowsAppear
   <2>1. \A s \in Starter : Launching(s)' /\ KeyOf[s] = row'[i].key => start'[s].inst = i
      BY <2>0 DEF StartsMove, OneLivePerKey
   <2>2. ASSUME NEW c \in Closer, Closing(c)', row'[close'[c].inst].key = row'[i].key PROVE close'[c].inst = i
     <3>1. Closing(c) /\ close'[c].inst = close[c].inst
        BY <2>0, <2>2 DEF Closing
     <3>2. row'[close[c].inst].key = row[close[c].inst].key
        BY <1>k, <3>1 DEF ClosesNamed, Named, Kept
     <3> QED
        BY <2>0, <2>2, <3>1, <3>2
   <2>3. \A r \in Open' : runs'[r].key # row'[i].key
      BY <2>0 DEF Open, OpenOf
   <2>4. \A s \in Starter : AtRun(s)' => start'[s].inst # i
      BY <1>1, <1>k DEF StartsMove, StartsNamed, Named, AtRun, Launching
   <2>5. RunsOf(i)' = {}
      BY <1>1, <1>k, <2>0 DEF RunsOf, ExecutionsNamed, Named
   <2> QED
      BY <2>0, <2>1, <2>2, <2>3, <2>4, <2>5 DEF OwnKey
 <1>2. CASE row[i].status # "none"
   <2>0. i \in Live /\ row'[i].key = row[i].key /\ OwnKey(i)
      BY <1>2, <1>i, LiveBefore DEF OwnKeys
   <2>1. \A s \in Starter : Launching(s) /\ KeyOf[s] = row[i].key => start[s].inst = i
      BY <2>0 DEF OwnKey
   <2>2. \A c \in Closer : Closing(c) /\ row[close[c].inst].key = row[i].key => close[c].inst = i
      BY <2>0 DEF OwnKey
   <2>3. \A r \in Open : runs[r].key = row[i].key => runs[r].inst = i
      BY <2>0 DEF OwnKey
   <2>4. \A s \in Starter : Launching(s)' /\ KeyOf[s] = row'[i].key => start'[s].inst = i
      BY <2>0, <2>1 DEF StartsMove, OneLivePerKey
   <2>5. ASSUME NEW c \in Closer, Closing(c)', row'[close'[c].inst].key = row'[i].key PROVE close'[c].inst = i
     <3>1. CASE Closing(c) /\ close'[c].inst = close[c].inst
       <4>1. row'[close[c].inst].key = row[close[c].inst].key
          BY <1>k, <3>1 DEF ClosesNamed, Named, Kept
       <4> QED
          BY <2>0, <2>2, <2>5, <3>1, <4>1
     <3>2. CASE close'[c].inst \in Live'
        BY <2>5, <3>2 DEF OneLivePerKey
     <3> QED
        BY <2>5, <3>1, <3>2 DEF ClosesMove
   <2>6. ASSUME NEW r \in Open', runs'[r].key = row'[i].key PROVE runs'[r].inst = i
     <3>1. CASE r \in DOMAIN runs
        BY <2>0, <2>3, <2>6, <3>1 DEF Kept, Open
     <3>2. CASE r \notin DOMAIN runs
       <4>1. PICK s \in Starter : Launching(s) /\ runs'[r].inst = start[s].inst /\ runs'[r].key = KeyOf[s]
          BY <3>2 DEF RunsAppear, Open
       <4> QED
          BY <2>0, <2>1, <2>6, <4>1
     <3> QED
        BY <3>1, <3>2
   <2>7. ASSUME NEW s \in Starter, AtRun(s)', start'[s].inst = i PROVE runs'[start'[s].run].inst = i
     <3>1. CASE AtRun(s) /\ start'[s].inst = start[s].inst /\ start'[s].run = start[s].run
       <4>1. runs[start[s].run].inst = i /\ start[s].run \in DOMAIN runs
          BY <1>k, <2>0, <2>7, <3>1 DEF OwnKey, RunsNamed
       <4> QED
          BY <3>1, <4>1 DEF Kept
     <3>2. CASE Launching(s) /\ start'[s].inst = start[s].inst /\ start'[s].run \in OpenOf(runs', KeyOf[s])
       <4>1. row[i].key = KeyOf[s]
          BY <1>k, <2>7, <3>2 DEF StartsNamed
       <4>2. start'[s].run \in Open' /\ runs'[start'[s].run].key = KeyOf[s]
          BY <3>2 DEF OpenOf, Open
       <4> QED
          BY <2>0, <2>6, <4>1, <4>2
     <3> QED
        BY <2>7, <3>1, <3>2 DEF StartsMove
   <2>8. ASSUME row'[i].run # NoRun PROVE runs'[row'[i].run].inst = i
     <3>1. CASE row'[i].run = row[i].run
       <4>1. runs[row[i].run].inst = i /\ row[i].run \in DOMAIN runs
          BY <1>i, <1>t, <2>0, <2>8, <3>1 DEF OwnKey, RowOK, RowRecord, RunIds
       <4> QED
          BY <3>1, <4>1 DEF Kept
     <3>2. ASSUME NEW s \in Starter, AtRun(s), start[s].inst = i, row'[i].run = start[s].run
           PROVE  runs'[row'[i].run].inst = i
       <4>1. runs[start[s].run].inst = i /\ start[s].run \in DOMAIN runs
          BY <1>k, <2>0, <3>2 DEF OwnKey, RunsNamed
       <4> QED
          BY <3>2, <4>1 DEF Kept
     <3> QED
        BY <1>2, <1>i, <3>1, <3>2 DEF RunsRecorded
   <2>9. ASSUME \A c \in Closer : close'[c].inst # i PROVE RunsOf(i)' \subseteq Open'
     <3>1. \A c \in Closer : close[c].inst # i
        BY <1>i, <2>9 DEF ClosesMove
     <3>2. RunsOf(i) \subseteq Open
        BY <2>0, <3>1 DEF OwnKey
     <3>3. ASSUME NEW r \in RunsOf(i), ~runs'[r].open PROVE FALSE
       <4>1. r \in Open /\ runs[r].inst = i /\ runs[r].key = row[i].key
          BY <1>k, <3>2 DEF RunsOf, ExecutionsNamed
       <4>2. ASSUME NEW c \in Closer, Closing(c),
                    close[c].run = r \/ (close[c].run = NoRun /\ runs[r].key = row[close[c].inst].key)
             PROVE  FALSE
         <5>1. runs[r].key = row[close[c].inst].key
            BY <1>k, <1>t, <4>1, <4>2 DEF ClosesNamed, RunsOK, NoRun, Open
         <5> QED
            BY <2>2, <3>1, <4>1, <4>2, <5>1
       <4>3. ASSUME NEW s \in Starter, AtRun(s), row[start[s].inst].status = "TERMINATED", start[s].run = r
             PROVE  FALSE
         <5>1. runs[r].key = KeyOf[s] /\ Launching(s)
            BY <1>k, <4>3 DEF RunsNamed, AtRun, Launching
         <5>2. start[s].inst = i
            BY <2>1, <4>1, <5>1
         <5> QED
            BY <2>0, <4>3, <5>2 DEF Live, NonTerminal
       <4>4. row[runs[r].inst].status # "COMPLETED"
          BY <2>0, <4>1 DEF Live, NonTerminal
       <4> QED
          BY <3>3, <4>1, <4>2, <4>3, <4>4 DEF RunsClose
     <3>4. ASSUME NEW r \in RunsOf(i)' PROVE r \in Open'
       <4>1. CASE r \in DOMAIN runs
         <5>1. r \in RunsOf(i)
            BY <4>1 DEF RunsOf, Kept
         <5>2. runs'[r].open
            BY <3>3, <5>1
         <5> QED
            BY <5>2 DEF RunsOf, Open
       <4>2. CASE r \notin DOMAIN runs
          BY <4>2 DEF RunsOf, RunsAppear, Open
       <4> QED
          BY <4>1, <4>2
     <3> QED
        BY <3>4
   <2> QED
      BY <2>4, <2>5, <2>6, <2>7, <2>8, <2>9 DEF OwnKey
 <1> QED
    BY <1>1, <1>2

\* A start or a terminate under way is going to close the run.
Covered(i, r) ==
    \/ \E s \in Starter : AtRun(s) /\ start[s].inst = i /\ start[s].run = r
    \/ \E c \in Closer : close[c].pc = "confirm" /\ close[c].inst = i /\ close[c].run \in {NoRun, r}
ClosesCovered ==
    \A i \in Inst \ (missed \cup shared) :
        row[i].status = "TERMINATED" /\ (\A q, r \in RunsOf(i) : q = r)
        => \A r \in RunsOf(i) : runs[r].open => Covered(i, r)

\* Somebody goes on being there to close the execution of a TERMINATED row.
LEMMA CoveredStep ==
    ASSUME StartTypeOK, KeysAgree, OneOpenPerKey', OwnKeys, ClosesCovered,
           Kept, Marks, StartsStay, ClosesStay, RowsTerminate, RunsKnown
    PROVE  ClosesCovered'
 <1> SUFFICES ASSUME NEW i \in Inst, i \notin missed', i \notin shared', row'[i].status = "TERMINATED",
                     \A p, q \in RunsOf(i)' : p = q,
                     NEW r \in RunsOf(i)', runs'[r].open
              PROVE  Covered(i, r)'
    BY DEF ClosesCovered
 <1>k. StartsNamed /\ RunsNamed /\ ClosesNamed /\ RowsNamed /\ ExecutionsNamed
    BY DEF KeysAgree
 <1>t. RunsOK /\ RowOK /\ StartOK /\ CloseOK
    BY DEF StartTypeOK
 <1>i. i \notin missed /\ i \notin shared
    BY DEF Marks
 <1>r. r \in DOMAIN runs' /\ runs'[r].inst = i /\ r \in Open'
    BY DEF RunsOf, Open
 <1>u. \A q \in RunsOf(i) : q = r
    BY DEF RunsOf, Kept
 <1>1. CASE row[i].status = "TERMINATED" /\ r \in DOMAIN runs
   <2>1. r \in RunsOf(i) /\ runs[r].open /\ runs[r].key = row[i].key
      BY <1>1, <1>k, <1>r DEF RunsOf, Kept, ExecutionsNamed
   <2>2. Covered(i, r)
      BY <1>1, <1>i, <1>u, <2>1 DEF ClosesCovered
   <2>3. ASSUME NEW s \in Starter, AtRun(s), start[s].inst = i, start[s].run = r PROVE Covered(i, r)'
      BY <1>1, <1>r, <2>3 DEF StartsStay, Covered
   <2>4. ASSUME NEW c \in Closer, close[c].pc = "confirm", close[c].inst = i, close[c].run \in {NoRun, r}
         PROVE  Covered(i, r)'
      BY <1>1, <2>1, <2>4 DEF ClosesStay, Covered
   <2> QED
      BY <2>2, <2>3, <2>4 DEF Covered
 <1>2. CASE r \notin DOMAIN runs
   <2>1. PICK s \in Starter : /\ AtRun(s)' /\ start'[s].inst = i
                              /\ start'[s].run \in OpenOf(runs', runs'[r].key)
      BY <1>2, <1>r DEF RunsKnown
   <2>2. start'[s].run = r
      BY <1>r, <2>1 DEF OpenOf, Open, OneOpenPerKey
   <2> QED
      BY <2>1, <2>2 DEF Covered
 <1>3. CASE row[i].status # "TERMINATED"
   <2>1. /\ i \in Live /\ UNCHANGED runs
         /\ \E c \in Closer : close'[c].pc = "confirm" /\ close'[c].inst = i /\ close'[c].run = row[i].run
      BY <1>3 DEF RowsTerminate
   <2>2. row[i].run # NoRun => row[i].run \in RunsOf(i)
      BY <1>i, <1>t, <2>1 DEF OwnKeys, OwnKey, RunsOf, RowOK, RowRecord, RunIds
   <2>3. row[i].run \in {NoRun, r}
      BY <1>u, <2>2
   <2> QED
      BY <2>1, <2>3 DEF Covered
 <1> QED
    BY <1>1, <1>2, <1>3

\* The inductive invariant of the starts and terminates.
StartInv ==
    StartTypeOK /\ KeysAgree /\ OneLivePerKey /\ OneOpenPerKey /\ OwnKeys /\ ClosesCovered

\* The invariant is inductive,
LEMMA StartInvStep == StartInv /\ [StartNext]_startvars => StartInv'
 <1> SUFFICES ASSUME StartInv, [StartNext]_startvars PROVE StartInv'
    OBVIOUS
 <1>1. StartTypeOK /\ KeysAgree /\ OneLivePerKey /\ OneOpenPerKey /\ OwnKeys /\ ClosesCovered
    BY DEF StartInv
 <1>2. StartTypeOK' /\ KeysAgree' /\ Kept
    BY <1>1, TypeStep, KeysStep, StartKeeps
 <1>3. StartsMove /\ ClosesMove /\ RunsAppear /\ RowsAppear /\ RunsRecorded /\ Marks
    BY <1>1, StepEffects
 <1>4. StartsStay /\ ClosesStay /\ RowsTerminate /\ RunsKnown /\ RunsClose
    BY <1>1, CloseEffects
 <1>5. OneLivePerKey' /\ OneOpenPerKey'
    BY <1>1, <1>2, <1>3, LiveStep, OpenStep
 <1>6. OwnKeys'
    BY <1>1, <1>2, <1>3, <1>4, <1>5, OwnStep
 <1>7. ClosesCovered'
    BY <1>1, <1>2, <1>3, <1>4, <1>5, CoveredStep
 <1> QED
    BY <1>2, <1>5, <1>6, <1>7 DEF StartInv

\* and holds at first.
LEMMA StartInvInit == StartInit => StartInv
 <1> SUFFICES ASSUME StartInit PROVE StartInv
    OBVIOUS
 <1> USE StartAssumption
 <1>0. runs = << >> /\ DOMAIN runs = {}
    BY DEF StartInit
 <1>1. \A i \in Inst : row[i] = NoRow
    BY DEF StartInit
 <1>2. \A s \in Starter : start[s] = NoStart
    BY DEF StartInit
 <1>3. \A c \in Closer : close[c] = NoClose
    BY DEF StartInit
 <1>4. Live = {} /\ Open = {} /\ \A i : RunsOf(i) = {}
    BY <1>0, <1>1 DEF Live, Open, RunsOf, NonTerminal, NoRow
 <1>5. RunsOK /\ RowOK /\ StartOK /\ CloseOK /\ MarksOK
   <2>1. RunsOK
      BY <1>0 DEF RunsOK
   <2>2. RowOK
      BY DEF StartInit, RowOK, RowRecord, RunIds, NoRow
   <2>3. StartOK
      BY DEF StartInit, StartOK, StartRecord, RunIds, NoStart
   <2>4. CloseOK
      BY DEF StartInit, CloseOK, CloseRecord, RunIds, NoClose
   <2>5. MarksOK
      BY DEF StartInit, MarksOK
   <2> QED
      BY <2>1, <2>2, <2>3, <2>4, <2>5
 <1>6. StartsNamed /\ RunsNamed /\ ClosesNamed /\ RowsNamed /\ ExecutionsNamed
    BY <1>0, <1>1, <1>2, <1>3 DEF StartsNamed, RunsNamed, ClosesNamed, RowsNamed, ExecutionsNamed,
       Launching, AtRun, Closing, NoRow, NoStart, NoClose
 <1> QED
    BY <1>4, <1>5, <1>6 DEF StartInv, StartTypeOK, KeysAgree, OneLivePerKey, OneOpenPerKey, OwnKeys,
       ClosesCovered

\* A set with at most one member.
LEMMA AtMostOne ==
    ASSUME NEW S, IsFiniteSet(S), Cardinality(S) <= 1, NEW q \in S, NEW r \in S
    PROVE  q = r
 <1> SUFFICES ASSUME q # r PROVE FALSE
    OBVIOUS
 <1>1. IsFiniteSet({q}) /\ Cardinality({q}) = 1
    BY FS_Singleton
 <1>2. Cardinality({q} \cup {r}) = 2
    BY <1>1, FS_AddElement
 <1>3. ({q} \cup {r}) \in SUBSET S
    OBVIOUS
 <1>4. Cardinality({q} \cup {r}) <= Cardinality(S) /\ Cardinality(S) \in Nat
    BY <1>3, FS_Subset, FS_CardinalityType
 <1> QED
    BY <1>2, <1>4

=============================================================================
