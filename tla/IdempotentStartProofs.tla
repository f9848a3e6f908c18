------------------------ MODULE IdempotentStartProofs ------------------------
(***************************************************************************)
(* Proofs about starts and terminates behind the idempotency middleware:   *)
(* the invariant of InstanceStartProofs, that a request outside of the     *)
(* handler is at rest (OutsideRests), and that the claim of the key is     *)
(* held by one request and what was answered under it is what is kept      *)
(* (ServedOnce).                                                           *)
(***************************************************************************)
EXTENDS IdempotentStart, InstanceStartProofs

(***************************************************************************)
(* The middleware around them.                                             *)
(***************************************************************************)
\* A start that is exchanged while it has no row changes nothing of what was shown.
LEMMA ExchangedAtRest ==
    ASSUME StartInv, NEW s \in Starter, ~Launching(s), ~Launching(s)', StartOK',
           \A q \in Starter : q # s => start'[q] = start[q], MarksOK', UNCHANGED <<row, runs, close, shared, missed>>
    PROVE  StartInv'
 <1>1. StartTypeOK'
    BY DEF StartInv, StartTypeOK, RunsOK, RowOK, CloseOK, RowRecord, CloseRecord, RunIds
 <1>2. \A q \in Starter : /\ Launching(q)' => Launching(q) /\ start'[q] = start[q]
                          /\ AtRun(q)' => AtRun(q) /\ start'[q] = start[q]
                          /\ AtRun(q) => AtRun(q)' /\ start'[q] = start[q]
    BY DEF Launching, AtRun
 <1>3. KeysAgree'
   <2>1. StartsNamed' /\ RunsNamed'
      BY <1>2 DEF StartInv, KeysAgree, StartsNamed, RunsNamed, Named
   <2>2. ClosesNamed' /\ RowsNamed' /\ ExecutionsNamed'
      BY DEF StartInv, KeysAgree, ClosesNamed, RowsNamed, ExecutionsNamed, Named, Closing
   <2> QED
      BY <2>1, <2>2 DEF KeysAgree
 <1>4. OneLivePerKey' /\ OneOpenPerKey'
    BY DEF StartInv, OneLivePerKey, OneOpenPerKey, Live, Open
 <1>5. OwnKeys'
   <2> SUFFICES ASSUME NEW i \in Live', i \notin shared' PROVE OwnKey(i)'
      BY DEF OwnKeys
   <2>1. OwnKey(i)
      BY DEF StartInv, OwnKeys, Live
   <2> QED
      BY <1>2, <2>1 DEF OwnKey, Closing, Open, RunsOf
 <1>6. ClosesCovered'
   <2>1. \A i, r : Covered(i, r) => Covered(i, r)'
      BY <1>2 DEF Covered
   <2> QED
      BY <2>1 DEF StartInv, ClosesCovered, RunsOf
 <1> QED
    BY <1>1, <1>3, <1>4, <1>5, <1>6 DEF StartInv

\* The rest of the type invariant, and what an answer names.
EntryOK == entry \in [state : {"absent", "CLAIMED", "response"}, inst : Inst \cup {None},
                      hash : {None} \cup {In[s] : s \in Starter}]
PhaseOK == phase \in [Starter -> {"unsent", "inside", "taken", "bare", "answered", "conflict", "dead"}]
AnswersRest == \A s \in Starter : phase[s] = "answered" => Answered(s)
ServedOK    == served \subseteq Inst /\ unclaimed \subseteq Inst
AnswersName ==
    /\ \A s \in Starter : start[s].pc = "done" => start[s].inst \in Inst
    /\ entry.state = "response" => entry.inst \in Inst

\* A request that is not with the handler is at rest.
AtRest == {"new", "done", "refused", "failed"}
OutsideRests == \A s \in Starter : phase[s] \notin {"inside", "bare"} => start[s].pc \in AtRest

\* The claim of the key is held by one request, and what was answered under it is
\* what is kept.
AbsentServesNone == entry = Absent => served = {}
InsideHolds == \A s \in Starter : phase[s] = "inside" => entry = CLAIMED /\ served = {}
OneInside   == \A s, q \in Starter : phase[s] = "inside" /\ phase[q] = "inside" => s = q
KeptIsServed == entry.state = "response" => served \subseteq {entry.inst}
ServedAgree  == \A i, j \in served : i = j
ServedOnce == AbsentServesNone /\ InsideHolds /\ OneInside /\ KeptIsServed /\ ServedAgree

MiddlewareOK == EntryOK /\ PhaseOK /\ AnswersRest /\ ServedOK /\ AnswersName
Inv == StartInv /\ MiddlewareOK /\ OutsideRests /\ ServedOnce

\* What the steps of the handler do to a request, seen from the middleware.
LEMMA HandlerAnswers ==
    ASSUME StartInv, [StartNext]_startvars, \A s \in Starter : start[s].pc = "done" => start[s].inst \in Inst
    PROVE  \A s \in Starter : start'[s].pc = "done" => start'[s].inst \in Inst
 <1> USE StartAssumption
 <1>t. StartOK
    BY DEF StartInv, StartTypeOK
 <1>k. \A s \in Starter : Launching(s) => start[s].inst \in Inst
    BY DEF StartInv, KeysAgree, StartsNamed, Named
 <1> DEFINE Goal == \A s \in Starter : start'[s].pc = "done" => start'[s].inst \in Inst
 <1>a. UNCHANGED start => Goal
    OBVIOUS
 <1>b. ASSUME NEW s \in Starter, NEW p, StartAt(s, p), p # "done" \/ start[s].inst \in Inst PROVE Goal
    BY <1>b, <1>t DEF StartAt, StartOK, StartRecord
 <1>1. ASSUME NEW s \in Starter, Gate(s) \/ Refuse(s) PROVE Goal
    BY <1>1, <1>b DEF Gate, Refuse
 <1>q. ASSUME NEW s \in Starter, ResolveTaskQueue(s) PROVE Goal
    BY <1>q, <1>t, QueueResolved
 <1>2. ASSUME NEW s \in Starter, MatchingStart(s) \/ Duplicate(s) PROVE Goal
   <2>1. ASSUME NEW i \in Matching(s), ResumeStart(s, i) PROVE Goal
     <3>1. i \in Inst
        BY DEF Matching, LiveOf, Live
     <3>2. start'[s].inst = i /\ \A q \in Starter : q # s => start'[q] = start[q]
        BY <2>1, <1>t DEF ResumeStart, StartOK, StartRecord
     <3> QED
        BY <3>1, <3>2
   <2> QED
      BY <1>2, <1>b, <2>1 DEF MatchingStart, Duplicate
 <1>3. ASSUME NEW s \in Starter, Create(s) PROVE Goal
   <2>1. CASE StartAt(s, "duplicate")
      BY <1>b, <2>1
   <2>2. ASSUME NEW i, start' = [start EXCEPT ![s].pc = "launch", ![s].inst = i] PROVE Goal
      BY <1>t, <2>2 DEF StartOK, StartRecord
   <2> QED
      BY <1>3, <2>1, <2>2 DEF Create
 <1>4. ASSUME NEW s \in Starter, Launch(s) PROVE Goal
   <2>1. start'[s].pc # "done"
      BY <1>4, <1>t DEF Launch, Launched, StartOK, StartRecord, NoStart
   <2>2. \A q \in Starter : q # s => start'[q] = start[q]
      BY <1>4, <1>t DEF Launch, Launched, StartOK
   <2> QED
      BY <2>1, <2>2
 <1>5. ASSUME NEW s \in Starter, RecordRunID(s) PROVE Goal
    BY <1>5, <1>b DEF RecordRunID
 <1>6. ASSUME NEW s \in Starter, AfterWorkflowStarted(s) PROVE Goal
    BY <1>6, <1>b, <1>k DEF AfterWorkflowStarted, Launching
 <1>7. ASSUME NEW s \in Starter, StartDies(s) \/ Retry(s) PROVE Goal
    BY <1>7, <1>t DEF StartDies, Retry, NoStart, StartOK
 <1>8. ASSUME NEW c \in Closer, CloseStep(c) \/ CloseDies(c) PROVE Goal
    BY <1>8, <1>a DEF CloseStep, CloseDies, Terminate, CloseExecution, MarkTerminated, ConfirmClosed,
       CloseAgain
 <1>9. ASSUME NEW r \in DOMAIN runs, Complete(r) \/ Return(r) PROVE Goal
    BY <1>9, <1>a DEF Complete, Return
 <1>10. CASE UNCHANGED startvars
    BY <1>10, <1>a DEF startvars
 <1> QED
    BY <1>1, <1>2, <1>3, <1>4, <1>5, <1>6, <1>7, <1>8, <1>9, <1>10, <1>q DEF StartNext, StartHandler

\* A step of one request touches that request only, and one that writes a row
\* for a request that names none makes it name the row.
LEMMA HandlerTouches ==
    ASSUME StartInv, NEW s \in Starter, StartHandler(s)
    PROVE  /\ \A q \in Starter : q # s => start'[q] = start[q]
           /\ row' # row /\ start[s].inst = None => start'[s].inst \in Inst
 <1> USE StartAssumption
 <1>t. StartOK /\ StartsNamed
    BY DEF StartInv, StartTypeOK, KeysAgree
 <1>1. \A q \in Starter : q # s => start'[q] = start[q]
    BY <1>t DEF StartHandler, Gate, MatchingStart, Refuse, ResolveTaskQueue, Create, Duplicate, Launch, Launched, RecordRunID,
       AfterWorkflowStarted, StartAt, ResumeStart, StartOK
 <1>2. CASE Create(s) /\ row' # row
   <2>1. PICK i \in Inst : start' = [start EXCEPT ![s].pc = "launch", ![s].inst = i]
      BY <1>2 DEF Create
   <2>2. start'[s].inst = i
      BY <1>t, <2>1 DEF StartOK, StartRecord
   <2> QED
      BY <1>1, <2>2
 <1>3. CASE RecordRunID(s)
   <2>1. start[s].inst # None
      BY <1>3, <1>t DEF RecordRunID, StartsNamed, Launching, Named
   <2> QED
      BY <1>1, <2>1
 <1>4. CASE UNCHANGED row
    BY <1>1, <1>4
 <1> QED
    BY <1>2, <1>3, <1>4 DEF StartHandler, Gate, MatchingStart, Refuse, ResolveTaskQueue, Create, Duplicate, Launch,
       AfterWorkflowStarted

\* Steps of the handler, of a terminate or of an execution are steps of the starts.
LEMMA StartPart ==
    ASSUME Inv, [StartNext]_startvars
    PROVE  StartInv' /\ (\A s \in Starter : start'[s].pc = "done" => start'[s].inst \in Inst)
    BY StartInvStep, HandlerAnswers DEF Inv, MiddlewareOK, AnswersName

\* The number of faults keeps its bound.
LEMMA FaultsBounded == MarksOK /\ (Fault \/ NoFault) => faults' \in 0 .. MaxFaults
    BY StartAssumption DEF MarksOK, Fault, NoFault

\* The whole invariant is kept by every step of the middleware and behind it,
LEMMA InvStep == Inv /\ [Next]_vars => Inv'
 <1> SUFFICES ASSUME Inv, [Next]_vars PROVE Inv'
    OBVIOUS
 <1> USE StartAssumption
 <1>i. StartInv /\ EntryOK /\ PhaseOK /\ AnswersRest /\ ServedOK /\ AnswersName /\ OutsideRests
    BY DEF Inv, MiddlewareOK
 <1>o. AbsentServesNone /\ InsideHolds /\ OneInside /\ KeptIsServed /\ ServedAgree
    BY DEF Inv, ServedOnce
 <1>t. RunsOK /\ RowOK /\ StartOK /\ CloseOK /\ MarksOK
    BY <1>i DEF StartInv, StartTypeOK
 <1>a. /\ Absent.state = "absent" /\ CLAIMED.state = "CLAIMED" /\ Absent # CLAIMED
       /\ Absent \in [state : {"absent", "CLAIMED", "response"}, inst : Inst \cup {None},
                      hash : {None} \cup {In[s] : s \in Starter}]
       /\ CLAIMED \in [state : {"absent", "CLAIMED", "response"}, inst : Inst \cup {None},
                       hash : {None} \cup {In[s] : s \in Starter}]
    BY DEF Absent, CLAIMED
 <1>p. ASSUME NEW s \in Starter, NEW p, PhaseAt(s, p)
       PROVE  phase'[s] = p /\ \A q \in Starter : q # s => phase'[q] = phase[q]
    BY <1>i, <1>p DEF PhaseAt, PhaseOK
 <1>q. ASSUME NEW s \in Starter, PhaseOK, NEW p \in {"unsent", "inside", "taken", "bare", "answered", "conflict", "dead"},
              PhaseAt(s, p)
       PROVE  PhaseOK'
    BY <1>q DEF PhaseAt, PhaseOK
 <1>x. /\ NoStart \in StartRecord /\ NoStart.pc = "new"
       /\ [NoStart EXCEPT !.pc = "failed"] \in StartRecord
       /\ \A j \in Inst : [NoStart EXCEPT !.pc = "done", !.inst = j] \in StartRecord
   <2>1. /\ NoRun \in RunIds
         /\ 0 \in 0 .. startWorkflowMaxAttempts - 1
      BY DEF RunIds
   <2> HIDE DEF NoRun
   <2>2. NoStart \in StartRecord /\ NoStart.pc = "new"
      BY <2>1 DEF StartRecord, NoStart
   <2>3. [NoStart EXCEPT !.pc = "failed"] \in StartRecord
      BY <2>2 DEF StartRecord
   <2>4. \A j \in Inst : [NoStart EXCEPT !.pc = "done", !.inst = j] \in StartRecord
      BY <2>2 DEF StartRecord
   <2> QED
      BY <2>2, <2>3, <2>4
 <1>y. UNCHANGED runs => StartRecord' = StartRecord
    BY DEF StartRecord, RunIds
 <1>m. (Fault \/ NoFault) /\ UNCHANGED <<ctxvars, history>> => MarksOK'
    BY <1>t, FaultsBounded DEF MarksOK, ctxvars, history
 <1>r. AtRest \cap {"launch", "record", "check"} = {} /\ {"done", "refused", "failed"} \subseteq AtRest
    BY DEF AtRest
 <1>1. ASSUME NEW s \in Starter, WithIdempotency(s) PROVE Inv'
   <2>0. UNCHANGED <<row, runs, start, close, ctxvars, history, served, unclaimed>> /\ phase[s] = "unsent"
      BY <1>1 DEF WithIdempotency
   <2>1. StartInv'
     <3>1. MarksOK'
        BY <1>1, <1>m, <2>0 DEF WithIdempotency
     <3>2. ~Launching(s) /\ ~Launching(s)' /\ StartOK'
        BY <1>i, <1>r, <1>t, <2>0 DEF OutsideRests, Launching, StartOK, StartRecord, RunIds
     <3>3. UNCHANGED <<row, runs, close, shared, missed>>
        BY <2>0 DEF history
     <3> QED
        BY <1>i, <2>0, <3>1, <3>2, <3>3, ExchangedAtRest
   <2>2. PICK p \in {"inside", "taken", "bare"} : PhaseAt(s, p) /\ (p = "inside" => entry = Absent)
      BY <1>1 DEF WithIdempotency
   <2>3. /\ phase'[s] = p /\ p \in {"inside", "taken", "bare"} /\ PhaseOK'
         /\ \A q \in Starter : q # s => phase'[q] = phase[q]
      BY <1>i, <1>p, <1>q, <2>2
   <2>4. (entry = Absent /\ entry' = CLAIMED) \/ (entry' = entry /\ p # "inside")
     <3>1. CASE entry = Absent /\ entry' = CLAIMED
        BY <3>1
     <3>2. CASE UNCHANGED entry /\ (PhaseAt(s, "taken") \/ PhaseAt(s, "bare"))
        BY <1>p, <2>3, <3>2
     <3> QED
        BY <1>1, <3>1, <3>2 DEF WithIdempotency
   <2>5. EntryOK' /\ AnswersRest' /\ ServedOK' /\ AnswersName' /\ OutsideRests'
     <3>1. EntryOK' /\ AnswersName'
        BY <1>a, <1>i, <2>0, <2>4 DEF EntryOK, AnswersName
     <3>2. AnswersRest' /\ OutsideRests' /\ ServedOK'
        BY <1>i, <2>0, <2>3 DEF AnswersRest, OutsideRests, ServedOK, Answered
     <3> QED
        BY <3>1, <3>2
   <2>6. ServedOnce'
     <3>1. CASE entry = Absent /\ entry' = CLAIMED
       <4>1. served' = {} /\ \A q \in Starter : phase[q] # "inside"
          BY <1>a, <1>o, <2>0, <3>1 DEF AbsentServesNone, InsideHolds
       <4>2. OneInside' /\ InsideHolds'
          BY <2>3, <3>1, <4>1 DEF OneInside, InsideHolds
       <4>3. AbsentServesNone' /\ KeptIsServed' /\ ServedAgree'
          BY <4>1 DEF AbsentServesNone, KeptIsServed, ServedAgree
       <4> QED
          BY <4>2, <4>3 DEF ServedOnce
     <3>2. CASE entry' = entry /\ p # "inside"
        BY <1>o, <2>0, <2>3, <3>2 DEF ServedOnce, AbsentServesNone, InsideHolds, OneInside, KeptIsServed,
           ServedAgree
     <3> QED
        BY <2>4, <3>1, <3>2
   <2> QED
      BY <2>1, <2>3, <2>5, <2>6 DEF Inv, MiddlewareOK
 <1>2. ASSUME NEW s \in Starter, ReplayIfCached(s) PROVE Inv'
   <2>0. UNCHANGED <<row, runs, close, ctxvars, history, entry, unclaimed>> /\ phase[s] = "taken"
      BY <1>2 DEF ReplayIfCached
   <2>1. MarksOK' /\ ~Launching(s) /\ UNCHANGED <<row, runs, close, shared, missed>>
      BY <1>2, <1>i, <1>m, <1>r, <2>0 DEF ReplayIfCached, OutsideRests, Launching, history
   <2>2. CASE /\ PhaseAt(s, "answered") /\ Replays(s)
              /\ start' = [start EXCEPT ![s] = [NoStart EXCEPT !.pc = "done", !.inst = entry.inst]]
              /\ served' = served \cup {entry.inst}
     <3>0. entry.inst \in Inst /\ entry.state = "response"
        BY <1>i, <2>2 DEF Replays, AnswersName
     <3>1. StartOK' /\ start'[s].pc = "done" /\ start'[s].inst = entry.inst
        BY <1>t, <1>x, <1>y, <2>0, <2>2, <3>0 DEF StartOK, NoStart
     <3>a. \A q \in Starter : q # s => start'[q] = start[q]
        BY <1>t, <2>2 DEF StartOK
     <3>2. StartInv'
       <4>1. ~Launching(s)'
          BY <3>1 DEF Launching
       <4> QED
          BY <1>i, <2>1, <3>1, <3>a, <4>1, ExchangedAtRest
     <3>3. phase'[s] = "answered" /\ PhaseOK' /\ \A q \in Starter : q # s => phase'[q] = phase[q]
        BY <1>i, <1>p, <1>q, <2>2
     <3>4. EntryOK' /\ AnswersRest' /\ ServedOK' /\ AnswersName' /\ OutsideRests'
        BY <1>i, <1>r, <2>0, <2>2, <3>0, <3>1, <3>3, <3>a
           DEF EntryOK, AnswersRest, Answered, ServedOK, AnswersName, OutsideRests
     <3>5. ServedOnce'
       <4>1. entry # CLAIMED /\ entry # Absent
          BY <1>a, <3>0
       <4>2. OneInside' /\ InsideHolds' /\ AbsentServesNone'
          BY <1>o, <2>0, <3>3, <4>1 DEF OneInside, InsideHolds, AbsentServesNone
       <4>3. KeptIsServed' /\ ServedAgree'
          BY <1>o, <2>0, <2>2, <3>0 DEF KeptIsServed, ServedAgree
       <4> QED
          BY <4>2, <4>3 DEF ServedOnce
     <3> QED
        BY <3>2, <3>3, <3>4, <3>5 DEF Inv, MiddlewareOK
   <2>3. CASE PhaseAt(s, "conflict") /\ UNCHANGED <<start, served>>
     <3>2. StartInv'
       <4>1. ~Launching(s)' /\ StartOK'
          BY <1>t, <2>0, <2>1, <2>3 DEF Launching, StartOK, StartRecord, RunIds
       <4> QED
          BY <1>i, <2>1, <2>3, <4>1, ExchangedAtRest
     <3>3. phase'[s] = "conflict" /\ PhaseOK' /\ \A q \in Starter : q # s => phase'[q] = phase[q]
        BY <1>i, <1>p, <1>q, <2>3
     <3>4. EntryOK' /\ AnswersRest' /\ ServedOK' /\ AnswersName' /\ OutsideRests'
        BY <1>i, <2>0, <2>3, <3>3 DEF EntryOK, AnswersRest, Answered, ServedOK, AnswersName, OutsideRests
     <3>5. ServedOnce'
        BY <1>o, <2>0, <2>3, <3>3 DEF ServedOnce, AbsentServesNone, InsideHolds, OneInside, KeptIsServed,
           ServedAgree
     <3> QED
        BY <3>2, <3>3, <3>4, <3>5 DEF Inv, MiddlewareOK
   <2> QED
      BY <1>2, <2>2, <2>3 DEF ReplayIfCached
 <1>3. ASSUME NEW s \in Starter, Handle(s) PROVE Inv'
   <2>0. phase[s] \in {"inside", "bare"} /\ StartHandler(s) /\ UNCHANGED <<entry, phase, served>>
      BY <1>3 DEF Handle
   <2>1. StartInv' /\ \A q \in Starter : start'[q].pc = "done" => start'[q].inst \in Inst
      BY <2>0, StartPart DEF StartNext
   <2>2. /\ \A q \in Starter : q # s => start'[q] = start[q]
         /\ row' # row /\ start[s].inst = None => start'[s].inst \in Inst
      BY <1>i, <2>0, HandlerTouches
   <2>3. ServedOK'
      BY <1>3, <1>i, <2>0, <2>2 DEF Handle, ServedOK
   <2>4. EntryOK' /\ PhaseOK' /\ AnswersRest' /\ AnswersName' /\ OutsideRests'
      BY <1>i, <2>0, <2>1, <2>2 DEF EntryOK, PhaseOK, AnswersRest, Answered, AnswersName, OutsideRests
   <2>5. ServedOnce'
      BY <1>o, <2>0 DEF ServedOnce, AbsentServesNone, InsideHolds, OneInside, KeptIsServed, ServedAgree
   <2> QED
      BY <2>1, <2>3, <2>4, <2>5 DEF Inv, MiddlewareOK
 <1>4. ASSUME NEW s \in Starter, StoreResult(s) PROVE Inv'
   <2>0. /\ UNCHANGED <<row, runs, start, close, ctxvars, history, unclaimed>> /\ phase[s] = "inside" /\ Answered(s)
         /\ PhaseAt(s, "answered")
         /\ served' = IF start[s].pc = "done" THEN served \cup {start[s].inst} ELSE served
      BY <1>4 DEF StoreResult
   <2>1. StartInv'
     <3>1. MarksOK' /\ UNCHANGED <<row, runs, close, shared, missed>>
        BY <1>4, <1>m, <2>0 DEF StoreResult, history
     <3>2. ~Launching(s) /\ ~Launching(s)' /\ StartOK'
        BY <1>t, <2>0 DEF Answered, Launching, StartOK, StartRecord, RunIds
     <3> QED
        BY <1>i, <2>0, <3>1, <3>2, ExchangedAtRest
   <2>2. phase'[s] = "answered" /\ PhaseOK' /\ \A q \in Starter : q # s => phase'[q] = phase[q]
      BY <1>i, <1>p, <1>q, <2>0
   <2>3. entry' \in {entry, Absent} \/ (start[s].pc = "done" /\ entry' = CachedResp(s))
      BY <1>4 DEF StoreResult, Stored
   <2>4. /\ CachedResp(s).state = "response" /\ CachedResp(s).inst = start[s].inst
         /\ CachedResp(s) \in [state : {"absent", "CLAIMED", "response"}, inst : Inst \cup {None},
                               hash : {None} \cup {In[q] : q \in Starter}]
      BY <1>t DEF CachedResp, StartOK, StartRecord
   <2>5. entry = CLAIMED /\ served = {} /\ (start[s].pc = "done" => start[s].inst \in Inst)
      BY <1>i, <1>o, <2>0 DEF InsideHolds, AnswersName
   <2>6. EntryOK' /\ AnswersName'
      BY <1>a, <1>i, <2>0, <2>3, <2>4, <2>5 DEF EntryOK, AnswersName
   <2>7. AnswersRest' /\ ServedOK' /\ OutsideRests'
      BY <1>i, <1>r, <2>0, <2>2, <2>5 DEF AnswersRest, Answered, ServedOK, OutsideRests
   <2>8. ServedOnce'
     <3>1. \A q \in Starter : phase'[q] # "inside"
        BY <1>o, <2>0, <2>2 DEF OneInside
     <3>2. OneInside' /\ InsideHolds'
        BY <3>1 DEF OneInside, InsideHolds
     <3>3. ServedAgree'
        BY <2>0, <2>5 DEF ServedAgree
     <3>4. KeptIsServed' /\ AbsentServesNone'
       <4>1. CASE entry' = entry
          BY <1>a, <2>5, <4>1 DEF KeptIsServed, AbsentServesNone
       <4>2. CASE entry' = Absent /\ start[s].pc # "done"
          BY <1>a, <2>0, <2>5, <4>2 DEF KeptIsServed, AbsentServesNone
       <4>3. CASE start[s].pc = "done" /\ entry' = CachedResp(s)
          BY <1>a, <2>0, <2>4, <2>5, <4>3 DEF KeptIsServed, AbsentServesNone
       <4> QED
          BY <1>4, <4>1, <4>2, <4>3 DEF StoreResult, Stored
     <3> QED
        BY <3>2, <3>3, <3>4 DEF ServedOnce
   <2> QED
      BY <2>1, <2>2, <2>6, <2>7, <2>8 DEF Inv, MiddlewareOK
 <1>5. ASSUME NEW s \in Starter, Resend(s) \/ ResendLost(s) PROVE Inv'
   <2>0. /\ UNCHANGED <<row, runs, close, ctxvars, history, entry, served, unclaimed>> /\ PhaseAt(s, "unsent")
         /\ start' = [start EXCEPT ![s] = NoStart]
      BY <1>5 DEF Resend, ResendLost
   <2>1. start'[s].pc = "new" /\ StartOK' /\ \A q \in Starter : q # s => start'[q] = start[q]
      BY <1>t, <1>x, <1>y, <2>0 DEF StartOK
   <2>2. ~Launching(s)
      BY <1>5, <1>i, <1>r DEF Resend, ResendLost, OutsideRests, Launching
   <2>3. StartInv'
     <3>1. MarksOK' /\ UNCHANGED <<row, runs, close, shared, missed>>
        BY <1>5, <1>m, <2>0 DEF Resend, ResendLost, NoFault, history
     <3>2. ~Launching(s)'
        BY <2>1 DEF Launching
     <3> QED
        BY <1>i, <2>1, <2>2, <3>1, <3>2, ExchangedAtRest
   <2>4. phase'[s] = "unsent" /\ PhaseOK' /\ \A q \in Starter : q # s => phase'[q] = phase[q]
      BY <1>i, <1>p, <1>q, <2>0
   <2>5. EntryOK' /\ AnswersRest' /\ ServedOK' /\ AnswersName' /\ OutsideRests'
      BY <1>i, <1>r, <2>0, <2>1, <2>4 DEF EntryOK, AnswersRest, Answered, ServedOK, AnswersName,
         OutsideRests, AtRest
   <2>6. ServedOnce'
      BY <1>o, <2>0, <2>4 DEF ServedOnce, AbsentServesNone, InsideHolds, OneInside, KeptIsServed,
         ServedAgree
   <2> QED
      BY <2>3, <2>4, <2>5, <2>6 DEF Inv, MiddlewareOK
 <1>6. ASSUME NEW s \in Starter, HandlerDies(s) PROVE Inv'
   <2>0. /\ UNCHANGED <<row, runs, close, entry, served, unclaimed>>
         /\ PhaseAt(s, IF phase[s] = "inside" THEN "dead" ELSE "bare")
         /\ start' = [start EXCEPT ![s] = [NoStart EXCEPT !.pc = "failed"]]
      BY <1>6 DEF HandlerDies, StartDies
   <2>1. start'[s].pc = "failed" /\ StartOK' /\ \A q \in Starter : q # s => start'[q] = start[q]
      BY <1>t, <1>x, <1>y, <2>0 DEF StartOK, NoStart
   <2>2. StartInv'
     <3>1. CASE StartDies(s)
        BY <3>1, StartPart DEF StartNext
     <3>2. CASE ~Launching(s) /\ Fault /\ UNCHANGED <<ctxvars, history>>
       <4>1. MarksOK' /\ UNCHANGED <<shared, missed>>
          BY <1>m, <3>2 DEF history
       <4>2. ~Launching(s)'
          BY <2>1 DEF Launching
       <4> QED
          BY <1>i, <2>0, <2>1, <3>2, <4>1, <4>2, ExchangedAtRest
     <3> QED
        BY <1>6, <3>1, <3>2 DEF HandlerDies
   <2>3. phase'[s] \in {"dead", "bare"} /\ \A q \in Starter : q # s => phase'[q] = phase[q]
      BY <1>p, <2>0
   <2>4. PhaseOK'
      BY <1>i, <2>0 DEF PhaseAt, PhaseOK
   <2>5. EntryOK' /\ AnswersRest' /\ ServedOK' /\ AnswersName' /\ OutsideRests'
      BY <1>i, <1>r, <2>0, <2>1, <2>3 DEF EntryOK, AnswersRest, Answered, ServedOK, AnswersName,
         OutsideRests
   <2>6. ServedOnce'
      BY <1>o, <2>0, <2>3 DEF ServedOnce, AbsentServesNone, InsideHolds, OneInside, KeptIsServed,
         ServedAgree
   <2> QED
      BY <2>2, <2>4, <2>5, <2>6 DEF Inv, MiddlewareOK
 <1>7. CASE Expire
   <2>0. /\ UNCHANGED <<startvars, phase, unclaimed>> /\ entry' = Absent /\ served' = {}
         /\ \A s \in Starter : phase[s] # "inside"
      BY <1>7 DEF Expire
   <2>1. StartInv' /\ UNCHANGED start
      BY <2>0, StartPart DEF startvars
   <2>2. EntryOK' /\ PhaseOK' /\ AnswersRest' /\ ServedOK' /\ AnswersName' /\ OutsideRests'
      BY <1>a, <1>i, <2>0, <2>1 DEF EntryOK, PhaseOK, AnswersRest, Answered, ServedOK, AnswersName,
         OutsideRests
   <2>3. ServedOnce'
      BY <2>0 DEF ServedOnce, AbsentServesNone, InsideHolds, OneInside, KeptIsServed, ServedAgree
   <2> QED
      BY <2>1, <2>2, <2>3 DEF Inv, MiddlewareOK
 <1>8. ASSUME [StartNext]_startvars, UNCHANGED start, UNCHANGED idemvars PROVE Inv'
   <2>1. StartInv'
      BY <1>8, StartPart
   <2>2. EntryOK' /\ PhaseOK' /\ AnswersRest' /\ ServedOK' /\ AnswersName' /\ OutsideRests'
      BY <1>8, <1>i DEF idemvars, EntryOK, PhaseOK, AnswersRest, Answered, ServedOK, AnswersName,
         OutsideRests
   <2>3. ServedOnce'
      BY <1>8, <1>o DEF idemvars, ServedOnce, AbsentServesNone, InsideHolds, OneInside, KeptIsServed,
         ServedAgree
   <2> QED
      BY <2>1, <2>2, <2>3 DEF Inv, MiddlewareOK
 <1>9. ASSUME NEW c \in Closer, CloseStep(c) \/ CloseDies(c), UNCHANGED idemvars PROVE Inv'
   <2>1. UNCHANGED start
      BY <1>9 DEF CloseStep, CloseDies, Terminate, CloseExecution, MarkTerminated, ConfirmClosed, CloseAgain
   <2> QED
      BY <1>8, <1>9, <2>1 DEF StartNext
 <1>10. ASSUME NEW r \in DOMAIN runs, Complete(r) \/ Return(r), UNCHANGED idemvars PROVE Inv'
   <2>1. UNCHANGED start
      BY <1>10 DEF Complete, Return
   <2> QED
      BY <1>8, <1>10, <2>1 DEF StartNext
 <1>11. CASE UNCHANGED vars
    BY <1>8, <1>11 DEF vars, startvars
 <1> QED
    BY <1>1, <1>2, <1>3, <1>4, <1>5, <1>6, <1>7, <1>9, <1>10, <1>11 DEF Next, RequestStep

\* and holds at first.
LEMMA InvInit == Init => Inv
 <1> SUFFICES ASSUME Init PROVE Inv
    OBVIOUS
 <1>1. StartInv
    BY StartInvInit DEF Init
 <1>2. \A s \in Starter : phase[s] = "unsent" /\ start[s] = NoStart
    BY DEF Init, StartInit
 <1>3. MiddlewareOK
    BY <1>2 DEF Init, MiddlewareOK, EntryOK, PhaseOK, AnswersRest, ServedOK, AnswersName, Absent, NoStart
 <1>4. OutsideRests /\ ServedOnce
    BY <1>2 DEF Init, OutsideRests, AtRest, NoStart, ServedOnce, AbsentServesNone, InsideHolds, OneInside,
       KeptIsServed, ServedAgree
 <1> QED
    BY <1>1, <1>3, <1>4 DEF Inv

\* The inductive invariant holds in every reachable state.
THEOREM Invariance == Spec => []Inv
    BY InvInit, InvStep, PTL DEF Spec

\* Every variable of the starts, the terminates and the middleware keeps its type,
\* whatever the number of requests, keys, instances and faults.
THEOREM StartTypeCorrect == Spec => []TypeOK
 <1>1. Inv => TypeOK
    BY DEF Inv, StartInv, MiddlewareOK, EntryOK, PhaseOK, AnswersRest, ServedOK, TypeOK
 <1> QED
    BY <1>1, Invariance, PTL

\* A terminate that crosses the start of its instance leaves no execution behind,
\* unless a close failed or the key was not free: at any moment an open execution
\* of a TERMINATED row is one that a start or a terminate under way is to close.
THEOREM TerminatedLeavesNoRunHolds == Spec => []TerminatedLeavesNoRun
 <1>1. Inv => TerminatedLeavesNoRun
   <2> SUFFICES ASSUME Inv, NEW i \in Inst, i \notin missed, i \notin shared, row[i].status = "TERMINATED",
                       Cardinality(RunsOf(i)) <= 1,
                       \A s \in Starter : ~(Launching(s) /\ start[s].inst = i),
                       \A c \in Closer : ~(Closing(c) /\ close[c].inst = i),
                       NEW r \in Open, runs[r].inst = i
                PROVE  FALSE
      BY DEF TerminatedLeavesNoRun
   <2>1. RunsOK /\ ClosesCovered
      BY DEF Inv, StartInv, StartTypeOK
   <2>2. IsFiniteSet(RunsOf(i))
     <3>1. RunsOf(i) \in SUBSET (1 .. Len(runs)) /\ Len(runs) \in Nat
        BY <2>1 DEF RunsOK, RunsOf
     <3>2. IsFiniteSet(1 .. Len(runs))
        BY <3>1, FS_Interval
     <3> QED
        BY <3>1, <3>2, FS_Subset
   <2>3. \A p, q \in RunsOf(i) : p = q
      BY <2>2, AtMostOne
   <2>4. Covered(i, r)
      BY <2>1, <2>3 DEF ClosesCovered, RunsOf, Open
   <2> QED
      BY <2>4 DEF Covered, AtRun, Launching, Closing
 <1> QED
    BY <1>1, Invariance, PTL

\* The run a live row names is open and its own, when the key was free and nobody
\* terminates the instance: no other instance of the key can have given it one.
THEOREM RecordedRunIsItsOwnHolds == Spec => []RecordedRunIsItsOwn
 <1>1. Inv => RecordedRunIsItsOwn
   <2> SUFFICES ASSUME Inv, NEW i \in Live, i \notin shared, row[i].run # NoRun, \A c \in Closer : close[c].inst # i
                PROVE  row[i].run \in Open /\ runs[row[i].run].inst = i
      BY DEF RecordedRunIsItsOwn
   <2>1. OwnKey(i) /\ RowOK /\ i \in Inst
      BY DEF Inv, StartInv, OwnKeys, StartTypeOK, Live
   <2>2. row[i].run \in RunsOf(i)
      BY <2>1 DEF OwnKey, RunsOf, RowOK, RowRecord, RunIds
   <2> QED
      BY <2>1, <2>2 DEF OwnKey, RunsOf
 <1> QED
    BY <1>1, Invariance, PTL

\* Between two expiries of the key, every 2xx answer names the same instance.
THEOREM OneInstancePerKeyHolds == Spec => []OneInstancePerKey
 <1>1. Inv => OneInstancePerKey
   <2> SUFFICES ASSUME Inv PROVE Cardinality(served) <= 1
      BY DEF OneInstancePerKey
   <2>1. \A i, j \in served : i = j
      BY DEF Inv, ServedOnce, ServedAgree
   <2>2. CASE served = {}
      BY <2>2, FS_EmptySet
   <2>3. CASE served # {}
     <3>1. PICK i \in served : TRUE
        BY <2>3
     <3>2. served = {i}
        BY <2>1, <3>1
     <3> QED
        BY <3>2, FS_Singleton
   <2> QED
      BY <2>2, <2>3
 <1> QED
    BY <1>1, Invariance, PTL

\* At any moment at most one instance of a key is live, and at most one execution
\* of its workflow id is open.
THEOREM OneAtATime == Spec => [](OneLivePerKey /\ OneOpenPerKey)
 <1>1. Inv => OneLivePerKey /\ OneOpenPerKey
    BY DEF Inv, StartInv
 <1> QED
    BY <1>1, Invariance, PTL

=============================================================================
