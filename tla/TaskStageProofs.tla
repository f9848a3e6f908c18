--------------------------- MODULE TaskStageProofs ---------------------------
(***************************************************************************)
(* Proofs about one task node, its rows and the calls that cross.  First,  *)
(* what every operation does to a row (RowStep); then, what a step does to *)
(* the rows, to the run (Continues, Begins) and to the activities under    *)
(* way (AttemptsAppear).  The inductive invariant follows from these: a    *)
(* result stays with its visit, a version that is still current was read   *)
(* from the row as it is, whatever closes a row is about a visit the stage *)
(* is done with, and the row of a waiting stage is held by somebody unless *)
(* a defer is on its way.                                                  *)
(***************************************************************************)
EXTENDS TaskStage, SequenceTheorems, TLAPS

(***************************************************************************)
(* What an operation does to a row.                                        *)
(***************************************************************************)
\* Assignments whose state is s now.
LEMMA PutRow ==
    ASSUME NEW t \in Rows, NEW S, NEW s \in {"active", "vacated", "done"}
    PROVE  LET u == Put(t, S, s)
           IN /\ u \in Rows /\ u.st = t.st /\ u.ver = t.ver /\ u.team = t.team /\ DOMAIN u.asg = DOMAIN t.asg
              /\ \A i \in DOMAIN t.asg : /\ u.asg[i].user = t.asg[i].user /\ u.asg[i].lead = t.asg[i].lead
                                         /\ u.asg[i].st = IF i \in S THEN s ELSE t.asg[i].st
 <1> DEFINE f == [i \in DOMAIN t.asg |-> IF i \in S THEN [t.asg[i] EXCEPT !.st = s] ELSE t.asg[i]]
 <1>1. t.asg \in Seq(Assignments) /\ DOMAIN t.asg = 1 .. Len(t.asg) /\ Len(t.asg) \in Nat
    BY DEF Rows
 <1>2. \A i \in DOMAIN t.asg : t.asg[i] \in Assignments
    BY <1>1
 <1>3. \A i \in DOMAIN t.asg : /\ f[i] \in Assignments
                               /\ f[i].user = t.asg[i].user /\ f[i].lead = t.asg[i].lead
                               /\ f[i].st = IF i \in S THEN s ELSE t.asg[i].st
    BY <1>2 DEF Assignments
 <1>4. f \in [1 .. Len(t.asg) -> Assignments]
    BY <1>1, <1>3
 <1>5. f \in Seq(Assignments) /\ DOMAIN f = DOMAIN t.asg
    BY <1>1, <1>4
 <1> HIDE DEF f
 <1>6. [t EXCEPT !.asg = f] \in Rows /\ [t EXCEPT !.asg = f].asg = f
       /\ [t EXCEPT !.asg = f].st = t.st /\ [t EXCEPT !.asg = f].ver = t.ver
       /\ [t EXCEPT !.asg = f].team = t.team
    BY <1>5 DEF Rows
 <1>7. Put(t, S, s) = [t EXCEPT !.asg = f]
    BY DEF Put, f
 <1> QED
    BY <1>3, <1>5, <1>6, <1>7

\* The version is the next one and nothing else changes.
LEMMA BumpRow ==
    ASSUME NEW t \in Rows
    PROVE  /\ Bump(t) \in Rows /\ Bump(t).st = t.st /\ Bump(t).ver = t.ver + 1
           /\ Bump(t).asg = t.asg /\ Bump(t).team = t.team
    BY DEF Bump, Rows

\* The status is written with the next version.
LEMMA StatusRow ==
    ASSUME NEW t \in Rows, NEW s \in Statuses
    PROVE  LET u == WithStatus(t, s)
           IN u \in Rows /\ u.st = s /\ u.ver = t.ver + 1 /\ u.asg = t.asg /\ u.team = t.team
 <1>1. Bump(t) \in Rows /\ Bump(t).ver = t.ver + 1 /\ Bump(t).asg = t.asg /\ Bump(t).team = t.team
    BY BumpRow
 <1> QED
    BY <1>1 DEF WithStatus, Rows

\* A row changes only with its version; a lead stays the lead as long as it is
\* active, and passes to somebody else when a reassignment vacates it.
RowMoves(t, u) ==
    /\ u \in Rows /\ u.team = t.team
    /\ u = t \/ u.ver > t.ver
    /\ u.st = "NONE" => u = t
RowLeads(t, u) ==
    /\ \A i \in Leads(t) : i \in Active(u) => u.asg[i].lead
    /\ /\ Leads(t) # {} /\ u.st \in Open
       /\ \A i \in Leads(t) : u.asg[i].st # "done"
       => Leads(u) # {}
RowSingle(t, u) ==
    Mode(t) = "single" /\ (\A i, j \in Active(t) : i = j) => \A i, j \in Active(u) : i = j
RowStep(t, u) == RowMoves(t, u) /\ RowLeads(t, u) /\ RowSingle(t, u)

\* A row that is not written moves as it may.
LEMMA RowStays == \A t \in Rows : RowStep(t, t)
    BY DEF RowStep, RowMoves, RowLeads, RowSingle, Leads

\* An open row is closed and taken from everybody; a closed one is left alone.
LEMMA WithdrawnRow ==
    ASSUME NEW t \in Rows, NEW s \in {"SUPERSEDED", "FAILED"}
    PROVE  RowStep(t, Withdrawn(t, s)) /\ (t.st \notin Open => Withdrawn(t, s) = t)
 <1>1. CASE t.st \in Open
   <2> DEFINE w == WithStatus(t, s)
              u == Put(w, Active(t), "vacated")
   <2>1. w \in Rows /\ w.st = s /\ w.ver = t.ver + 1 /\ w.asg = t.asg /\ w.team = t.team
      BY StatusRow DEF Statuses
   <2> HIDE DEF w
   <2>2. /\ u \in Rows /\ u.st = s /\ u.ver = t.ver + 1 /\ u.team = t.team /\ DOMAIN u.asg = DOMAIN t.asg
         /\ \A i \in DOMAIN t.asg : u.asg[i].st = IF i \in Active(t) THEN "vacated" ELSE t.asg[i].st
      BY <2>1, PutRow
   <2>3. Withdrawn(t, s) = u
      BY <1>1 DEF Withdrawn, w
   <2> HIDE DEF u
   <2>4. Active(u) = {}
      BY <2>2 DEF Active
   <2>5. t.ver \in Nat /\ u.st \notin Open /\ u.st # "NONE"
      BY <2>2 DEF Rows, Open
   <2> QED
      BY <1>1, <2>2, <2>3, <2>4, <2>5 DEF RowStep, RowMoves, RowLeads, RowSingle
 <1>2. CASE t.st \notin Open
    BY <1>2, RowStays DEF Withdrawn
 <1> QED
    BY <1>1, <1>2

\* A row is inserted once, and a new row is open and held (CreateTask).
LEMMA CreatedRow ==
    ASSUME NEW t \in Rows, t.st = "NONE" => t = NoTask(t.team)
    PROVE  /\ RowStep(t, Created(t))
           /\ t.st # "NONE" => Created(t) = t
           /\ t.st = "NONE" => Created(t).st \in Open /\ Active(Created(t)) # {}
 <1>1. CASE t.st # "NONE"
    BY <1>1, RowStays DEF Created
 <1>2. CASE t.st = "NONE"
   <2> DEFINE f == [i \in DOMAIN t.team |-> [user |-> t.team[i], st |-> "active", lead |-> FALSE]]
              u == [t EXCEPT !.st = "READY", !.ver = 1, !.asg = f]
   <2>1. t.team \in Seq(Users) /\ Len(t.team) \in Nat /\ DOMAIN t.team = 1 .. Len(t.team) /\ Len(t.team) > 0
      BY TeamsAssumption DEF Rows
   <2>2. \A i \in DOMAIN t.team : f[i] \in Assignments /\ f[i].st = "active"
      BY <2>1 DEF Assignments
   <2>3. f \in [1 .. Len(t.team) -> Assignments] /\ DOMAIN f = 1 .. Len(t.team)
      BY <2>1, <2>2
   <2>4. f \in Seq(Assignments)
      BY <2>1, <2>3
   <2> HIDE DEF f
   <2>5. u \in Rows /\ u.st = "READY" /\ u.ver = 1 /\ u.asg = f /\ u.team = t.team
      BY <2>4 DEF Rows, Statuses, Open
   <2>6. Created(t) = u
      BY <1>2 DEF Created, f
   <2> HIDE DEF u
   <2>7. Active(u) = 1 .. Len(t.team)
      BY <2>1, <2>2, <2>3, <2>5 DEF Active
   <2>8. t.ver = 0 /\ Leads(t) = {}
      BY <1>2 DEF NoTask, Leads, Active
   <2>9. Active(u) # {} /\ (Mode(t) = "single" => \A i, j \in Active(u) : i = j)
     <3>1. 1 \in Active(u)
        BY <2>1, <2>7
     <3>0. Mode(t) = "single" => ~ Len(t.team) > 1
        BY Zenon DEF Mode
     <3>2. Mode(t) = "single" => Len(t.team) = 1
       <4> DEFINE n == Len(t.team)
       <4>1. n \in Nat /\ n > 0 /\ (Mode(t) = "single" => ~ n > 1)
          BY <2>1, <3>0
       <4> HIDE DEF n
       <4>2. Mode(t) = "single" => n = 1
          BY <4>1
       <4> QED
          BY <4>2 DEF n
     <3>3. Len(t.team) = 1 => Active(u) = {1}
        BY <2>7
     <3> QED
        BY <3>1, <3>2, <3>3
   <2> QED
      BY <1>2, <2>5, <2>6, <2>8, <2>9 DEF RowStep, RowMoves, RowLeads, RowSingle, Open
 <1> QED
    BY <1>1, <1>2

\* Completing an assignment (CompleteAssignment).
LEMMA CompletedRow ==
    ASSUME NEW t \in Rows, NEW u, t.st = "NONE" => t = NoTask(t.team)
    PROVE  RowStep(t, Completed(t, u))
 <1>1. CASE HeldBy(t, u) = {}
    BY <1>1, RowStays DEF Completed
 <1>2. CASE HeldBy(t, u) # {}
   <2> DEFINE p == Put(t, HeldBy(t, u), "done")
              w == Bump(p)
   <2>1. /\ p \in Rows /\ p.st = t.st /\ p.ver = t.ver /\ p.team = t.team /\ DOMAIN p.asg = DOMAIN t.asg
         /\ \A i \in DOMAIN t.asg : /\ p.asg[i].lead = t.asg[i].lead
                                    /\ p.asg[i].st = IF i \in HeldBy(t, u) THEN "done" ELSE t.asg[i].st
      BY PutRow
   <2> HIDE DEF p
   <2>2. w \in Rows /\ w.st = t.st /\ w.ver = t.ver + 1 /\ w.asg = p.asg /\ w.team = t.team
      BY <2>1, BumpRow
   <2>3. Completed(t, u) = w
      BY <1>2 DEF Completed, p
   <2> HIDE DEF w
   <2>a. t.st # "NONE"
      BY <1>2 DEF NoTask, HeldBy, Active
   <2>4. Active(w) = Active(t) \ HeldBy(t, u) /\ t.ver \in Nat
      BY <2>1, <2>2 DEF Active, HeldBy, Rows
   <2>5. \A i \in Active(w) : w.asg[i].lead = t.asg[i].lead
      BY <2>1, <2>2, <2>4 DEF Active
   <2>6. \A i \in Leads(t) : i \in Active(w) \/ w.asg[i].st = "done"
      BY <2>1, <2>2, <2>4 DEF Leads, Active
   <2> QED
      BY <2>2, <2>3, <2>4, <2>5, <2>6, <2>a DEF RowStep, RowMoves, RowLeads, RowSingle, Leads
 <1> QED
    BY <1>1, <1>2

\* Closing the row after a result (UpdateTaskStatus).
LEMMA FinishedRow ==
    ASSUME NEW t \in Rows
    PROVE  RowStep(t, Finished(t))
 <1>1. CASE t.st = "COMPLETED"
    BY <1>1, RowStays DEF Finished
 <1>2. CASE t.st # "COMPLETED"
   <2> DEFINE w == WithStatus(t, "COMPLETED")
   <2>1. w \in Rows /\ w.st = "COMPLETED" /\ w.ver = t.ver + 1 /\ w.asg = t.asg /\ w.team = t.team
      BY StatusRow DEF Statuses
   <2>2. Finished(t) = w
      BY <1>2 DEF Finished
   <2> HIDE DEF w
   <2>3. Active(w) = Active(t) /\ t.ver \in Nat /\ w.st \notin Open
      BY <2>1 DEF Active, Rows, Open
   <2> QED
      BY <2>1, <2>2, <2>3 DEF RowStep, RowMoves, RowLeads, RowSingle, Leads
 <1> QED
    BY <1>1, <1>2

\* Deferring (DeferTask).
LEMMA DeferredRow ==
    ASSUME NEW t \in Rows, NEW k
    PROVE  RowStep(t, Deferred(t, k))
 <1>1. CASE t.asg[k].st = "done"
    BY <1>1, RowStays DEF Deferred
 <1>2. CASE t.asg[k].st # "done"
   <2> DEFINE w == WithStatus(t, "DEFERRED")
              p == Put(w, {k}, "done")
              u == Bump(p)
   <2>1. w \in Rows /\ w.st = "DEFERRED" /\ w.ver = t.ver + 1 /\ w.asg = t.asg /\ w.team = t.team
      BY StatusRow DEF Statuses
   <2> HIDE DEF w
   <2>2. /\ p \in Rows /\ p.st = "DEFERRED" /\ p.ver = t.ver + 1 /\ p.team = t.team /\ DOMAIN p.asg = DOMAIN t.asg
         /\ \A i \in DOMAIN t.asg : /\ p.asg[i].lead = t.asg[i].lead
                                    /\ p.asg[i].st = IF i \in {k} THEN "done" ELSE t.asg[i].st
      BY <2>1, PutRow
   <2> HIDE DEF p
   <2>3. u \in Rows /\ u.st = "DEFERRED" /\ u.ver = t.ver + 2 /\ u.asg = p.asg /\ u.team = t.team
     <3>1. u \in Rows /\ u.st = p.st /\ u.ver = p.ver + 1 /\ u.asg = p.asg /\ u.team = p.team
        BY <2>2, BumpRow
     <3>2. t.ver \in Nat
        BY DEF Rows
     <3> QED
        BY <2>2, <3>1, <3>2
   <2>4. Deferred(t, k) = u
      BY <1>2 DEF Deferred, w, p
   <2> HIDE DEF u
   <2>5. Active(u) \subseteq Active(t) /\ t.ver \in Nat /\ u.st \notin Open
      BY <2>2, <2>3 DEF Active, Rows, Open
   <2>6. \A i \in Active(u) : u.asg[i].lead = t.asg[i].lead
      BY <2>2, <2>3, <2>5 DEF Active
   <2> QED
      BY <2>3, <2>4, <2>5, <2>6 DEF RowStep, RowMoves, RowLeads, RowSingle, Leads
 <1> QED
    BY <1>1, <1>2

\* With one assignee, a reassignment whose version is current vacates him.
LEMMA ReassignedRow ==
    ASSUME NEW t \in Rows, NEW r \in Reassigns, t.st # "NONE",
           Mode(t) = "single" /\ r.ver = t.ver => \A i \in Active(t) : t.asg[i].user = r.old
    PROVE  /\ RowStep(t, Reassigned(t, r))
           /\ Reassigned(t, r).st = t.st
           /\ Active(t) # {} => Active(Reassigned(t, r)) # {}
 <1>1. CASE HeldBy(t, r.new) # {} \/ t.ver # r.ver
    BY <1>1, RowStays DEF Reassigned
 <1>2. CASE HeldBy(t, r.new) = {} /\ t.ver = r.ver
   <2> DEFINE old == HeldBy(t, r.old)
              p == Put(t, old, "vacated")
              b == Bump(p)
              n == Len(t.asg) + 1
              x == [user |-> r.new, st |-> "active", lead |-> \E i \in old : t.asg[i].lead]
              u == [b EXCEPT !.asg = Append(@, x)]
   <2>1. /\ p \in Rows /\ p.st = t.st /\ p.ver = t.ver /\ p.team = t.team /\ DOMAIN p.asg = DOMAIN t.asg
         /\ \A i \in DOMAIN t.asg : /\ p.asg[i].lead = t.asg[i].lead
                                    /\ p.asg[i].st = IF i \in old THEN "vacated" ELSE t.asg[i].st
      BY PutRow
   <2>2. Reassigned(t, r) = u
      BY <1>2 DEF Reassigned, Appointed
   <2> HIDE DEF p
   <2>3. b \in Rows /\ b.st = t.st /\ b.ver = t.ver + 1 /\ b.asg = p.asg /\ b.team = t.team
      BY <2>1, BumpRow
   <2> HIDE DEF b
   <2>4. x \in Assignments /\ x.st = "active" /\ (x.lead <=> \E i \in old : t.asg[i].lead)
      BY DEF Assignments, Reassigns
   <2> HIDE DEF x
   <2>5. t.asg \in Seq(Assignments) /\ DOMAIN t.asg = 1 .. Len(t.asg) /\ Len(t.asg) \in Nat /\ t.ver \in Nat
      BY DEF Rows
   <2>6. p.asg \in Seq(Assignments) /\ Len(p.asg) = Len(t.asg)
      BY <2>1, <2>5 DEF Rows
   <2>7. /\ Append(p.asg, x) \in Seq(Assignments) /\ DOMAIN Append(p.asg, x) = 1 .. n
         /\ Append(p.asg, x)[n] = x
         /\ \A i \in DOMAIN t.asg : Append(p.asg, x)[i] = p.asg[i]
      BY <2>4, <2>5, <2>6
   <2>8. u \in Rows /\ u.st = t.st /\ u.ver = t.ver + 1 /\ u.asg = Append(p.asg, x) /\ u.team = t.team
      BY <2>3, <2>7 DEF Rows
   <2> HIDE DEF u
   <2>9. /\ n \in Active(u) /\ (u.asg[n].lead <=> \E i \in old : t.asg[i].lead)
         /\ \A i \in Active(u) : i = n \/ (i \in Active(t) \ old /\ u.asg[i].lead = t.asg[i].lead)
         /\ \A i \in Active(t) \ old : i \in Active(u) /\ u.asg[i].lead = t.asg[i].lead
         /\ n \notin DOMAIN t.asg
     <3>1. n \in Active(u) /\ (u.asg[n].lead <=> \E i \in old : t.asg[i].lead) /\ n \notin DOMAIN t.asg
        BY <2>4, <2>5, <2>7, <2>8 DEF Active
     <3>2. DOMAIN u.asg = DOMAIN t.asg \cup {n}
        BY <2>5, <2>7, <2>8
     <3>3. \A i \in DOMAIN t.asg : u.asg[i].lead = t.asg[i].lead
                                   /\ (u.asg[i].st = IF i \in old THEN "vacated" ELSE t.asg[i].st)
        BY <2>1, <2>7, <2>8
     <3> HIDE DEF n, old
     <3> QED
        BY <3>1, <3>2, <3>3 DEF Active
   <2> HIDE DEF n
   <2>10. RowLeads(t, u)
     <3>1. \A i \in Leads(t) : i \in Active(u) => u.asg[i].lead
        BY <2>9 DEF Leads, Active
     <3>2. Leads(t) # {} => Leads(u) # {}
       <4>1. ASSUME NEW i \in Leads(t) PROVE Leads(u) # {}
         <5>1. CASE i \in old
            BY <2>9, <5>1 DEF Leads
         <5>2. CASE i \notin old
            BY <2>9, <5>2 DEF Leads
         <5> QED
            BY <5>1, <5>2
       <4> QED
          BY <4>1
     <3> QED
        BY <3>1, <3>2 DEF RowLeads
   <2>11. RowSingle(t, u)
     <3>1. Mode(t) = "single" => Active(t) \subseteq old
        BY <1>2 DEF HeldBy
     <3> QED
        BY <2>9, <3>1 DEF RowSingle
   <2> QED
      BY <2>2, <2>5, <2>8, <2>9, <2>10, <2>11 DEF RowStep, RowMoves
 <1> QED
    BY <1>1, <1>2

\* A claim whose version is current finds no lead.
LEMMA LeadSetRow ==
    ASSUME NEW t \in Rows, NEW c, t.st # "NONE", c.ver = t.ver => Leads(t) = {}
    PROVE  /\ RowStep(t, LeadSet(t, c))
           /\ LeadSet(t, c).st = t.st /\ Active(LeadSet(t, c)) = Active(t)
 <1>1. CASE t.ver # c.ver
    BY <1>1, RowStays DEF LeadSet
 <1>2. CASE t.ver = c.ver
   <2> DEFINE f == [i \in DOMAIN t.asg |-> [t.asg[i] EXCEPT !.lead = (i = c.i)]]
              b == Bump(t)
              u == [b EXCEPT !.asg = f]
   <2>0. LeadSet(t, c) = u
      BY <1>2 DEF LeadSet
   <2>1. t.asg \in Seq(Assignments) /\ DOMAIN t.asg = 1 .. Len(t.asg) /\ Len(t.asg) \in Nat /\ t.ver \in Nat
      BY DEF Rows
   <2>2. \A i \in DOMAIN t.asg : t.asg[i] \in Assignments
      BY <2>1
   <2>3. \A i \in DOMAIN t.asg : f[i] \in Assignments /\ f[i].st = t.asg[i].st
      BY <2>2 DEF Assignments
   <2>4. f \in [1 .. Len(t.asg) -> Assignments] /\ DOMAIN f = DOMAIN t.asg
      BY <2>1, <2>3
   <2>5. f \in Seq(Assignments)
      BY <2>1, <2>4
   <2> HIDE DEF f
   <2>6. b \in Rows /\ b.st = t.st /\ b.ver = t.ver + 1 /\ b.team = t.team
      BY BumpRow
   <2> HIDE DEF b
   <2>7. u \in Rows /\ u.st = t.st /\ u.ver = t.ver + 1 /\ u.asg = f /\ u.team = t.team
      BY <2>5, <2>6 DEF Rows
   <2> HIDE DEF u
   <2>8. Active(u) = Active(t) /\ Leads(t) = {}
      BY <1>2, <2>3, <2>4, <2>7 DEF Active
   <2> QED
      BY <2>0, <2>1, <2>7, <2>8 DEF RowStep, RowMoves, RowLeads, RowSingle
 <1> QED
    BY <1>1, <1>2

(***************************************************************************)
(* The inductive invariant.                                                *)
(***************************************************************************)
\* Results stay with the visit they were sent for.
OwnResults ==
    /\ \A i \in DOMAIN chan : chan[i].v = visit
    /\ pc \in {"completing", "marking"} => got.v = visit
    /\ \A v \in Visits : buffered[v] # None => buffered[v].v = v

\* A row is written when its node is visited.
LaterUnborn == \A v \in Visits : v > visit => task[v].st = "NONE"
NoneIsNew   == \A v \in Visits : task[v].st = "NONE" => task[v] = NoTask(task[v].team)

\* An activity belongs to a visit that was begun.
AttemptsBehind == /\ \A a \in att : a.v <= visit
                  /\ \A a \in updates : a.v <= visit /\ a.op = "defer"

\* A reassignment or a claim whose version is current found the row as it is.
Current(r) ==
    /\ task[r.v].st # "NONE" /\ r.ver <= task[r.v].ver
    /\ Mode(task[r.v]) = "single" /\ r.ver = task[r.v].ver
       => \A i \in Active(task[r.v]) : task[r.v].asg[i].user = r.old
ReassignsGuarded ==
    /\ \A i \in DOMAIN reassigns : Current(reassigns[i])
    /\ router.op = "reassign" => Current(router.what)
ClaimsGuarded ==
    \A c \in claims : /\ task[c.v].st # "NONE" /\ c.ver <= task[c.v].ver
                      /\ c.ver = task[c.v].ver => Leads(task[c.v]) = {}

\* With one assignee, no row has two.
OneActive == \A v \in Visits : Mode(task[v]) = "single" => \A i, j \in Active(task[v]) : i = j

\* While the stage creates its task or waits for a result, whatever closes a row
\* is about an earlier visit ...
Early == {"creating", "recording", "waiting"}
ClosersBehind ==
    \A a \in att : a.op \in {"complete", "mark", "supersede"} => a.v < visit \/ pc \notin Early

\* ... so that its own row is open and held by somebody, unless a defer is on its
\* way to it or has sent a route after it.
Waits == Running /\ pc \in Early
Held(t) == t.st \in Open /\ Active(t) # {}
DeferUnderWay == routes # <<>> \/ \E a \in att : a.op = "defer"
Actable == Waits => (pc = "creating" /\ task[visit].st = "NONE") \/ Held(task[visit]) \/ DeferUnderWay

Guarded == NoneIsNew /\ ReassignsGuarded /\ ClaimsGuarded
Inv ==
    /\ TypeOK /\ OwnResults /\ LaterUnborn /\ Guarded /\ AttemptsBehind
    /\ OneActive /\ ClosersBehind /\ Actable

\* Every step that writes a row moves it as above, and leaves alone the rows of
\* visits that were not begun.
LEMMA RowsStep ==
    ASSUME TypeOK, Guarded, LaterUnborn, AttemptsBehind, [Next]_vars
    PROVE  /\ task' \in [Visits -> Rows]
           /\ \A v \in Visits : RowStep(task[v], task'[v])
           /\ \A v \in Visits : v > visit => task'[v] = task[v]
 <1> DEFINE Goal == /\ task' \in [Visits -> Rows]
                    /\ \A v \in Visits : RowStep(task[v], task'[v])
                    /\ \A v \in Visits : v > visit => task'[v] = task[v]
 <1>t. task \in [Visits -> Rows] /\ att \subseteq Attempts /\ visit \in Nat /\ Visits \subseteq Nat
    BY DEF TypeOK, DbOK, RunOK, LoopsOK, Visits
 <1>r. \A u, w : RowStep(u, w) => w \in Rows
    BY DEF RowStep, RowMoves
 <1>a. UNCHANGED task => Goal
    BY <1>t, RowStays
 <1>b. ASSUME NEW v \in Visits, v <= visit, NEW u, task' = [task EXCEPT ![v] = u], RowStep(task[v], u) PROVE Goal
    BY <1>b, <1>r, <1>t, RowStays
 <1>c. ASSUME NEW s \in {"SUPERSEDED", "FAILED"}, task' = [v \in Visits |-> Withdrawn(task[v], s)] PROVE Goal
   <2>1. \A v \in Visits : RowStep(task[v], task'[v]) /\ (task[v].st \notin Open => task'[v] = task[v])
      BY <1>c, <1>t, WithdrawnRow
   <2>2. \A v \in Visits : v > visit => task[v].st \notin Open
      BY DEF LaterUnborn, Open
   <2> QED
      BY <1>c, <1>r, <2>1, <2>2
 <1>n. \A v \in Visits : task[v] \in Rows /\ (task[v].st = "NONE" => task[v] = NoTask(task[v].team))
    BY <1>t DEF Guarded, NoneIsNew
 <1>w. \A v \in Visits : task[v].st # "NONE" => v <= visit
   <2>1. \A v \in Visits : v \in Nat
      BY <1>t
   <2> QED
      BY <1>t, <2>1 DEF LaterUnborn
 <1>e. \A a \in att : a.v \in Visits /\ a.v <= visit
    BY <1>t DEF Attempts, AttemptsBehind
 <1>1. CASE Outside \/ Coroutines
   <2>1. UNCHANGED task
      BY <1>1 DEF Outside, Coroutines, PrevCompletes, NextCompletes, Complete, Defer, Claim, Reassign,
         ForceRoute,
         Cancel, Terminate, Registers, StageReceives, LoopTakes, RoutesResult, RoutesReassign, RoutesAdmin,
         AcceptsDefer, dbvars
   <2> QED
      BY <1>a, <2>1
 <1>2. ASSUME NEW a \in att, CreateReads(a) PROVE Goal
    BY <1>2, <1>a DEF CreateReads, dbvars
 <1>3. ASSUME NEW a \in att, CreateCommits(a) PROVE Goal
    BY <1>3, <1>b, <1>e, <1>n, CreatedRow DEF CreateCommits
 <1>4. ASSUME NEW a \in att, CompleteCommits(a) PROVE Goal
   <2>1. task' = [task EXCEPT ![a.v] = Completed(task[a.v], a.u)]
      BY <1>4 DEF CompleteCommits
   <2>2. RowStep(task[a.v], Completed(task[a.v], a.u))
      BY <1>e, <1>n, CompletedRow
   <2> QED
      BY <1>b, <1>e, <2>1, <2>2
 <1>5. ASSUME NEW a \in att, MarkCommits(a) PROVE Goal
    BY <1>5, <1>b, <1>e, <1>n, FinishedRow DEF MarkCommits
 <1>6. ASSUME NEW a \in att, SupersedeCommits(a) PROVE Goal
    BY <1>6, <1>b, <1>e, <1>n, WithdrawnRow DEF SupersedeCommits
 <1>7. ASSUME NEW a \in att, DeferCommits(a) PROVE Goal
    BY <1>7, <1>b, <1>e, <1>n, DeferredRow DEF DeferCommits
 <1>8. ASSUME NEW a \in att, AnswerLost(a) PROVE Goal
   <2>1. PICK u : task' = [task EXCEPT ![a.v] = u] /\ u \in {Created(task[a.v]), Completed(task[a.v], a.u),
                   Finished(task[a.v]), Withdrawn(task[a.v], "SUPERSEDED"), Deferred(task[a.v], a.i)}
     <3> DEFINE u == CASE a.op = "create" -> Created(task[a.v])
                       [] a.op = "complete" -> Completed(task[a.v], a.u)
                       [] a.op = "mark" -> Finished(task[a.v])
                       [] a.op = "supersede" -> Withdrawn(task[a.v], "SUPERSEDED")
                       [] OTHER -> Deferred(task[a.v], a.i)
     <3>1. task' = [task EXCEPT ![a.v] = u]
        BY <1>8 DEF AnswerLost
     <3>2. u \in {Created(task[a.v]), Completed(task[a.v], a.u),
                   Finished(task[a.v]), Withdrawn(task[a.v], "SUPERSEDED"), Deferred(task[a.v], a.i)}
        OBVIOUS
     <3> QED
        BY <3>1, <3>2
   <2>2. RowStep(task[a.v], u)
      BY <1>e, <1>n, <2>1, CreatedRow, CompletedRow, FinishedRow, WithdrawnRow, DeferredRow
   <2> QED
      BY <1>b, <1>e, <2>1, <2>2
 <1>9. CASE RouteRecorded
    BY <1>9, <1>a, <1>c DEF RouteRecorded
 <1>10. CASE CancelCommits \/ TerminateCommits \/ Closes
    BY <1>10, <1>a, <1>c DEF CancelCommits, TerminateCommits, Closes
 <1>11. CASE ReassignCommits \/ ReassignAnswerLost
   <2> DEFINE r == router.what
   <2>0. router.op = "reassign" /\ task' = [task EXCEPT ![r.v] = Reassigned(task[r.v], r)]
      BY <1>11 DEF ReassignCommits, ReassignAnswerLost
   <2>1. r \in Reassigns /\ Current(r)
      BY <2>0 DEF TypeOK, LoopsOK, RouterIdle, Guarded, ReassignsGuarded
   <2> HIDE DEF r
   <2>2. r.v \in Visits /\ r.v <= visit
      BY <1>w, <2>1 DEF Reassigns, Current
   <2>3. RowStep(task[r.v], Reassigned(task[r.v], r))
      BY <1>n, <2>1, <2>2, ReassignedRow DEF Current
   <2> QED
      BY <1>b, <2>0, <2>2, <2>3
 <1>12. ASSUME NEW c \in claims, ClaimCommits(c) PROVE Goal
   <2>1. c.v \in Visits /\ task[c.v].st # "NONE" /\ (c.ver = task[c.v].ver => Leads(task[c.v]) = {})
      BY DEF TypeOK, SignalsOK, Claims, Guarded, ClaimsGuarded
   <2>2. c.v <= visit
      BY <1>w, <2>1
   <2>3. RowStep(task[c.v], LeadSet(task[c.v], c))
      BY <1>n, <2>1, LeadSetRow
   <2> QED
      BY <1>12, <1>b, <2>1, <2>2, <2>3 DEF ClaimCommits
 <1>13. CASE UNCHANGED vars
    BY <1>13, <1>a DEF vars, dbvars
 <1> QED
    BY <1>1, <1>2, <1>3, <1>4, <1>5, <1>6, <1>7, <1>8, <1>9, <1>10, <1>11, <1>12, <1>13 DEF Next, Commits

(***************************************************************************)
(* Types.                                                                  *)
(***************************************************************************)
\* Visits are counted from one.
LEMMA VisitsAre == Visits = 1 .. MaxVisits /\ MaxVisits \in Nat /\ MaxVisits > 0 /\ \A v \in Visits : v \in Nat
    BY VisitsAssumption DEF Visits

\* The rows and the instance keep their types.
LEMMA DbStep ==
    ASSUME TypeOK, Guarded, LaterUnborn, AttemptsBehind, [Next]_vars
    PROVE  DbOK'
 <1>1. task' \in [Visits -> Rows]
    BY RowsStep
 <1>2. inst' \in {inst, "COMPLETED", "TERMINATED"} /\ prevDone' \in {prevDone, TRUE}
    BY DEF Next, Outside, Coroutines, Commits, PrevCompletes, NextCompletes, Complete, Defer, Claim,
       Reassign, ForceRoute,
       Cancel, Terminate, Registers, StageReceives, LoopTakes, RoutesResult, RoutesReassign, RoutesAdmin,
       AcceptsDefer, CreateReads, CreateCommits, CompleteCommits, MarkCommits, SupersedeCommits, DeferCommits,
       RouteRecorded, CancelCommits, ReassignCommits, Closes, AnswerLost, ReassignAnswerLost, TerminateCommits,
       ClaimCommits, vars, dbvars
 <1> QED
    BY <1>1, <1>2 DEF TypeOK, DbOK

\* The run begins a step that it may begin.
LEMMA BeginType ==
    ASSUME RunOK, NEW step \in Steps, MayBegin(step), BeginAt(step), from' \in Steps, hist' \in Seq({"prev", "task"})
    PROVE  RunOK'
 <1> USE VisitsAre
 <1>1. visit' \in 0..MaxVisits /\ pc' \in {"away", "creating", "past"} /\ (pc' = "creating" => visit' > 0)
    BY DEF BeginAt, MayBegin, RunOK, Steps
 <1>2. chan' = <<>> /\ got' = None
    BY DEF BeginAt
 <1> QED
    BY <1>1, <1>2 DEF RunOK, ChannelCap

\* The run keeps its types, and the channel of the stage its capacity.
LEMMA RunStep ==
    ASSUME TypeOK, [Next]_vars
    PROVE  RunOK'
 <1> USE VisitsAre
 <1>t. RunOK /\ SignalsOK /\ LoopsOK
    BY DEF TypeOK
 <1>h. hist \in Seq({"prev", "task"}) /\ Append(hist, "prev") \in Seq({"prev", "task"})
       /\ Append(hist, "task") \in Seq({"prev", "task"})
    BY <1>t DEF RunOK
 <1>a. UNCHANGED runvars => RunOK'
    BY <1>t DEF runvars, RunOK
 <1>p. ASSUME NEW p \in {"away", "past", "gone"}, pc' = p, UNCHANGED <<visit, from>>, hist' \in Seq({"prev", "task"}),
              chan' = <<>> \/ UNCHANGED chan, got' \in {got, None}
       PROVE  RunOK'
   <2>1. chan' \in Seq(Results) /\ Len(chan') <= 1
     <3>1. chan \in Seq(Results) /\ Len(chan) <= 1
        BY <1>t DEF RunOK, ChannelCap
     <3>2. <<>> \in Seq(Results) /\ Len(<<>>) <= 1
        OBVIOUS
     <3> QED
        BY <1>p, <3>1, <3>2
   <2>2. pc' \in {"away", "past", "gone"} /\ got' \in Results \cup {None}
      BY <1>p, <1>t DEF RunOK
   <2> QED
      BY <1>p, <1>t, <2>1, <2>2 DEF RunOK, ChannelCap
 <1>1. CASE PrevCompletes
    BY <1>1, <1>h, <1>t, BeginType DEF PrevCompletes, Steps, RunOK
 <1>2. CASE NextCompletes
    BY <1>2, <1>h, <1>p DEF NextCompletes
 <1>3. ASSUME NEW a \in att, CreateCommits(a) PROVE RunOK'
    BY <1>3, <1>t DEF CreateCommits, Awaited, RunOK
 <1>4. CASE Registers
   <2>1. visit \in Visits /\ buffered[visit] \in Results \cup {None}
      BY <1>4, <1>t DEF Registers, RunOK, LoopsOK, Visits
   <2>2. chan' \in Seq(Results) /\ Len(chan') <= 1
      BY <1>4, <2>1 DEF Registers
   <2> QED
      BY <1>4, <1>t, <2>2 DEF Registers, RunOK, ChannelCap
 <1>5. CASE StageReceives
   <2>1. chan \in Seq(Results) /\ chan # <<>> /\ Len(chan) \in Nat /\ Len(chan) <= 1 /\ visit > 0
      BY <1>5, <1>t DEF StageReceives, RunOK, ChannelCap
   <2>2. Head(chan) \in Results /\ Tail(chan) \in Seq(Results) /\ Len(Tail(chan)) = Len(chan) - 1
      BY <2>1
   <2>3. chan' \in Seq(Results) /\ Len(chan') <= 1
     <3>1. CASE chan' = Tail(chan)
        BY <2>1, <2>2, <3>1
     <3>2. CASE router.op = "send" /\ chan' = Append(Tail(chan), router.what)
       <4>1. router.what \in Results
          BY <1>t, <3>2 DEF LoopsOK, RouterIdle
       <4> QED
          BY <2>1, <2>2, <3>2, <4>1
     <3> QED
        BY <1>5, <3>1, <3>2 DEF StageReceives
   <2> QED
      BY <1>5, <1>t, <2>1, <2>2, <2>3 DEF StageReceives, RunOK, ChannelCap
 <1>6. ASSUME NEW a \in att, CompleteCommits(a) PROVE RunOK'
   <2>1. CASE UNCHANGED runvars
      BY <1>a, <2>1
   <2>2. CASE Awaited(a, "completing") /\ pc' = "marking" /\ UNCHANGED <<visit, from, hist, chan, got>>
      BY <1>t, <2>2 DEF RunOK, Awaited
   <2>3. CASE Moves /\ UNCHANGED <<visit, from>>
      BY <1>h, <1>p, <2>3 DEF Moves
   <2> QED
      BY <1>6, <2>1, <2>2, <2>3 DEF CompleteCommits
 <1>7. ASSUME NEW a \in att, MarkCommits(a) PROVE RunOK'
    BY <1>7, <1>a, <1>h, <1>p DEF MarkCommits, Moves
 <1>8. CASE LoopTakes
   <2>0. UNCHANGED from
      BY <1>8 DEF LoopTakes
   <2>1. CASE Abandon /\ UNCHANGED visit /\ hist' \in Seq({"prev", "task"})
      BY <1>p, <2>0, <2>1 DEF Abandon
   <2>2. CASE MayBegin(from) /\ BeginAt(from) /\ UNCHANGED hist
      BY <1>h, <1>t, <2>0, <2>2, BeginType DEF RunOK
   <2>3. ASSUME NEW e, TakesBack(e) PROVE hist' \in Seq({"prev", "task"})
     <3>1. hist # <<>> /\ hist' = SubSeq(hist, 1, Len(hist) - 1)
        BY <2>3 DEF TakesBack
     <3>2. Len(hist) \in Nat /\ Len(hist) > 0
        BY <1>h, <3>1
     <3> QED
        BY <1>h, <3>1, <3>2
   <2>4. CASE TakesForward(Head(routes)) /\ UNCHANGED visit
      BY <1>h, <2>1, <2>4 DEF TakesForward, TakesRoute
   <2>5. CASE TakesBack(Head(routes)) /\ UNCHANGED visit
      BY <2>1, <2>3, <2>5 DEF TakesBack, TakesRoute
   <2>6. CASE DropsBack(Head(routes))
      BY <2>2, <2>6 DEF DropsBack
   <2>7. CASE TakesCancel(Head(routes)) /\ UNCHANGED visit
      BY <1>h, <2>1, <2>7 DEF TakesCancel
   <2> QED
      BY <1>8, <2>4, <2>5, <2>6, <2>7 DEF LoopTakes
 <1>9. CASE RouteRecorded
   <2>1. main.to \in Steps /\ MayBegin(main.to) /\ BeginAt(main.to) /\ from' = main.to /\ UNCHANGED hist
      BY <1>9, <1>t DEF RouteRecorded, LoopsOK
   <2> QED
      BY <1>h, <1>t, <2>1, BeginType
 <1>10. CASE RoutesResult
   <2>1. results \in Seq(Results) /\ results # <<>>
      BY <1>10, <1>t DEF RoutesResult, SignalsOK
   <2>2. Head(results) \in Results
      BY <2>1
   <2>3. chan \in Seq(Results) /\ Len(chan) \in Nat /\ Len(chan) <= 1
      BY <1>t DEF RunOK, ChannelCap
   <2>4. chan' \in Seq(Results) /\ Len(chan') <= 1
     <3>1. CASE Room /\ chan' = Append(chan, Head(results))
       <4>1. Len(chan) < 1
          BY <2>3, <3>1 DEF Room, ChannelCap
       <4> QED
          BY <2>2, <2>3, <3>1, <4>1
     <3> QED
        BY <1>10, <2>3, <3>1 DEF RoutesResult
   <2> QED
      BY <1>10, <1>t, <2>4 DEF RoutesResult, RunOK, ChannelCap
 <1>11. ASSUME NEW a \in att, CreateReads(a) \/ SupersedeCommits(a) \/ DeferCommits(a) \/ AnswerLost(a) PROVE RunOK'
    BY <1>11, <1>a DEF CreateReads, SupersedeCommits, DeferCommits, AnswerLost
 <1>12. CASE \/ \E v \in Visits : Complete(v) \/ Defer(v) \/ Claim(v)
             \/ \E v \in Visits, u \in Users : Reassign(v, u)
             \/ \E to \in {"task", "next"} : ForceRoute("forward", to)
             \/ ForceRoute("back", "prev") \/ Cancel \/ Terminate
             \/ CancelCommits \/ ReassignCommits \/ Closes \/ RoutesReassign \/ RoutesAdmin
             \/ \E d \in updates : AcceptsDefer(d)
             \/ ReassignAnswerLost \/ TerminateCommits
             \/ \E c \in claims : ClaimCommits(c)
   <2>1. UNCHANGED runvars
      BY <1>12 DEF Complete, Defer, Claim, Reassign, ForceRoute, Cancel, Terminate, CancelCommits,
         ReassignCommits,
         Closes, RoutesReassign, RoutesAdmin, AcceptsDefer, ReassignAnswerLost, TerminateCommits, ClaimCommits
   <2> QED
      BY <1>a, <2>1
 <1>13. CASE UNCHANGED vars
    BY <1>13, <1>a DEF vars
 <1> QED
    BY <1>1, <1>2, <1>3, <1>4, <1>5, <1>6, <1>7, <1>8, <1>9, <1>10, <1>11, <1>12, <1>13
       DEF Next, Outside, Commits, Coroutines

\* Signals, updates and claims keep their types.
LEMMA SignalsStep ==
    ASSUME TypeOK, [Next]_vars
    PROVE  SignalsOK'
 <1> USE VisitsAre
 <1>t. DbOK /\ RunOK /\ SignalsOK /\ LoopsOK
    BY DEF TypeOK
 <1>r. \A v \in Visits : task[v] \in Rows /\ task[v].ver \in Nat
    BY <1>t DEF DbOK, Rows
 <1>u. \A v \in Visits : \A i \in Active(task[v]) : task[v].asg[i].user \in Users /\ i \in Nat
   <2>1. \A v \in Visits : task[v].asg \in Seq(Assignments)
      BY <1>r DEF Rows
   <2>2. \A v \in Visits : \A i \in DOMAIN task[v].asg : task[v].asg[i] \in Assignments /\ i \in Nat
      BY <2>1
   <2> QED
      BY <2>2 DEF Active, Assignments
 <1>m. \A v \in Visits : MayAct(task[v]) \subseteq Active(task[v])
    BY DEF MayAct, Leads
 <1>a. UNCHANGED sigvars => SignalsOK'
    BY <1>t DEF sigvars, SignalsOK
 <1>l. \A k \in Kinds : Spends(k) => left' \in [Kinds -> Nat]
    BY <1>t DEF Spends, SignalsOK
 <1>k. /\ "complete" \in Kinds /\ "defer" \in Kinds /\ "claim" \in Kinds /\ "reassign" \in Kinds
       /\ "forward" \in Kinds /\ "back" \in Kinds /\ "cancel" \in Kinds /\ "terminate" \in Kinds
    BY DEF Kinds
 <1>1. CASE RoutesResult
   <2>1. results \in Seq(Results) /\ results # <<>> /\ results' = Tail(results)
      BY <1>1, <1>t DEF RoutesResult, SignalsOK
   <2>2. results' \in Seq(Results)
      BY <2>1
   <2> QED
      BY <1>1, <1>t, <2>2 DEF RoutesResult, SignalsOK
 <1>2. CASE RoutesReassign
   <2>1. reassigns \in Seq(Reassigns) /\ reassigns # <<>> /\ reassigns' = Tail(reassigns)
      BY <1>2, <1>t DEF RoutesReassign, SignalsOK
   <2>2. reassigns' \in Seq(Reassigns)
      BY <2>1
   <2> QED
      BY <1>2, <1>t, <2>2 DEF RoutesReassign, SignalsOK
 <1>3. CASE RoutesAdmin
   <2>1. PICK i \in DOMAIN admin : admin' = SubSeq(admin, 1, i - 1) \o SubSeq(admin, i + 1, Len(admin))
      BY <1>3 DEF RoutesAdmin
   <2>2. admin \in Seq(Envelopes) /\ i \in 1 .. Len(admin) /\ Len(admin) \in Nat
      BY <1>t DEF SignalsOK
   <2>3. SubSeq(admin, 1, i - 1) \in Seq(Envelopes) /\ SubSeq(admin, i + 1, Len(admin)) \in Seq(Envelopes)
      BY <2>2
   <2>4. admin' \in Seq(Envelopes)
      BY <2>1, <2>3
   <2> QED
      BY <1>3, <1>t, <2>4 DEF RoutesAdmin, SignalsOK
 <1>4. ASSUME NEW d \in updates, AcceptsDefer(d) PROVE SignalsOK'
    BY <1>4, <1>t DEF AcceptsDefer, SignalsOK
 <1>5. ASSUME NEW v \in Visits, Complete(v) PROVE SignalsOK'
   <2>1. PICK i \in MayAct(task[v]) :
            results' = Append(results, [v |-> v, u |-> task[v].asg[i].user, ver |-> task[v].ver])
      BY <1>5 DEF Complete
   <2>2. [v |-> v, u |-> task[v].asg[i].user, ver |-> task[v].ver] \in Results
      BY <1>m, <1>r, <1>u DEF Results
   <2>3. results' \in Seq(Results)
      BY <1>t, <2>1, <2>2 DEF SignalsOK
   <2> QED
      BY <1>5, <1>k, <1>l, <1>t, <2>3 DEF Complete, SignalsOK
 <1>6. ASSUME NEW v \in Visits, Defer(v) PROVE SignalsOK'
   <2>1. PICK i \in MayAct(task[v]) :
            updates' = updates \cup {[Attempt("defer", v, task[v].asg[i].user, i) EXCEPT !.id = left["defer"]]}
      BY <1>6 DEF Defer
   <2>2. [Attempt("defer", v, task[v].asg[i].user, i) EXCEPT !.id = left["defer"]] \in Attempts
     <3>1. task[v].asg[i].user \in Users /\ i \in Nat /\ left["defer"] \in Nat
        BY <1>k, <1>m, <1>t, <1>u DEF SignalsOK
     <3> QED
        BY <3>1 DEF Attempt, Attempts
   <2> QED
      BY <1>6, <1>k, <1>l, <1>t, <2>1, <2>2 DEF Defer, SignalsOK
 <1>7. ASSUME NEW v \in Visits, Claim(v) PROVE SignalsOK'
   <2>1. PICK i \in Active(task[v]) : claims' = claims \cup {[v |-> v, i |-> i, ver |-> task[v].ver]}
      BY <1>7 DEF Claim
   <2>2. [v |-> v, i |-> i, ver |-> task[v].ver] \in Claims
      BY <1>r, <1>u DEF Claims
   <2> QED
      BY <1>7, <1>k, <1>l, <1>t, <2>1, <2>2 DEF Claim, SignalsOK
 <1>8. ASSUME NEW v \in Visits, NEW new \in Users, Reassign(v, new) PROVE SignalsOK'
   <2>1. PICK old \in OldUsers(task[v]) :
            reassigns' = Append(reassigns, [v |-> v, old |-> old, new |-> new, ver |-> task[v].ver])
      BY <1>8 DEF Reassign
   <2>2. old \in Users \cup {None}
      BY <1>u DEF OldUsers, MayAct, Leads
   <2>3. [v |-> v, old |-> old, new |-> new, ver |-> task[v].ver] \in Reassigns
      BY <1>r, <2>2 DEF Reassigns
   <2>4. reassigns' \in Seq(Reassigns)
      BY <1>t, <2>1, <2>3 DEF SignalsOK
   <2> QED
      BY <1>8, <1>k, <1>l, <1>t, <2>4 DEF Reassign, SignalsOK
 <1>9. ASSUME NEW c \in claims, ClaimCommits(c) PROVE SignalsOK'
    BY <1>9, <1>t DEF ClaimCommits, SignalsOK
 <1>10. ASSUME NEW kind \in {"forward", "back"}, NEW to \in Steps, ForceRoute(kind, to) PROVE SignalsOK'
   <2>1. [kind |-> kind, to |-> to, fromDefer |-> FALSE] \in Envelopes
      BY DEF Envelopes
   <2>2. admin' \in Seq(Envelopes)
      BY <1>10, <1>t, <2>1 DEF ForceRoute, SignalsOK
   <2> QED
      BY <1>10, <1>k, <1>l, <1>t, <2>2 DEF ForceRoute, SignalsOK
 <1>11. CASE Cancel
   <2>1. [kind |-> "cancel", to |-> "prev", fromDefer |-> FALSE] \in Envelopes
      BY DEF Envelopes, Steps
   <2>2. admin' \in Seq(Envelopes)
      BY <1>11, <1>t, <2>1 DEF Cancel, SignalsOK
   <2> QED
      BY <1>11, <1>k, <1>l, <1>t, <2>2 DEF Cancel, SignalsOK
 <1>12. CASE Terminate
    BY <1>12, <1>k, <1>l, <1>t DEF Terminate, SignalsOK
 <1>13. CASE Commits \/ PrevCompletes \/ NextCompletes \/ Registers \/ StageReceives \/ LoopTakes
             \/ (\E a \in att : AnswerLost(a)) \/ ReassignAnswerLost \/ TerminateCommits
   <2>1. UNCHANGED sigvars
      BY <1>13 DEF Commits, CreateReads, CreateCommits, CompleteCommits, MarkCommits, SupersedeCommits,
         DeferCommits,
         RouteRecorded, CancelCommits, ReassignCommits, Closes, PrevCompletes, NextCompletes, Registers,
         StageReceives, LoopTakes, AnswerLost, ReassignAnswerLost, TerminateCommits
   <2> QED
      BY <1>a, <2>1
 <1>14. CASE UNCHANGED vars
    BY <1>14, <1>a DEF vars
 <1> QED
    BY <1>1, <1>2, <1>3, <1>4, <1>5, <1>6, <1>7, <1>8, <1>9, <1>10, <1>11, <1>12, <1>13, <1>14
       DEF Next, Outside, Coroutines, Steps

\* A new attempt has its type.
LEMMA AttemptType ==
    ASSUME NEW op \in {"create", "complete", "mark", "supersede", "defer"}, NEW v \in Visits, NEW u \in Users \cup {None}
    PROVE  Attempt(op, v, u, 0) \in Attempts
    BY DEF Attempt, Attempts

\* The router, the top-level loop and the attempts keep their types.
LEMMA LoopsStep ==
    ASSUME TypeOK, [Next]_vars
    PROVE  LoopsOK'
 <1> USE VisitsAre
 <1>t. DbOK /\ RunOK /\ SignalsOK /\ LoopsOK
    BY DEF TypeOK
 <1>v. pc \in {"creating", "recording", "waiting", "completing", "marking"} => visit \in Visits
    BY <1>t DEF RunOK, Visits
 <1>b. \A step \in Steps : MayBegin(step) => Begun(step) \subseteq Attempts
   <2>1. MayBegin("task") => visit + 1 \in Visits
      BY <1>t DEF MayBegin, RunOK, Visits
   <2>2. MayBegin("task") => Attempt("create", visit + 1, None, 0) \in Attempts
      BY <2>1, AttemptType
   <2> QED
      BY <2>2 DEF Begun
 <1>l. LeftBehind \subseteq Attempts
    BY <1>v, AttemptType DEF LeftBehind
 <1>r. \/ router = RouterIdle
       \/ router.op = "send" /\ router.what \in Results
       \/ router.op = "reassign" /\ router.what \in Reassigns
    BY <1>t DEF LoopsOK
 <1>m. main \in [st : {"run", "route", "cancel", "finish", "closed", "killed"}, to : Steps, sup : BOOLEAN]
    BY <1>t DEF LoopsOK
 <1>n. \A s \in {"cancel", "finish", "closed", "killed"} :
          /\ [main EXCEPT !.st = s] \in [st : {"run", "route", "cancel", "finish", "closed", "killed"},
                                         to : Steps, sup : BOOLEAN]
          /\ [main EXCEPT !.st = s].st # "route"
    BY <1>m
 <1>a. ASSUME UNCHANGED <<loopvars, visit>>, att' \subseteq att PROVE LoopsOK'
    BY <1>a, <1>t DEF loopvars, LoopsOK, MayBegin
 <1>1. CASE PrevCompletes
   <2>1. att' \subseteq Attempts
      BY <1>1, <1>b, <1>t DEF PrevCompletes, LoopsOK, Steps
   <2> QED
      BY <1>1, <1>t, <2>1 DEF PrevCompletes, loopvars, LoopsOK, Running
 <1>2. CASE NextCompletes
    BY <1>2, <1>n, <1>t DEF NextCompletes, LoopsOK
 <1>3. ASSUME NEW a \in att, CreateReads(a) PROVE LoopsOK'
   <2>1. [a EXCEPT !.live = TRUE] \in Attempts
      BY <1>t DEF LoopsOK, Attempts
   <2>2. att' \subseteq Attempts
      BY <1>3, <1>t, <2>1 DEF CreateReads, LoopsOK
   <2> QED
      BY <1>3, <1>t, <2>2 DEF CreateReads, loopvars, runvars, LoopsOK, MayBegin
 <1>4. ASSUME NEW a \in att, CreateCommits(a) \/ SupersedeCommits(a) \/ MarkCommits(a) PROVE LoopsOK'
    BY <1>4, <1>a DEF CreateCommits, SupersedeCommits, MarkCommits, runvars
 <1>5. CASE Registers
   <2>1. buffered' \in [Visits -> Results \cup {None}]
      BY <1>5, <1>t DEF Registers, LoopsOK
   <2> QED
      BY <1>5, <1>t, <2>1 DEF Registers, LoopsOK, MayBegin
 <1>6. CASE StageReceives
   <2>1. chan \in Seq(Results) /\ chan # <<>>
      BY <1>6, <1>t DEF StageReceives, RunOK
   <2>a. Head(chan) \in Results
      BY <2>1
   <2>2. Head(chan).u \in Users
      BY <2>a DEF Results
   <2>3. att' \subseteq Attempts
      BY <1>6, <1>t, <1>v, <2>2, AttemptType DEF StageReceives, LoopsOK
   <2>4. router' \in {router, RouterIdle}
      BY <1>6 DEF StageReceives
   <2> QED
      BY <1>6, <1>t, <2>3, <2>4 DEF StageReceives, LoopsOK, MayBegin
 <1>7. ASSUME NEW a \in att, CompleteCommits(a) PROVE LoopsOK'
   <2>1. att' \subseteq att \cup {Attempt("mark", visit, None, 0)} /\ (att' \subseteq att \/ visit \in Visits)
      BY <1>7, <1>v DEF CompleteCommits, Awaited
   <2>2. att' \subseteq Attempts
      BY <1>t, <2>1, AttemptType DEF LoopsOK
   <2>3. UNCHANGED <<loopvars, visit>>
      BY <1>7 DEF CompleteCommits, runvars
   <2> QED
      BY <1>t, <2>2, <2>3 DEF loopvars, LoopsOK, MayBegin
 <1>8. ASSUME NEW a \in att, DeferCommits(a) PROVE LoopsOK'
   <2>1. DeferEnvelope \in Envelopes
      BY DEF DeferEnvelope, Envelopes, Steps
   <2>2. routes' \in Seq(Envelopes)
      BY <1>8, <1>t, <2>1 DEF DeferCommits, AfterDefer, LoopsOK
   <2> QED
      BY <1>8, <1>t, <2>2 DEF DeferCommits, runvars, LoopsOK, MayBegin
 <1>9. CASE LoopTakes
   <2>1. routes \in Seq(Envelopes) /\ routes # <<>>
      BY <1>9, <1>t DEF LoopTakes, LoopsOK
   <2>2. Head(routes) \in Envelopes /\ routes' \in Seq(Envelopes)
      BY <1>9, <2>1 DEF LoopTakes
   <2>3. router' \in {router, RouterIdle} /\ UNCHANGED buffered
      BY <1>9 DEF LoopTakes, Unblocked
   <2>4. /\ att' \subseteq Attempts
         /\ main' \in [st : {"run", "route", "cancel", "finish", "closed", "killed"}, to : Steps, sup : BOOLEAN]
         /\ main'.st = "route" => MayBegin(main.to)'
     <3>1. ASSUME NEW to \in Steps, NEW d \in BOOLEAN, TakesRoute(to, d), UNCHANGED visit
           PROVE  /\ att' \subseteq Attempts
                  /\ main' \in [st : {"run", "route", "cancel", "finish", "closed", "killed"}, to : Steps, sup : BOOLEAN]
                  /\ main'.st = "route" => MayBegin(main.to)'
       <4>1. att' \subseteq Attempts
          BY <1>l, <1>t, <3>1 DEF TakesRoute, LoopsOK
       <4>2. Registered \in BOOLEAN
          BY DEF Registered
       <4>3. main' = [st |-> "route", to |-> to, sup |-> Registered /\ ~d] /\ MayBegin(to)
          BY <3>1 DEF TakesRoute
       <4>4. (Registered /\ ~d) \in BOOLEAN
          BY <4>2
       <4>5. main' \in [st : {"run", "route", "cancel", "finish", "closed", "killed"}, to : Steps, sup : BOOLEAN]
          BY <4>3, <4>4
       <4> QED
          BY <3>1, <4>1, <4>3, <4>5 DEF MayBegin
     <3>2. CASE TakesForward(Head(routes)) /\ UNCHANGED visit
        BY <2>2, <3>1, <3>2 DEF TakesForward, Envelopes
     <3>3. CASE TakesBack(Head(routes)) /\ UNCHANGED visit
       <4>1. hist \in Seq({"prev", "task"}) /\ hist # <<>>
          BY <1>t, <3>3 DEF TakesBack, RunOK
       <4>2. hist[Len(hist)] \in Steps
          BY <4>1 DEF Steps
       <4> QED
          BY <2>2, <3>1, <3>3, <4>2 DEF TakesBack, Envelopes
     <3>4. CASE DropsBack(Head(routes))
       <4>1. att' \subseteq Attempts
          BY <1>b, <1>l, <1>t, <3>4 DEF DropsBack, LoopsOK, RunOK
       <4> QED
          BY <1>9, <1>m, <3>4, <4>1 DEF DropsBack, LoopTakes, Running
     <3>5. CASE TakesCancel(Head(routes))
        BY <1>n, <1>t, <3>5 DEF TakesCancel, LoopsOK
     <3> QED
        BY <1>9, <3>2, <3>3, <3>4, <3>5 DEF LoopTakes
   <2> QED
      BY <1>t, <2>2, <2>3, <2>4 DEF LoopsOK
 <1>10. CASE RouteRecorded
   <2>1. att' \subseteq Attempts
      BY <1>10, <1>b, <1>t DEF RouteRecorded, LoopsOK
   <2>2. main' = Idle /\ UNCHANGED <<buffered, router, routes>>
      BY <1>10 DEF RouteRecorded
   <2> QED
      BY <1>t, <2>1, <2>2 DEF LoopsOK, Idle, Steps
 <1>11. CASE RoutesResult
   <2>1. results \in Seq(Results) /\ results # <<>>
      BY <1>11, <1>t DEF RoutesResult, SignalsOK
   <2>2. Head(results) \in Results
      BY <2>1
   <2>3. buffered' \in [Visits -> Results \cup {None}]
      BY <1>11, <1>t, <2>2 DEF RoutesResult, LoopsOK
   <2>4. router' \in {router, [op |-> "send", what |-> Head(results)]}
      BY <1>11 DEF RoutesResult
   <2> QED
      BY <1>11, <1>t, <2>2, <2>3, <2>4 DEF RoutesResult, LoopsOK, MayBegin
 <1>12. CASE RoutesReassign
   <2>1. reassigns \in Seq(Reassigns) /\ reassigns # <<>>
      BY <1>12, <1>t DEF RoutesReassign, SignalsOK
   <2>2. Head(reassigns) \in Reassigns
      BY <2>1
   <2> QED
      BY <1>12, <1>t, <2>2 DEF RoutesReassign, runvars, LoopsOK, MayBegin
 <1>13. CASE RoutesAdmin
   <2>1. PICK i \in DOMAIN admin : routes' = Append(routes, admin[i])
      BY <1>13 DEF RoutesAdmin
   <2>2. routes' \in Seq(Envelopes)
      BY <1>t, <2>1 DEF SignalsOK, LoopsOK
   <2> QED
      BY <1>13, <1>t, <2>2 DEF RoutesAdmin, runvars, LoopsOK, MayBegin
 <1>14. ASSUME NEW d \in updates, AcceptsDefer(d) PROVE LoopsOK'
    BY <1>14, <1>t DEF AcceptsDefer, SignalsOK, LoopsOK, loopvars, runvars, MayBegin
 <1>15. CASE Closes \/ CancelCommits \/ Terminate
    BY <1>15, <1>n, <1>t DEF Closes, CancelCommits, Terminate, LoopsOK, runvars
 <1>16. CASE ReassignCommits
    BY <1>16, <1>t DEF ReassignCommits, LoopsOK, runvars, MayBegin
 <1>17. CASE \/ \E v \in Visits : Complete(v) \/ Defer(v) \/ Claim(v)
             \/ \E v \in Visits, u \in Users : Reassign(v, u)
             \/ \E to \in {"task", "next"} : ForceRoute("forward", to)
             \/ ForceRoute("back", "prev") \/ Cancel
             \/ (\E a \in att : AnswerLost(a)) \/ ReassignAnswerLost \/ TerminateCommits
             \/ \E c \in claims : ClaimCommits(c)
   <2>1. UNCHANGED <<loopvars, visit, att>>
      BY <1>17 DEF Complete, Defer, Claim, Reassign, ForceRoute, Cancel, AnswerLost, ReassignAnswerLost,
         TerminateCommits, ClaimCommits, runvars
   <2> QED
      BY <1>a, <2>1
 <1>18. CASE UNCHANGED vars
    BY <1>18, <1>a DEF vars, runvars
 <1> QED
    BY <1>1, <1>2, <1>3, <1>4, <1>5, <1>6, <1>7, <1>8, <1>9, <1>10, <1>11, <1>12, <1>13, <1>14, <1>15,
       <1>16, <1>17, <1>18
       DEF Next, Outside, Commits, Coroutines

(***************************************************************************)
(* What a step does to the run.                                            *)
(***************************************************************************)
\* The run goes on with its visit, or begins the next one.
Continues == visit' = visit /\ (pc' \in Early => pc \in Early) /\ (Waits' => Waits /\ pc' \in {pc, "recording", "waiting"})
Begins == visit' = visit + 1 /\ pc' = "creating"

\* A step that is begun goes on with the visit or begins the next one.
LEMMA BeginMoves ==
    ASSUME NEW step \in Steps, BeginAt(step)
    PROVE  Continues \/ Begins
    BY DEF BeginAt, Steps, Continues, Begins, Early, Waits

\* So does every step.
LEMMA RunMoves ==
    ASSUME TypeOK, [Next]_vars
    PROVE  Continues \/ Begins
 <1>t. RunOK /\ LoopsOK
    BY DEF TypeOK
 <1>a. UNCHANGED <<visit, pc, main>> => Continues
    BY DEF Continues, Waits, Running
 <1>b. UNCHANGED visit /\ pc' \notin Early => Continues
    BY DEF Continues, Waits
 <1>e. \A p \in {"completing", "marking", "past", "gone"} : p \notin Early
    BY DEF Early
 <1>1. CASE PrevCompletes
    BY <1>1, BeginMoves DEF PrevCompletes, Steps
 <1>2. CASE NextCompletes
    BY <1>2, <1>b, <1>e DEF NextCompletes
 <1>3. ASSUME NEW a \in att, CreateCommits(a) PROVE Continues
    BY <1>3 DEF CreateCommits, Awaited, Continues, Early, Waits, Running, loopvars
 <1>4. CASE Registers
    BY <1>4 DEF Registers, Continues, Early, Waits, Running
 <1>5. CASE StageReceives
    BY <1>5, <1>b, <1>e DEF StageReceives
 <1>6. ASSUME NEW a \in att, CompleteCommits(a) PROVE Continues
    BY <1>6, <1>a, <1>b, <1>e DEF CompleteCommits, Moves, runvars, loopvars
 <1>7. ASSUME NEW a \in att, MarkCommits(a) PROVE Continues
    BY <1>7, <1>a, <1>b, <1>e DEF MarkCommits, Moves, runvars, loopvars
 <1>8. CASE LoopTakes
   <2>1. CASE Abandon /\ UNCHANGED visit
      BY <1>b, <1>e, <2>1 DEF Abandon
   <2>2. CASE DropsBack(Head(routes))
      BY <1>t, <2>2, BeginMoves DEF DropsBack, RunOK
   <2> QED
      BY <1>8, <2>1, <2>2 DEF LoopTakes, TakesForward, TakesBack, TakesRoute, TakesCancel
 <1>9. CASE RouteRecorded
    BY <1>9, <1>t, BeginMoves DEF RouteRecorded, LoopsOK
 <1>10. CASE Closes \/ CancelCommits \/ Terminate
    BY <1>10, <1>t DEF Closes, CancelCommits, Terminate, LoopsOK, Continues, Waits, Running, runvars
 <1>11. ASSUME NEW a \in att, CreateReads(a) \/ SupersedeCommits(a) \/ DeferCommits(a) \/ AnswerLost(a) PROVE Continues
    BY <1>11, <1>a DEF CreateReads, SupersedeCommits, DeferCommits, AnswerLost, runvars, loopvars
 <1>12. CASE \/ \E v \in Visits : Complete(v) \/ Defer(v) \/ Claim(v)
             \/ \E v \in Visits, u \in Users : Reassign(v, u)
             \/ \E to \in {"task", "next"} : ForceRoute("forward", to)
             \/ ForceRoute("back", "prev") \/ Cancel
             \/ ReassignCommits \/ RoutesResult \/ RoutesReassign \/ RoutesAdmin
             \/ \E d \in updates : AcceptsDefer(d)
             \/ ReassignAnswerLost \/ TerminateCommits
             \/ \E c \in claims : ClaimCommits(c)
   <2>1. UNCHANGED <<visit, pc, main>>
      BY <1>12 DEF Complete, Defer, Claim, Reassign, ForceRoute, Cancel, ReassignCommits, RoutesResult,
         RoutesReassign, RoutesAdmin, AcceptsDefer, ReassignAnswerLost, TerminateCommits, ClaimCommits, runvars, loopvars
   <2> QED
      BY <1>a, <2>1
 <1>13. CASE UNCHANGED vars
    BY <1>13, <1>a DEF vars, runvars, loopvars
 <1> QED
    BY <1>1, <1>2, <1>3, <1>4, <1>5, <1>6, <1>7, <1>8, <1>9, <1>10, <1>11, <1>12, <1>13
       DEF Next, Outside, Commits, Coroutines

\* A new attempt is for the visit, and one that closes its row is not made before
\* the stage is done with waiting.
AttemptsAppear ==
    \A a \in att' : a \in att \/ (/\ a.v <= visit'
                                  /\ a.op \in {"complete", "mark", "supersede"} => a.v < visit' \/ pc' \notin Early)

\* What is left behind when a step is begun is about an earlier visit.
LEMMA BegunAppear ==
    ASSUME RunOK, NEW step \in Steps, BeginAt(step), NEW a \in LeftBehind \cup Begun(step)
    PROVE  a.v <= visit' /\ (a.op \in {"complete", "mark", "supersede"} => a.v < visit' \/ pc' \notin Early)
 <1> USE VisitsAre
 <1>1. visit \in Nat
    BY DEF RunOK
 <1>2. CASE a \in LeftBehind
   <2>1. a.v = visit
      BY <1>2 DEF LeftBehind, Attempt
   <2> QED
      BY <1>1, <2>1 DEF BeginAt, Steps, Early
 <1>3. CASE a \in Begun(step)
   <2>1. step = "task" /\ a.v = visit + 1 /\ a.op = "create"
      BY <1>3 DEF Begun, Attempt
   <2> QED
      BY <1>1, <2>1 DEF BeginAt
 <1> QED
    BY <1>2, <1>3

\* Every step makes attempts like that only.
LEMMA AttemptsMove ==
    ASSUME TypeOK, AttemptsBehind, [Next]_vars
    PROVE  AttemptsAppear
 <1> USE VisitsAre
 <1>t. RunOK /\ LoopsOK /\ visit \in Nat
    BY DEF TypeOK, RunOK
 <1>a. att' \subseteq att => AttemptsAppear
    BY DEF AttemptsAppear
 <1>b. ASSUME NEW step \in Steps, BeginAt(step), att' \subseteq att \cup LeftBehind \cup Begun(step) PROVE AttemptsAppear
    BY <1>b, <1>t, BegunAppear DEF AttemptsAppear
 <1>c. ASSUME UNCHANGED visit, pc' \notin Early, \A a \in att' : a \in att \/ a.v = visit PROVE AttemptsAppear
    BY <1>c, <1>t DEF AttemptsAppear
 <1>l. \A a \in LeftBehind : a.v = visit
    BY DEF LeftBehind, Attempt
 <1>e. \A p \in {"completing", "marking", "past", "gone"} : p \notin Early
    BY DEF Early
 <1>1. CASE PrevCompletes
    BY <1>1, <1>b DEF PrevCompletes, Steps
 <1>2. ASSUME NEW a \in att, CreateReads(a) PROVE AttemptsAppear
   <2>1. a.v <= visit /\ [a EXCEPT !.live = TRUE].v = a.v /\ [a EXCEPT !.live = TRUE].op = "create"
      BY <1>2, <1>t DEF CreateReads, AttemptsBehind, LoopsOK, Attempts
   <2>2. \A x \in att' : x \in att \/ x = [a EXCEPT !.live = TRUE]
      BY <1>2 DEF CreateReads
   <2>3. UNCHANGED visit
      BY <1>2 DEF CreateReads, runvars
   <2> QED
      BY <2>1, <2>2, <2>3 DEF AttemptsAppear
 <1>3. CASE StageReceives
   <2>1. \A a \in att' : a \in att \/ a.v = visit
      BY <1>3 DEF StageReceives, Attempt
   <2> QED
      BY <1>3, <1>c, <1>e, <2>1 DEF StageReceives
 <1>4. ASSUME NEW a \in att, CompleteCommits(a) PROVE AttemptsAppear
   <2>1. CASE att' = (att \ {a}) \cup {Attempt("mark", visit, None, 0)} /\ pc' = "marking" /\ UNCHANGED visit
     <3>1. \A x \in att' : x \in att \/ x.v = visit
        BY <2>1 DEF Attempt
     <3> QED
        BY <1>c, <1>e, <2>1, <3>1
   <2> QED
      BY <1>4, <1>a, <2>1 DEF CompleteCommits
 <1>5. CASE LoopTakes
   <2>1. CASE Abandon /\ UNCHANGED visit /\ att' \subseteq att \cup LeftBehind
      BY <1>c, <1>e, <1>l, <2>1 DEF Abandon
   <2>2. CASE DropsBack(Head(routes))
      BY <1>b, <1>t, <2>2 DEF DropsBack, RunOK
   <2> QED
      BY <1>5, <2>1, <2>2 DEF LoopTakes, TakesForward, TakesBack, TakesRoute, TakesCancel
 <1>6. CASE RouteRecorded
    BY <1>6, <1>b, <1>t DEF RouteRecorded, LoopsOK
 <1>7. ASSUME NEW d \in updates, AcceptsDefer(d) PROVE AttemptsAppear
   <2>1. d.v <= visit /\ d.op = "defer" /\ UNCHANGED visit
      BY <1>7 DEF AcceptsDefer, AttemptsBehind, runvars
   <2> QED
      BY <1>7, <2>1 DEF AcceptsDefer, AttemptsAppear
 <1>8. CASE \/ \E v \in Visits : Complete(v) \/ Defer(v) \/ Claim(v)
            \/ \E v \in Visits, u \in Users : Reassign(v, u)
            \/ \E to \in {"task", "next"} : ForceRoute("forward", to)
            \/ ForceRoute("back", "prev") \/ Cancel \/ Terminate \/ NextCompletes
            \/ \E a \in att : \/ CreateCommits(a) \/ MarkCommits(a) \/ SupersedeCommits(a) \/ DeferCommits(a)
                              \/ AnswerLost(a)
            \/ CancelCommits \/ ReassignCommits \/ Closes \/ Registers \/ RoutesResult \/ RoutesReassign \/ RoutesAdmin
            \/ ReassignAnswerLost \/ TerminateCommits
            \/ \E c \in claims : ClaimCommits(c)
   <2>1. att' \subseteq att
      BY <1>8 DEF Complete, Defer, Claim, Reassign, ForceRoute, Cancel, Terminate, NextCompletes,
         CreateCommits, MarkCommits,
         SupersedeCommits, DeferCommits, AnswerLost, CancelCommits, ReassignCommits, Closes, Registers, RoutesResult,
         RoutesReassign, RoutesAdmin, ReassignAnswerLost, TerminateCommits, ClaimCommits
   <2> QED
      BY <1>a, <2>1
 <1>9. CASE UNCHANGED vars
    BY <1>9, <1>a DEF vars
 <1> QED
    BY <1>1, <1>2, <1>3, <1>4, <1>5, <1>6, <1>7, <1>8, <1>9 DEF Next, Outside, Commits, Coroutines

(***************************************************************************)
(* The invariant is kept.                                                  *)
(***************************************************************************)
\* Results stay with the visit they were sent for.
LEMMA ResultsStep ==
    ASSUME TypeOK, OwnResults, [Next]_vars
    PROVE  OwnResults'
 <1> USE VisitsAre
 <1>t. RunOK /\ SignalsOK /\ LoopsOK
    BY DEF TypeOK
 <1>o. /\ \A i \in DOMAIN chan : chan[i].v = visit
       /\ pc \in {"completing", "marking"} => got.v = visit
       /\ \A v \in Visits : buffered[v] # None => buffered[v].v = v
    BY DEF OwnResults
 <1>c. chan \in Seq(Results) /\ Len(chan) \in Nat /\ DOMAIN chan = 1 .. Len(chan)
    BY <1>t DEF RunOK
 <1>a. ASSUME UNCHANGED <<visit, chan, got, buffered>>, pc' \in {"completing", "marking"} => pc \in {"completing", "marking"}
       PROVE  OwnResults'
    BY <1>a, <1>o DEF OwnResults
 <1>b. ASSUME chan' = <<>>, pc' \notin {"completing", "marking"}, UNCHANGED buffered PROVE OwnResults'
    BY <1>b, <1>o DEF OwnResults
 <1>s. ASSUME NEW step \in Steps, BeginAt(step), UNCHANGED buffered PROVE OwnResults'
    BY <1>b, <1>s DEF BeginAt, Steps
 <1>1. CASE PrevCompletes
    BY <1>1, <1>s DEF PrevCompletes, Steps, loopvars
 <1>2. CASE NextCompletes
    BY <1>2, <1>a DEF NextCompletes
 <1>3. ASSUME NEW a \in att, CreateCommits(a) PROVE OwnResults'
    BY <1>3, <1>a DEF CreateCommits, loopvars
 <1>4. CASE Registers
   <2>1. visit \in Visits
      BY <1>4, <1>t DEF Registers, RunOK, Visits
   <2>2. \A i \in DOMAIN chan' : chan'[i].v = visit
     <3>1. CASE buffered[visit] = None
        BY <1>4, <3>1 DEF Registers
     <3>2. CASE buffered[visit] # None
        BY <1>4, <1>o, <2>1, <3>2 DEF Registers
     <3> QED
        BY <3>1, <3>2
   <2>3. \A v \in Visits : buffered'[v] # None => buffered'[v].v = v
      BY <1>4, <1>o, <1>t DEF Registers, LoopsOK
   <2> QED
      BY <1>4, <2>2, <2>3 DEF Registers, OwnResults
 <1>5. CASE StageReceives
   <2>1. chan # <<>> /\ UNCHANGED <<visit, buffered>> /\ got' = Head(chan)
      BY <1>5 DEF StageReceives
   <2>2. got'.v = visit
      BY <1>c, <1>o, <2>1
   <2>3. \A i \in DOMAIN Tail(chan) : Tail(chan)[i].v = visit
      BY <1>c, <1>o, <2>1
   <2>4. \A i \in DOMAIN chan' : chan'[i].v = visit
     <3>1. CASE chan' = Tail(chan)
        BY <2>3, <3>1
     <3>2. CASE router.op = "send" /\ Pending(router.what.v) /\ chan' = Append(Tail(chan), router.what)
       <4>1. Tail(chan) \in Seq(Results) /\ router.what \in Results /\ router.what.v = visit
          BY <1>c, <1>t, <2>1, <3>2 DEF Pending, LoopsOK, RouterIdle
       <4> QED
          BY <2>3, <3>2, <4>1
     <3> QED
        BY <1>5, <3>1, <3>2 DEF StageReceives
   <2> QED
      BY <1>o, <2>1, <2>2, <2>4 DEF OwnResults
 <1>6. ASSUME NEW a \in att, CompleteCommits(a) PROVE OwnResults'
   <2>1. CASE UNCHANGED runvars
      BY <1>6, <1>a, <2>1 DEF CompleteCommits, runvars, loopvars
   <2>2. CASE Awaited(a, "completing") /\ UNCHANGED <<visit, from, hist, chan, got>>
      BY <1>6, <1>a, <2>2 DEF CompleteCommits, Awaited, loopvars
   <2>3. CASE Moves
      BY <1>6, <1>b, <2>3 DEF CompleteCommits, Moves, loopvars
   <2> QED
      BY <1>6, <2>1, <2>2, <2>3 DEF CompleteCommits
 <1>7. ASSUME NEW a \in att, MarkCommits(a) PROVE OwnResults'
    BY <1>7, <1>a, <1>b DEF MarkCommits, Moves, runvars, loopvars
 <1>8. CASE LoopTakes
   <2>1. CASE Abandon
      BY <1>8, <1>b, <2>1 DEF Abandon, LoopTakes
   <2>2. CASE DropsBack(Head(routes))
      BY <1>8, <1>s, <1>t, <2>2 DEF DropsBack, RunOK, LoopTakes
   <2> QED
      BY <1>8, <2>1, <2>2 DEF LoopTakes, TakesForward, TakesBack, TakesRoute, TakesCancel
 <1>9. CASE RouteRecorded
    BY <1>9, <1>s, <1>t DEF RouteRecorded, LoopsOK
 <1>10. CASE RoutesResult
   <2> DEFINE r == Head(results)
   <2>1. results \in Seq(Results) /\ results # <<>>
      BY <1>10, <1>t DEF RoutesResult, SignalsOK
   <2>2. r \in Results
      BY <2>1
   <2> HIDE DEF r
   <2>3. UNCHANGED <<visit, pc, got>>
      BY <1>10 DEF RoutesResult
   <2>4. CASE Pending(r.v) /\ chan' = Append(chan, r) /\ UNCHANGED buffered
     <3>1. \A i \in DOMAIN chan' : chan'[i].v = visit
        BY <1>c, <1>o, <2>2, <2>4 DEF Pending
     <3> QED
        BY <1>o, <2>3, <2>4, <3>1 DEF OwnResults
   <2>5. CASE UNCHANGED <<buffered, chan>>
      BY <1>a, <2>3, <2>5
   <2>6. CASE buffered' = [buffered EXCEPT ![r.v] = r] /\ UNCHANGED chan
     <3>1. \A v \in Visits : buffered'[v] # None => buffered'[v].v = v
        BY <1>o, <1>t, <2>6 DEF LoopsOK
     <3> QED
        BY <1>o, <2>3, <2>6, <3>1 DEF OwnResults
   <2> QED
      BY <1>10, <2>4, <2>5, <2>6 DEF RoutesResult, r
 <1>11. CASE \/ \E v \in Visits : Complete(v) \/ Defer(v) \/ Claim(v)
             \/ \E v \in Visits, u \in Users : Reassign(v, u)
             \/ \E to \in {"task", "next"} : ForceRoute("forward", to)
             \/ ForceRoute("back", "prev") \/ Cancel \/ Terminate
             \/ \E a \in att : CreateReads(a) \/ SupersedeCommits(a) \/ DeferCommits(a) \/ AnswerLost(a)
             \/ CancelCommits \/ ReassignCommits \/ Closes \/ RoutesReassign \/ RoutesAdmin
             \/ \E d \in updates : AcceptsDefer(d)
             \/ ReassignAnswerLost \/ TerminateCommits
             \/ \E c \in claims : ClaimCommits(c)
   <2>1. UNCHANGED <<visit, pc, chan, got, buffered>>
      BY <1>11 DEF Complete, Defer, Claim, Reassign, ForceRoute, Cancel, Terminate, CreateReads,
         SupersedeCommits,
         DeferCommits, AnswerLost, CancelCommits, ReassignCommits, Closes, RoutesReassign, RoutesAdmin, AcceptsDefer,
         ReassignAnswerLost, TerminateCommits, ClaimCommits, runvars, loopvars
   <2> QED
      BY <1>a, <2>1
 <1>12. CASE UNCHANGED vars
    BY <1>12, <1>a DEF vars, runvars, loopvars
 <1> QED
    BY <1>1, <1>2, <1>3, <1>4, <1>5, <1>6, <1>7, <1>8, <1>9, <1>10, <1>11, <1>12
       DEF Next, Outside, Commits, Coroutines

\* A visit that was not begun has no row.
LEMMA UnbornStep ==
    ASSUME TypeOK, Guarded, LaterUnborn, AttemptsBehind, [Next]_vars
    PROVE  LaterUnborn' /\ NoneIsNew'
 <1> USE VisitsAre
 <1>1. /\ \A v \in Visits : RowStep(task[v], task'[v])
       /\ \A v \in Visits : v > visit => task'[v] = task[v]
    BY RowsStep
 <1>2. visit \in Nat /\ visit' \in {visit, visit + 1}
    BY RunMoves DEF Continues, Begins, TypeOK, RunOK
 <1>3. \A v \in Visits : v > visit' => v > visit
    BY <1>2
 <1>4. LaterUnborn'
    BY <1>1, <1>3 DEF LaterUnborn
 <1>5. NoneIsNew'
    BY <1>1 DEF RowStep, RowMoves, NoneIsNew, Guarded
 <1> QED
    BY <1>4, <1>5

\* A version that is still current was read from the row as it is: every write takes
\* the next one.
LEMMA GuardsStep ==
    ASSUME TypeOK, Guarded, LaterUnborn, AttemptsBehind, OneActive, [Next]_vars
    PROVE  ReassignsGuarded' /\ ClaimsGuarded'
 <1> USE VisitsAre
 <1>t. SignalsOK /\ LoopsOK /\ DbOK
    BY DEF TypeOK
 <1>1. \A v \in Visits : RowStep(task[v], task'[v])
    BY RowsStep
 <1>2. \A v \in Visits : /\ task[v].ver \in Nat /\ task'[v].ver \in Nat
                         /\ task'[v] = task[v] \/ task'[v].ver > task[v].ver
                         /\ task[v].st # "NONE" => task'[v].st # "NONE"
    BY <1>1, <1>t DEF RowStep, RowMoves, DbOK, Rows
 <1>3. ASSUME NEW r \in Reassigns, Current(r) PROVE Current(r)'
    BY <1>2, <1>3 DEF Current, Reassigns
 <1>4. ASSUME NEW c \in Claims, task[c.v].st # "NONE", c.ver <= task[c.v].ver, c.ver = task[c.v].ver => Leads(task[c.v]) = {}
       PROVE  task'[c.v].st # "NONE" /\ c.ver <= task'[c.v].ver /\ (c.ver = task'[c.v].ver => Leads(task'[c.v]) = {})
    BY <1>2, <1>4 DEF Claims
 <1>g. /\ \A i \in DOMAIN reassigns : reassigns[i] \in Reassigns /\ Current(reassigns[i])
       /\ router.op = "reassign" => router.what \in Reassigns /\ Current(router.what)
    BY <1>t DEF SignalsOK, LoopsOK, RouterIdle, Guarded, ReassignsGuarded
 <1>5. ReassignsGuarded'
   <2>1. CASE UNCHANGED reassigns /\ (router' = router \/ router'.op # "reassign")
      BY <1>3, <1>g, <2>1 DEF ReassignsGuarded
   <2>2. CASE RoutesReassign
     <3>1. reassigns \in Seq(Reassigns) /\ reassigns # <<>> /\ reassigns' = Tail(reassigns)
           /\ router'.what = Head(reassigns)
        BY <2>2, <1>t DEF RoutesReassign, SignalsOK
     <3>2. \A i \in DOMAIN Tail(reassigns) : i + 1 \in DOMAIN reassigns /\ Tail(reassigns)[i] = reassigns[i + 1]
        BY <3>1
     <3>3. Head(reassigns) = reassigns[1] /\ 1 \in DOMAIN reassigns
        BY <3>1
     <3>4. /\ \A i \in DOMAIN reassigns' : reassigns'[i] \in Reassigns /\ Current(reassigns'[i])
           /\ router'.what \in Reassigns /\ Current(router'.what)
        BY <1>g, <3>1, <3>2, <3>3
     <3>5. \A i \in DOMAIN reassigns' : Current(reassigns[i])'
       <4>1. TAKE i \in DOMAIN reassigns'
       <4> DEFINE r == reassigns'[i]
       <4>2. UNCHANGED task
          BY <2>2 DEF RoutesReassign, dbvars
       <4> QED
          BY <3>4, <4>2 DEF Current
     <3>6. Current(router.what)'
       <4>2. UNCHANGED task
          BY <2>2 DEF RoutesReassign, dbvars
       <4> QED
          BY <3>4, <4>2 DEF Current
     <3> QED
        BY <3>5, <3>6 DEF ReassignsGuarded
   <2>3. ASSUME NEW v \in Visits, NEW new \in Users, Reassign(v, new) PROVE ReassignsGuarded'
     <3>0. UNCHANGED <<task, router>> /\ task[v].st \in Open
        BY <2>3 DEF Reassign, dbvars, loopvars, Actionable
     <3>1. PICK old \in OldUsers(task[v]) :
              reassigns' = Append(reassigns, [v |-> v, old |-> old, new |-> new, ver |-> task[v].ver])
        BY <2>3 DEF Reassign
     <3> DEFINE r == [v |-> v, old |-> old, new |-> new, ver |-> task[v].ver]
     <3>2. r.v = v /\ r.old = old /\ r.ver = task[v].ver
        OBVIOUS
     <3> HIDE DEF r
     <3>3. Mode(task[v]) = "single" => \A i \in Active(task[v]) : task[v].asg[i].user = old
       <4> SUFFICES ASSUME Mode(task[v]) = "single", NEW i \in Active(task[v]) PROVE task[v].asg[i].user = old
          OBVIOUS
       <4>1. \A j \in Active(task[v]) : j = i
          BY DEF OneActive
       <4>2. old \in {task[v].asg[j].user : j \in Active(task[v])}
          BY <3>1 DEF OldUsers, MayAct
       <4> QED
          BY <4>1, <4>2
     <3>4. Current(r)
        BY <1>2, <3>0, <3>2, <3>3 DEF Current, Open
     <3>5. reassigns \in Seq(Reassigns) /\ Len(reassigns) \in Nat /\ DOMAIN reassigns = 1 .. Len(reassigns)
        BY <1>t DEF SignalsOK
     <3>6. \A i \in DOMAIN reassigns' : reassigns'[i] = r \/ (i \in DOMAIN reassigns /\ reassigns'[i] = reassigns[i])
        BY <3>1, <3>5 DEF r
     <3>7. \A i \in DOMAIN reassigns' : Current(reassigns'[i])
        BY <1>g, <3>4, <3>6
     <3>8. \A i \in DOMAIN reassigns' : Current(reassigns[i])'
        BY <3>0, <3>7 DEF Current
     <3>9. router'.op = "reassign" => Current(router.what)'
        BY <1>g, <3>0 DEF Current
     <3> QED
        BY <3>8, <3>9 DEF ReassignsGuarded
   <2>4. CASE ~RoutesReassign /\ ~(\E v \in Visits, new \in Users : Reassign(v, new))
     <3>1. UNCHANGED reassigns
        BY <2>4 DEF Next, Outside, Coroutines, Commits, PrevCompletes, NextCompletes, Complete, Defer,
           Claim, ForceRoute,
           Cancel, Terminate, Registers, StageReceives, LoopTakes, RoutesResult, RoutesAdmin,
           AcceptsDefer, CreateReads, CreateCommits, CompleteCommits, MarkCommits, SupersedeCommits, DeferCommits,
           RouteRecorded, CancelCommits, ReassignCommits, Closes, AnswerLost, ReassignAnswerLost, TerminateCommits,
           ClaimCommits, vars, sigvars
     <3>2. router' = router \/ router'.op # "reassign"
        BY <2>4 DEF Next, Outside, Coroutines, Commits, PrevCompletes, NextCompletes, Complete, Defer,
           Claim, ForceRoute,
           Cancel, Terminate, Registers, StageReceives, LoopTakes, RoutesResult, RoutesAdmin,
           AcceptsDefer, CreateReads, CreateCommits, CompleteCommits, MarkCommits, SupersedeCommits, DeferCommits,
           RouteRecorded, CancelCommits, ReassignCommits, Closes, AnswerLost, ReassignAnswerLost, TerminateCommits,
           ClaimCommits, vars, loopvars, RouterIdle, Unblocked
     <3> QED
        BY <2>1, <3>1, <3>2
   <2> QED
      BY <2>2, <2>3, <2>4
 <1>6. ClaimsGuarded'
   <2>1. \A c \in claims : /\ task'[c.v].st # "NONE" /\ c.ver <= task'[c.v].ver
                           /\ c.ver = task'[c.v].ver => Leads(task'[c.v]) = {}
      BY <1>4, <1>t DEF Guarded, ClaimsGuarded, SignalsOK
   <2>2. CASE claims' \subseteq claims
      BY <2>1, <2>2 DEF ClaimsGuarded
   <2>3. ASSUME NEW v \in Visits, Claim(v) PROVE ClaimsGuarded'
     <3>1. PICK i \in Active(task[v]) : claims' = claims \cup {[v |-> v, i |-> i, ver |-> task[v].ver]}
        BY <2>3 DEF Claim
     <3>2. UNCHANGED task /\ task[v].st \in Open /\ Leads(task[v]) = {}
        BY <2>3 DEF Claim, dbvars
     <3>3. task'[v].st # "NONE" /\ task[v].ver <= task'[v].ver /\ Leads(task'[v]) = {}
        BY <1>2, <3>2 DEF Open
     <3> QED
        BY <2>1, <3>1, <3>3 DEF ClaimsGuarded
   <2>4. CASE ~(\E v \in Visits : Claim(v))
     <3>1. claims' \subseteq claims
        BY <2>4 DEF Next, Outside, Coroutines, Commits, PrevCompletes, NextCompletes, Complete, Defer,
           Reassign, ForceRoute,
           Cancel, Terminate, Registers, StageReceives, LoopTakes, RoutesResult, RoutesReassign, RoutesAdmin,
           AcceptsDefer, CreateReads, CreateCommits, CompleteCommits, MarkCommits, SupersedeCommits, DeferCommits,
           RouteRecorded, CancelCommits, ReassignCommits, Closes, AnswerLost, ReassignAnswerLost, TerminateCommits,
           ClaimCommits, vars, sigvars
     <3> QED
        BY <2>2, <3>1
   <2> QED
      BY <2>3, <2>4
 <1> QED
    BY <1>5, <1>6

\* Activities, and those that close a row, stay behind the visit.
LEMMA BehindStep ==
    ASSUME TypeOK, LaterUnborn, AttemptsBehind, ClosersBehind, [Next]_vars
    PROVE  AttemptsBehind' /\ ClosersBehind'
 <1> USE VisitsAre
 <1>t. visit \in Nat /\ att \subseteq Attempts /\ updates \subseteq Attempts /\ \A v \in Visits : v \in Nat
    BY DEF TypeOK, RunOK, LoopsOK, SignalsOK
 <1>a. \A a \in att : a.v \in Nat
    BY <1>t DEF Attempts
 <1>u. \A a \in updates : a.v \in Nat
    BY <1>t DEF Attempts
 <1>m. Continues \/ Begins
    BY RunMoves
 <1>v. visit' \in {visit, visit + 1}
    BY <1>m DEF Continues, Begins
 <1>1. AttemptsAppear
    BY AttemptsMove
 <1>2. \A a \in att' : a.v <= visit'
   <2>1. \A a \in att : a.v <= visit'
      BY <1>a, <1>t, <1>v DEF AttemptsBehind
   <2> QED
      BY <1>1, <2>1 DEF AttemptsAppear
 <1>3. \A a \in updates' : a.v <= visit' /\ a.op = "defer"
   <2>1. \A a \in updates : a.v <= visit' /\ a.op = "defer"
      BY <1>u, <1>t, <1>v DEF AttemptsBehind
   <2>2. ASSUME NEW v \in Visits, Defer(v) PROVE \A a \in updates' : a \in updates \/ (a.v = v /\ a.op = "defer")
     <3>1. PICK i \in MayAct(task[v]) :
              updates' = updates \cup {[Attempt("defer", v, task[v].asg[i].user, i) EXCEPT !.id = left["defer"]]}
        BY <2>2 DEF Defer
     <3>2. LET d == [Attempt("defer", v, task[v].asg[i].user, i) EXCEPT !.id = left["defer"]]
           IN  d.v = v /\ d.op = "defer"
        BY DEF Attempt
     <3> QED
        BY <3>1, <3>2
   <2>3. ASSUME NEW v \in Visits, Defer(v) PROVE v <= visit'
     <3>1. task[v].st \in Open /\ UNCHANGED visit
        BY <2>3 DEF Defer, Actionable, runvars
     <3>2. ~(v > visit)
        BY <3>1 DEF LaterUnborn, Open
     <3> QED
        BY <1>t, <3>1, <3>2
   <2>4. CASE ~(\E v \in Visits : Defer(v))
     <3>1. updates' \subseteq updates
        BY <2>4 DEF Next, Outside, Coroutines, Commits, PrevCompletes, NextCompletes, Complete, Claim,
           Reassign, ForceRoute,
           Cancel, Terminate, Registers, StageReceives, LoopTakes, RoutesResult, RoutesReassign, RoutesAdmin,
           AcceptsDefer, CreateReads, CreateCommits, CompleteCommits, MarkCommits, SupersedeCommits, DeferCommits,
           RouteRecorded, CancelCommits, ReassignCommits, Closes, AnswerLost, ReassignAnswerLost, TerminateCommits,
           ClaimCommits, vars, sigvars
     <3> QED
        BY <2>1, <3>1
   <2> QED
      BY <2>1, <2>2, <2>3, <2>4
 <1>4. ASSUME NEW a \in att', a.op \in {"complete", "mark", "supersede"} PROVE a.v < visit' \/ pc' \notin Early
   <2>1. CASE a \notin att
      BY <1>1, <1>4, <2>1 DEF AttemptsAppear
   <2>2. CASE a \in att /\ Begins
      BY <1>a, <1>t, <2>2 DEF Begins, AttemptsBehind
   <2>3. CASE a \in att /\ Continues
      BY <1>4, <2>3 DEF Continues, ClosersBehind
   <2> QED
      BY <1>m, <2>1, <2>2, <2>3
 <1> QED
    BY <1>2, <1>3, <1>4 DEF AttemptsBehind, ClosersBehind

\* One assignee stays one.
LEMMA OneActiveStep ==
    ASSUME TypeOK, Guarded, LaterUnborn, AttemptsBehind, OneActive, [Next]_vars
    PROVE  OneActive'
 <1>1. \A v \in Visits : RowStep(task[v], task'[v])
    BY RowsStep
 <1> QED
    BY <1>1 DEF RowStep, RowMoves, RowSingle, OneActive, Mode

\* As long as the stage goes on waiting, a defer that is on its way stays on its
\* way: the attempt that commits sends the route.
LEMMA DeferStays ==
    ASSUME TypeOK, DeferUnderWay, Waits, Waits', visit' = visit, [Next]_vars
    PROVE  DeferUnderWay'
 <1> USE VisitsAre
 <1>t. visit \in Nat /\ routes \in Seq(Envelopes) /\ admin \in Seq(Envelopes) /\ from \in Steps
    BY DEF TypeOK, RunOK, LoopsOK, SignalsOK
 <1>e. pc' \notin {"completing", "marking", "past", "gone", "away"} /\ pc \notin {"completing", "marking", "past", "gone", "away"}
    BY DEF Waits, Early
 <1>a. ASSUME UNCHANGED routes, \A a \in att : a.op = "defer" => a \in att' PROVE DeferUnderWay'
    BY <1>a DEF DeferUnderWay
 <1>r. ASSUME NEW e \in Envelopes, routes' = Append(routes, e) PROVE DeferUnderWay'
   <2>1. routes' # <<>>
      BY <1>r, <1>t
   <2> QED
      BY <2>1 DEF DeferUnderWay
 <1>1. ~LoopTakes
   <2>1. ~Abandon
      BY <1>e DEF Abandon
   <2>2. ~DropsBack(Head(routes))
      BY <1>e, <1>t DEF DropsBack, BeginAt, Steps
   <2> QED
      BY <2>1, <2>2 DEF LoopTakes, TakesForward, TakesBack, TakesRoute, TakesCancel
 <1>2. ASSUME NEW a \in att, DeferCommits(a) PROVE DeferUnderWay'
   <2>1. Alive
      BY DEF Waits, Running, Alive
   <2>2. routes' = Append(routes, DeferEnvelope) /\ DeferEnvelope \in Envelopes
      BY <1>2, <2>1 DEF DeferCommits, AfterDefer, DeferEnvelope, Envelopes, Steps
   <2> QED
      BY <1>r, <2>2
 <1>3. CASE RoutesAdmin
   <2>1. PICK i \in DOMAIN admin : routes' = Append(routes, admin[i])
      BY <1>3 DEF RoutesAdmin
   <2>2. admin[i] \in Envelopes
      BY <1>t
   <2> QED
      BY <1>r, <2>1, <2>2
 <1>4. ASSUME NEW a \in att, CreateReads(a) \/ CreateCommits(a) \/ CompleteCommits(a) \/ MarkCommits(a) \/ SupersedeCommits(a)
       PROVE  DeferUnderWay'
   <2>1. a.op # "defer" /\ UNCHANGED routes
      BY <1>4 DEF CreateReads, CreateCommits, CompleteCommits, MarkCommits, SupersedeCommits, loopvars
   <2>2. att \ {a} \subseteq att'
      BY <1>4 DEF CreateReads, CreateCommits, CompleteCommits, MarkCommits, SupersedeCommits
   <2> QED
      BY <1>a, <2>1, <2>2
 <1>5. CASE \/ Outside \/ Registers \/ StageReceives \/ RoutesResult \/ RoutesReassign \/ \E d \in updates : AcceptsDefer(d)
            \/ RouteRecorded \/ CancelCommits \/ ReassignCommits \/ Closes
            \/ (\E a \in att : AnswerLost(a)) \/ ReassignAnswerLost \/ TerminateCommits \/ \E c \in claims : ClaimCommits(c)
   <2>1. UNCHANGED routes /\ att \subseteq att'
      BY <1>5 DEF Outside, PrevCompletes, NextCompletes, Complete, Defer, Claim, Reassign, ForceRoute,
           Cancel, Terminate, Registers, StageReceives, RoutesResult, RoutesReassign, AcceptsDefer,
           RouteRecorded, CancelCommits, ReassignCommits, Closes, AnswerLost, ReassignAnswerLost, TerminateCommits,
           ClaimCommits, loopvars
   <2> QED
      BY <1>a, <2>1
 <1>6. CASE UNCHANGED vars
    BY <1>6, <1>a DEF vars, loopvars
 <1> QED
    BY <1>1, <1>2, <1>3, <1>4, <1>5, <1>6 DEF Next, Commits, Coroutines

\* What the stage has of its own row: none yet, or one that somebody holds.
OwnRow == (pc = "creating" /\ task[visit].st = "NONE") \/ Held(task[visit])

\* As long as the stage goes on waiting, it keeps its row unless a defer is on its way.
LEMMA OwnRowStays ==
    ASSUME TypeOK, Guarded, AttemptsBehind, ClosersBehind, Waits, Waits', Continues, OwnRow, [Next]_vars
    PROVE  OwnRow' \/ DeferUnderWay'
 <1> USE VisitsAre
 <1>t. task \in [Visits -> Rows] /\ visit \in Nat /\ att \subseteq Attempts
    BY DEF TypeOK, DbOK, RunOK, LoopsOK
 <1>v. visit \in Visits /\ visit' = visit
    BY DEF TypeOK, RunOK, Waits, Early, Continues
 <1>n. task[visit] \in Rows /\ (task[visit].st = "NONE" => task[visit] = NoTask(task[visit].team))
    BY <1>t, <1>v DEF Guarded, NoneIsNew
 <1>e. pc \in Early /\ pc \notin {"completing", "marking", "past", "gone", "away"} /\ main.st = "run"
    BY DEF Waits, Early, Running
 <1>a. ASSUME task'[visit] = task[visit], pc' = pc \/ pc # "creating" PROVE OwnRow'
    BY <1>a, <1>v DEF OwnRow, Held
 <1>h. ASSUME Held(task'[visit]) PROVE OwnRow'
    BY <1>h, <1>v DEF OwnRow, Held
 <1>c. \A a \in att : a.v \in Visits /\ (a.op \in {"complete", "mark", "supersede"} => a.v # visit)
    BY <1>e, <1>t DEF ClosersBehind, Attempts
 <1>d. ASSUME NEW a \in att, task' = [task EXCEPT ![a.v] = Created(task[a.v])],
              pc' = pc \/ a.v = visit
       PROVE  OwnRow'
   <2>1. CASE a.v # visit
      BY <1>a, <1>d, <1>t, <1>v, <2>1
   <2>2. CASE a.v = visit
     <3>1. task'[visit] = Created(task[visit])
        BY <1>d, <1>t, <1>v, <2>2
     <3>2. CASE task[visit].st = "NONE"
       <4>1. Created(task[visit]).st \in Open /\ Active(Created(task[visit])) # {}
          BY <1>n, <3>2, CreatedRow
       <4> QED
          BY <1>h, <3>1, <4>1 DEF Held
     <3>3. CASE task[visit].st # "NONE"
       <4>1. task'[visit] = task[visit]
          BY <1>n, <3>1, <3>3, CreatedRow
       <4>2. Held(task'[visit])
          BY <3>3, <4>1 DEF OwnRow
       <4> QED
          BY <1>h, <4>2
     <3> QED
        BY <3>2, <3>3
   <2> QED
      BY <2>1, <2>2
 <1>1. ASSUME NEW a \in att, CreateReads(a) PROVE OwnRow'
    BY <1>1, <1>a DEF CreateReads, dbvars, runvars
 <1>2. ASSUME NEW a \in att, CreateCommits(a) PROVE OwnRow'
    BY <1>2, <1>d DEF CreateCommits, Awaited
 <1>3. ASSUME NEW a \in att, CompleteCommits(a) PROVE OwnRow'
   <2>1. a.v # visit /\ task' = [task EXCEPT ![a.v] = Completed(task[a.v], a.u)] /\ pc' = pc
      BY <1>3, <1>c DEF CompleteCommits, Awaited, runvars
   <2> QED
      BY <1>a, <1>t, <1>v, <2>1
 <1>4. ASSUME NEW a \in att, MarkCommits(a) PROVE OwnRow'
   <2>1. a.v # visit /\ task' = [task EXCEPT ![a.v] = Finished(task[a.v])] /\ pc' = pc
      BY <1>4, <1>c DEF MarkCommits, Awaited, runvars
   <2> QED
      BY <1>a, <1>t, <1>v, <2>1
 <1>5. ASSUME NEW a \in att, SupersedeCommits(a) PROVE OwnRow'
   <2>1. a.v # visit /\ task' = [task EXCEPT ![a.v] = Withdrawn(task[a.v], "SUPERSEDED")] /\ pc' = pc
      BY <1>5, <1>c DEF SupersedeCommits, runvars
   <2> QED
      BY <1>a, <1>t, <1>v, <2>1
 <1>6. ASSUME NEW a \in att, DeferCommits(a) PROVE DeferUnderWay'
   <2>1. Alive
      BY <1>e DEF Alive
   <2>2. routes \in Seq(Envelopes) /\ routes' = Append(routes, DeferEnvelope)
      BY <1>6, <2>1 DEF DeferCommits, AfterDefer, TypeOK, LoopsOK
   <2>3. routes' # <<>>
      BY <2>2
   <2> QED
      BY <2>3 DEF DeferUnderWay
 <1>7. ASSUME NEW a \in att, AnswerLost(a) PROVE OwnRow' \/ DeferUnderWay'
   <2>0. pc' = pc /\ UNCHANGED att
      BY <1>7 DEF AnswerLost, runvars
   <2>1. CASE a.op = "create"
     <3>1. task' = [task EXCEPT ![a.v] = Created(task[a.v])]
        BY <1>7, <2>1 DEF AnswerLost
     <3> QED
        BY <1>d, <2>0, <3>1
   <2>2. CASE a.op \in {"complete", "mark", "supersede"}
     <3>1. a.v # visit
        BY <1>c, <2>2
     <3>2. task'[visit] = task[visit]
        BY <1>7, <1>t, <1>v, <3>1 DEF AnswerLost
     <3> QED
        BY <1>a, <2>0, <3>2
   <2>3. CASE a.op = "defer"
      BY <2>0, <2>3 DEF DeferUnderWay
   <2> QED
      BY <1>t, <2>1, <2>2, <2>3 DEF Attempts
 <1>8. CASE RouteRecorded \/ CancelCommits \/ TerminateCommits \/ Closes
    BY <1>8, <1>e DEF RouteRecorded, CancelCommits, TerminateCommits, Closes
 <1>9. CASE ReassignCommits \/ ReassignAnswerLost
   <2> DEFINE r == router.what
   <2>0. router.op = "reassign" /\ task' = [task EXCEPT ![r.v] = Reassigned(task[r.v], r)] /\ pc' = pc
      BY <1>9 DEF ReassignCommits, ReassignAnswerLost, runvars
   <2>1. r \in Reassigns /\ Current(r)
      BY <2>0 DEF TypeOK, LoopsOK, RouterIdle, Guarded, ReassignsGuarded
   <2> HIDE DEF r
   <2>2. r.v \in Visits
      BY <2>1 DEF Reassigns
   <2>3. CASE r.v # visit
      BY <1>a, <1>t, <1>v, <2>0, <2>3
   <2>4. CASE r.v = visit
     <3>1. task[visit].st # "NONE"
        BY <2>1, <2>4 DEF Current
     <3>2. Reassigned(task[visit], r).st = task[visit].st
           /\ (Active(task[visit]) # {} => Active(Reassigned(task[visit], r)) # {})
        BY <1>n, <2>1, <2>4, ReassignedRow DEF Current
     <3>3. Held(task'[visit])
        BY <1>t, <1>v, <2>0, <2>4, <3>1, <3>2 DEF OwnRow, Held
     <3> QED
        BY <1>h, <3>3
   <2> QED
      BY <2>3, <2>4
 <1>10. ASSUME NEW c \in claims, ClaimCommits(c) PROVE OwnRow'
   <2>1. c.v \in Visits /\ task[c.v].st # "NONE" /\ (c.ver = task[c.v].ver => Leads(task[c.v]) = {})
      BY DEF TypeOK, SignalsOK, Claims, Guarded, ClaimsGuarded
   <2>2. task' = [task EXCEPT ![c.v] = LeadSet(task[c.v], c)] /\ pc' = pc
      BY <1>10 DEF ClaimCommits, runvars
   <2>3. CASE c.v # visit
      BY <1>a, <1>t, <1>v, <2>2, <2>3
   <2>4. CASE c.v = visit
     <3>2. LeadSet(task[visit], c).st = task[visit].st /\ Active(LeadSet(task[visit], c)) = Active(task[visit])
        BY <1>n, <2>1, <2>4, LeadSetRow
     <3>3. Held(task'[visit])
        BY <1>t, <1>v, <2>1, <2>2, <2>4, <3>2 DEF OwnRow, Held
     <3> QED
        BY <1>h, <3>3
   <2> QED
      BY <2>3, <2>4
 <1>11. CASE Outside \/ Coroutines
   <2>1. UNCHANGED task
      BY <1>11 DEF Outside, Coroutines, PrevCompletes, NextCompletes, Complete, Defer, Claim, Reassign,
         ForceRoute,
         Cancel, Terminate, Registers, StageReceives, LoopTakes, RoutesResult, RoutesReassign, RoutesAdmin,
         AcceptsDefer, dbvars
   <2>2. pc' = pc \/ pc # "creating"
     <3>1. CASE pc = "creating"
       <4>1. pc' \in {"creating", "recording", "waiting"}
          BY DEF Waits, Early
       <4> QED
          BY <1>11, <1>v, <1>t, <3>1, <4>1 DEF Outside, Coroutines, PrevCompletes, NextCompletes,
             Complete, Defer, Claim, Reassign, ForceRoute,
         Cancel, Terminate, Registers, StageReceives, LoopTakes, TakesForward, TakesBack, TakesRoute, DropsBack, BeginAt, TakesCancel,
         Abandon, RoutesResult, RoutesReassign, RoutesAdmin, AcceptsDefer, runvars
     <3> QED
        BY <3>1
   <2> QED
      BY <1>a, <2>1, <2>2
 <1>12. CASE UNCHANGED vars
    BY <1>12, <1>a DEF vars, dbvars, runvars
 <1> QED
    BY <1>1, <1>2, <1>3, <1>4, <1>5, <1>6, <1>7, <1>8, <1>9, <1>10, <1>11, <1>12 DEF Next, Commits

\* A stage that waits has its row, or a defer is on its way.
LEMMA ActableStep ==
    ASSUME TypeOK, RunOK', Guarded, LaterUnborn, AttemptsBehind, ClosersBehind, Actable, [Next]_vars
    PROVE  Actable'
 <1> USE VisitsAre
 <1> SUFFICES ASSUME Waits' PROVE OwnRow' \/ DeferUnderWay'
    BY DEF Actable, OwnRow
 <1>1. CASE Begins
   <2>1. visit \in Nat /\ visit' \in Visits /\ visit' > visit
      BY <1>1 DEF TypeOK, RunOK, Begins
   <2>2. task'[visit'] = task[visit'] /\ task[visit'].st = "NONE"
      BY <2>1, RowsStep DEF LaterUnborn
   <2> QED
      BY <1>1, <2>2 DEF Begins, OwnRow
 <1>2. CASE Continues
   <2>1. Waits /\ visit' = visit
      BY <1>2 DEF Continues
   <2>2. OwnRow \/ DeferUnderWay
      BY <2>1 DEF Actable, OwnRow
   <2> QED
      BY <1>2, <2>1, <2>2, OwnRowStays, DeferStays
 <1> QED
    BY <1>1, <1>2, RunMoves

\* The invariant holds at first
LEMMA InvInit == Init => Inv
 <1> SUFFICES ASSUME Init PROVE Inv
    OBVIOUS
 <1> USE VisitsAre
 <1>0. PICK team \in Teams : task = [v \in Visits |-> NoTask(team)]
    BY DEF Init
 <1>1. DbOK
   <2>1. NoTask(team) \in Rows
      BY DEF NoTask, Rows, Statuses
   <2> QED
      BY <1>0, <2>1 DEF Init, DbOK
 <1>2. RunOK
    BY DEF Init, RunOK, Steps, ChannelCap
 <1>3. SignalsOK
    BY BudgetAssumption DEF Init, SignalsOK
 <1>4. LoopsOK
    BY DEF Init, LoopsOK, Idle, Steps
 <1>5. OwnResults
    BY DEF Init, OwnResults
 <1>6. LaterUnborn /\ NoneIsNew
    BY <1>0 DEF LaterUnborn, NoneIsNew, NoTask
 <1>7. ReassignsGuarded /\ ClaimsGuarded
    BY DEF Init, ReassignsGuarded, ClaimsGuarded, RouterIdle
 <1>8. AttemptsBehind /\ ClosersBehind
    BY DEF Init, AttemptsBehind, ClosersBehind
 <1>9. OneActive
    BY <1>0 DEF OneActive, NoTask, Active
 <1>10. Actable
    BY DEF Init, Actable, Waits, Early
 <1> QED
    BY <1>1, <1>2, <1>3, <1>4, <1>5, <1>6, <1>7, <1>8, <1>9, <1>10 DEF Inv, TypeOK, Guarded

\* and every step keeps it.
LEMMA InvStep == Inv /\ [Next]_vars => Inv'
 <1> SUFFICES ASSUME Inv, [Next]_vars PROVE Inv'
    OBVIOUS
 <1> USE DEF Inv
 <1>1. DbOK' /\ RunOK' /\ SignalsOK' /\ LoopsOK'
    BY DbStep, RunStep, SignalsStep, LoopsStep
 <1>2. OwnResults'
    BY ResultsStep
 <1>3. LaterUnborn' /\ NoneIsNew'
    BY UnbornStep
 <1>4. ReassignsGuarded' /\ ClaimsGuarded'
    BY GuardsStep
 <1>5. AttemptsBehind' /\ ClosersBehind'
    BY BehindStep
 <1>6. OneActive'
    BY OneActiveStep
 <1>7. Actable'
    BY <1>1, ActableStep
 <1> QED
    BY <1>1, <1>2, <1>3, <1>4, <1>5, <1>6, <1>7 DEF TypeOK, Guarded

(***************************************************************************)
(* The theorems.                                                           *)
(***************************************************************************)
\* The inductive invariant holds in every reachable state.
THEOREM Invariance == Spec => []Inv
    BY InvInit, InvStep, PTL DEF Spec

\* Every variable has its type, and the channel of the stage never holds more than
\* its capacity (stage.go), for any users, assignees, bounds and budgets.
THEOREM TaskTypeCorrect == Spec => []TypeOK
 <1>1. Inv => TypeOK
    BY DEF Inv
 <1> QED
    BY <1>1, Invariance, PTL

\* A stage applies results of its own visit only (nodeVisitKey): a result waits in the
\* buffer under the visit it was sent for, and the channel is one of that visit.
THEOREM ResultOfItsVisitHolds == Spec => []ResultOfItsVisit
 <1>1. Inv => ResultOfItsVisit
    BY DEF Inv, OwnResults, ResultOfItsVisit
 <1> QED
    BY <1>1, Invariance, PTL

\* An open task of one assignee never has two, whatever reassignments cross: one whose
\* version is current vacates the assignee there is (ReassignAssignment).
THEOREM SingleHasOneAssigneeHolds == Spec => []SingleHasOneAssignee
 <1>1. Inv => SingleHasOneAssignee
    BY DEF Inv, OneActive, SingleHasOneAssignee
 <1> QED
    BY <1>1, Invariance, PTL

\* A stage that waits with nothing on its way to it waits for an open row that somebody
\* holds (runTaskStage): only a defer closes it, and a defer sends a route after it.
THEOREM WaitingTaskActionableHolds == Spec => []WaitingTaskActionable
 <1>1. Inv => WaitingTaskActionable
    BY DEF Inv, Actable, Waits, Early, Held, DeferUnderWay, WaitingTaskActionable
 <1> QED
    BY <1>1, Invariance, PTL

\* A lead that stays active stays the lead (SetLead): a claim whose version is current
\* found no lead.
THEOREM ClaimSurvivesHolds == Spec => ClaimSurvives
 <1>1. Inv /\ [Next]_vars => [\A v \in Visits : \A i \in Leads(task[v]) :
                                 i \in Active(task'[v]) => task'[v].asg[i].lead]_vars
   <2> SUFFICES ASSUME Inv, [Next]_vars
                PROVE  \A v \in Visits : \A i \in Leads(task[v]) : i \in Active(task'[v]) => task'[v].asg[i].lead
      OBVIOUS
   <2>1. \A v \in Visits : RowStep(task[v], task'[v])
      BY RowsStep DEF Inv
   <2> QED
      BY <2>1 DEF RowStep, RowLeads
 <1> QED
    BY <1>1, Invariance, PTL DEF Spec, ClaimSurvives

\* A claimed task that stays open keeps a lead (leadHeldBy): who is appointed instead of
\* the lead is the lead.
THEOREM LeadHandedOverHolds == Spec => LeadHandedOver
 <1>1. Inv /\ [Next]_vars => [\A v \in Visits :
                                 /\ Leads(task[v]) # {}
                                 /\ task'[v].st \in Open
                                 /\ \A i \in Leads(task[v]) : task'[v].asg[i].st # "done"
                                 => Leads(task'[v]) # {}]_vars
   <2> SUFFICES ASSUME Inv, [Next]_vars, NEW v \in Visits, Leads(task[v]) # {}, task'[v].st \in Open,
                       \A i \in Leads(task[v]) : task'[v].asg[i].st # "done"
                PROVE  Leads(task'[v]) # {}
      OBVIOUS
   <2>1. RowStep(task[v], task'[v])
      BY RowsStep DEF Inv
   <2> QED
      BY <2>1 DEF RowStep, RowLeads
 <1> QED
    BY <1>1, Invariance, PTL DEF Spec, LeadHandedOver

=============================================================================
